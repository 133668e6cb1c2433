------------------------ MODULE EnrichmentCacheProofs ------------------------
(***************************************************************************)
(* For any number of requests and filings and every CACHE_TTL: the stamps  *)
(* of the cache are honest and the answers fresh.                          *)
(***************************************************************************)
EXTENDS EnrichmentCache, InvestmentScore, FiniteSetTheorems, WellFoundedInduction, TLAPS

USE DEF None, Times

LEMMA Constants == TTL \in Nat /\ MaxTime \in Nat /\ Start \in Times /\ 0 \in Times
BY CacheAssumption DEF Start

(* A request as a record of the type.                                      *)
LEMMA IdleTyped == Idle \in Transactions
BY Constants DEF Idle, Transactions

LEMMA RequestTyped ==
  ASSUME TypeOK, NEW r \in Requests
  PROVE  /\ req[r] \in Transactions
         /\ DOMAIN req = Requests
BY DEF TypeOK

LEMMA WrittenTyped ==
  ASSUME TypeOK, NEW r \in Requests
  PROVE  Written(r) \in Rows
<1> DEFINE q == req[r]
<1>1. q \in Transactions /\ row \in Rows
  BY DEF TypeOK
<1> HIDE DEF q
<1>2. (row.exists \/ q.wrote \/ q.stamps) \in BOOLEAN
  OBVIOUS
<1>3. q.start \in Times /\ q.short \in Times
  BY <1>1 DEF Transactions
<1>4. row.data \in Times /\ row.fetched \in Times /\ row.funda \in Times /\ row.insider \in Times
  BY <1>1 DEF Rows
<1>5. Written(r) = [exists  |-> row.exists \/ q.wrote \/ q.stamps,
                    data    |-> IF q.wrote THEN q.short ELSE row.data,
                    fetched |-> IF q.wrote THEN q.start ELSE row.fetched,
                    funda   |-> IF q.wrote THEN q.start ELSE row.funda,
                    insider |-> IF q.stamps THEN q.start ELSE row.insider]
  BY DEF Written, q
<1> QED
  BY <1>2, <1>3, <1>4, <1>5 DEF Rows

LEMMA TypeInit == Init => TypeOK
<1> SUFFICES ASSUME Init PROVE TypeOK
  OBVIOUS
<1>1. NoRow \in Rows /\ InitialRows \subseteq Rows
  BY Constants DEF NoRow, InitialRows, Rows
<1> QED
  BY <1>1, Constants, IdleTyped DEF Init, TypeOK

------------------------------------------------------------------------------
(* What one step does to the request that takes it.                        *)

(* r goes on: nothing that is shared changes but the locks.                *)
GoesOn(r) ==
  /\ UNCHANGED <<now, filed, row, txns>>
  /\ rowLock' \in Requests \cup {NoOne} /\ txnLock' \in Requests \cup {NoOne}
  /\ req' \in [Requests -> Transactions]
  /\ \A s \in Requests \ {r} : req'[s] = req[s]

LEMMA BeginStep ==
  ASSUME TypeOK, NEW r \in Requests, Begin(r)
  PROVE  /\ GoesOn(r)
         /\ req'[r].at = IF SnapshotStale THEN "info" ELSE "insiders"
         /\ req'[r].start = now /\ req'[r].seen = row.insider /\ req'[r].short = row.data
         /\ ~req'[r].wrote /\ ~req'[r].stamps /\ ~req'[r].missed
<1> DEFINE a == IF SnapshotStale THEN "info" ELSE "insiders"
           p == [Idle EXCEPT !.at = a, !.start = now, !.seen = row.insider, !.short = row.data]
<1>1. a \in {"info", "insiders"}
  OBVIOUS
<1>2. now \in Times /\ row.insider \in Times /\ row.data \in Times
  BY DEF TypeOK, Rows
<1>3. req' = [req EXCEPT ![r] = p]
  BY DEF Begin
<1> HIDE DEF a
<1>4. /\ p \in Transactions
      /\ p.at = a /\ p.start = now /\ p.seen = row.insider /\ p.short = row.data
      /\ ~p.wrote /\ ~p.stamps /\ ~p.missed
  BY <1>1, <1>2 DEF Idle, Transactions, Busy
<1> HIDE DEF p
<1>5. req'[r] = p /\ req' \in [Requests -> Transactions]
  BY <1>3, <1>4 DEF TypeOK
<1>6. GoesOn(r)
  BY <1>3, <1>5 DEF GoesOn, Begin, TypeOK
<1> QED
  BY <1>4, <1>5, <1>6 DEF a

LEMMA FetchSnapshotStep ==
  ASSUME TypeOK, NEW r \in Requests, FetchSnapshot(r)
  PROVE  /\ GoesOn(r) /\ req[r].at = "info"
         /\ req'[r].start = req[r].start /\ req'[r].seen = req[r].seen
         /\ req'[r].wrote = req[r].wrote /\ req'[r].stamps = req[r].stamps
         /\ req'[r].got = req[r].got
         /\ \/ req'[r].at = "store" /\ req'[r].short = now
            \/ req'[r].at = "insiders" /\ req'[r].missed /\ req'[r].short = req[r].short
  BY DEF TypeOK, Transactions, Busy, GoesOn, FetchSnapshot

(* The fields of a request that steps other than its first leave alone.    *)
SameMoments(p, q) == p.start = q.start /\ p.seen = q.seen

LEMMA StoreSnapshotStep ==
  ASSUME TypeOK, NEW r \in Requests, StoreSnapshot(r)
  PROVE  /\ GoesOn(r) /\ req[r].at = "store" /\ req'[r].at = "insiders"
         /\ SameMoments(req'[r], req[r]) /\ req'[r].short = req[r].short /\ req'[r].got = req[r].got
         /\ req'[r].stamps = req[r].stamps /\ req'[r].missed = req[r].missed
  BY DEF TypeOK, Transactions, Busy, GoesOn, StoreSnapshot, SameMoments

LEMMA FetchInsidersStep ==
  ASSUME TypeOK, NEW r \in Requests, FetchInsiders(r)
  PROVE  /\ GoesOn(r) /\ req[r].at = "insiders"
         /\ SameMoments(req'[r], req[r]) /\ req'[r].short = req[r].short
         /\ req'[r].wrote = req[r].wrote /\ req'[r].stamps = req[r].stamps
         /\ \/ /\ ~InsiderStale(req[r].seen) /\ req'[r].at = "answer"
               /\ req'[r].got = req[r].got /\ req'[r].missed = req[r].missed
            \/ /\ req'[r].at \in {"file", "stamp"} /\ req'[r].got = Listed
               /\ req'[r].missed = req[r].missed
            \/ req'[r].at = "answer" /\ req'[r].missed /\ req'[r].got = req[r].got
<1>1. Listed \in SUBSET Filings
  BY DEF Listed
<1>2. req[r] \in Transactions
  BY DEF TypeOK
<1>3. GoesOn(r) /\ req[r].at = "insiders"
  BY <1>1 DEF TypeOK, Transactions, Busy, GoesOn, FetchInsiders
<1>4. CASE ~InsiderStale(req[r].seen) /\ req' = [req EXCEPT ![r].at = "answer"]
  BY <1>2, <1>3, <1>4 DEF TypeOK, Transactions, SameMoments
<1>5. CASE req' = [req EXCEPT ![r].at = IF Listed = {} THEN "stamp" ELSE "file", ![r].got = Listed]
  BY <1>2, <1>3, <1>5 DEF TypeOK, Transactions, SameMoments
<1>6. CASE req' = [req EXCEPT ![r].at = "answer", ![r].missed = TRUE]
  BY <1>2, <1>3, <1>6 DEF TypeOK, Transactions, SameMoments
<1> QED
  BY <1>4, <1>5, <1>6 DEF FetchInsiders

LEMMA StoreInsidersStep ==
  ASSUME TypeOK, NEW r \in Requests, StoreInsiders(r)
  PROVE  /\ GoesOn(r) /\ req[r].at = "file" /\ req'[r].at = "stamp"
         /\ SameMoments(req'[r], req[r]) /\ req'[r].short = req[r].short /\ req'[r].got = req[r].got
         /\ req'[r].wrote = req[r].wrote
         /\ req'[r].stamps = req[r].stamps /\ req'[r].missed = req[r].missed
  BY DEF TypeOK, Transactions, Busy, GoesOn, StoreInsiders, SameMoments

LEMMA StampInsidersStep ==
  ASSUME TypeOK, NEW r \in Requests, StampInsiders(r)
  PROVE  /\ GoesOn(r) /\ req[r].at = "stamp" /\ req'[r].at = "answer" /\ req'[r].stamps
         /\ SameMoments(req'[r], req[r]) /\ req'[r].short = req[r].short /\ req'[r].got = req[r].got
         /\ req'[r].wrote = req[r].wrote /\ req'[r].missed = req[r].missed
  BY DEF TypeOK, Transactions, Busy, GoesOn, StampInsiders, SameMoments

(* A transaction ends, committed or rolled back.                           *)
LEMMA EndsStep ==
  ASSUME TypeOK, NEW r \in Requests, Ends(r)
  PROVE  /\ UNCHANGED <<now, filed>>
         /\ rowLock' \in Requests \cup {NoOne} /\ txnLock' \in Requests \cup {NoOne}
         /\ req' \in [Requests -> Transactions]
         /\ req'[r] = Idle /\ \A s \in Requests \ {r} : req'[s] = req[s]
  BY IdleTyped DEF TypeOK, Ends, Release

(* The steps, grouped by what they change.                                 *)
Steps(r) ==
  \/ Begin(r) \/ FetchSnapshot(r) \/ StoreSnapshot(r) \/ FetchInsiders(r)
  \/ StoreInsiders(r) \/ StampInsiders(r)

RolledBack(r) == Ends(r) /\ UNCHANGED <<row, txns>>

LEMMA NextSteps ==
  ASSUME [Next]_vars
  PROVE  \/ \E r \in Requests : Steps(r) \/ Answer(r) \/ RolledBack(r)
         \/ File \/ Tick \/ UNCHANGED vars
  BY DEF Next, Going, Locking, Kill, BreakDeadlock, Fail, Steps, RolledBack

LEMMA StepGoesOn ==
  ASSUME TypeOK, NEW r \in Requests, Steps(r)
  PROVE  GoesOn(r)
  BY BeginStep, FetchSnapshotStep, StoreSnapshotStep, FetchInsidersStep, StoreInsidersStep,
     StampInsidersStep DEF Steps

LEMMA TypeStep == TypeOK /\ [Next]_vars => TypeOK'
<1> SUFFICES ASSUME TypeOK, [Next]_vars PROVE TypeOK'
  OBVIOUS
<1>1. ASSUME NEW r \in Requests, Steps(r) PROVE TypeOK'
  BY <1>1, StepGoesOn DEF TypeOK, GoesOn
<1>2. ASSUME NEW r \in Requests, Answer(r) PROVE TypeOK'
  <2>1. Seen(r) \subseteq Filings
    BY DEF TypeOK, Seen, Transactions
  <2>2. row' \in Rows /\ txns' \subseteq Filings
    BY <1>2, <2>1, WrittenTyped DEF Answer
  <2> QED
    BY <1>2, <2>2, EndsStep DEF Answer, TypeOK
<1>3. ASSUME NEW r \in Requests, RolledBack(r) PROVE TypeOK'
  BY <1>3, EndsStep DEF RolledBack, TypeOK
<1>4. CASE File
  BY <1>4 DEF File, TypeOK
<1>5. CASE Tick
  <2>1. now' \in Times
    BY <1>5, CacheAssumption DEF Tick, TypeOK
  <2> QED
    BY <1>5, <2>1 DEF Tick, TypeOK
<1>6. CASE UNCHANGED vars
  BY <1>6 DEF vars, TypeOK
<1> QED
  BY <1>1, <1>2, <1>3, <1>4, <1>5, <1>6, NextSteps

(* The variables keep their types.                                         *)
THEOREM TypeCorrect == Spec => []TypeOK
BY TypeInit, TypeStep, PTL DEF Spec

------------------------------------------------------------------------------
(* What makes the stamps honest and the answers fresh: a transaction is    *)
(* judged by now(), its beginning, and whatever it fetches it fetches      *)
(* later.                                                                  *)

Before(f, t) == filed[f] # None /\ filed[f] < t

Fetched(q) == q.at = "store" \/ q.wrote => q.short >= q.start

Read(q) ==
  q.at \in {"file", "stamp"} \/ q.stamps => \A f \in Filings : Before(f, q.start) => f \in q.got

Cached(q) == \A f \in Filings : Before(f, q.seen) => f \in txns

Fresh(q) ==
  /\ q.at \in {"store", "insiders", "file", "stamp", "answer"} /\ ~q.missed
       => q.short + TTL >= q.start
  /\ q.at = "answer" /\ ~q.missed => q.stamps \/ q.seen + TTL >= q.start

Honest(q) ==
  /\ q.start <= now /\ q.seen <= now
  /\ Fetched(q) /\ Read(q) /\ Cached(q) /\ Fresh(q)

CacheInv ==
  /\ TypeOK /\ StampsHonest
  /\ row.insider <= now
  /\ \A r \in Requests : Honest(req[r])

LEMMA Numbers ==
  ASSUME TypeOK, NEW q \in Transactions
  PROVE  /\ now \in Nat /\ TTL \in Nat /\ q.start \in Nat /\ q.seen \in Nat /\ q.short \in Nat
         /\ \A f \in Filings : filed[f] \in Nat
         /\ row.data \in Nat /\ row.fetched \in Nat /\ row.funda \in Nat /\ row.insider \in Nat
  BY CacheAssumption DEF TypeOK, Transactions, Rows

(* Time passes, filings are listed now and transactions commit: what is    *)
(* known of a transaction stays true.                                      *)
LEMMA HonestStays ==
  ASSUME TypeOK, TypeOK', NEW q \in Transactions, Honest(q),
         now <= now', txns \subseteq txns',
         \A f \in Filings : filed'[f] # filed[f] => filed'[f] = now
  PROVE  Honest(q)'
<1>1. /\ now \in Nat /\ now' \in Nat /\ q.start \in Nat /\ q.seen \in Nat
      /\ \A f \in Filings : filed[f] \in Nat /\ filed'[f] \in Nat
  BY CacheAssumption DEF TypeOK, Transactions
<1>2. \A f \in Filings : \A t \in Nat : t <= now /\ Before(f, t)' => Before(f, t)
  BY <1>1 DEF Before
<1>3. q.start <= now' /\ q.seen <= now'
  BY <1>1 DEF Honest
<1>4. Fetched(q)' /\ Fresh(q)'
  BY DEF Honest, Fetched, Fresh
<1>5. Read(q)'
  BY <1>1, <1>2 DEF Honest, Read
<1>6. Cached(q)'
  BY <1>1, <1>2 DEF Honest, Cached
<1> QED
  BY <1>3, <1>4, <1>5, <1>6 DEF Honest

LEMMA IdleHonest ==
  ASSUME TypeOK
  PROVE  Honest(Idle)
<1>1. \A f \in Filings : ~Before(f, 0)
  BY DEF Before, TypeOK
<1> QED
  BY <1>1, CacheAssumption DEF Idle, Honest, Fetched, Read, Cached, Fresh, TypeOK

(* The request that takes a step of its own.                               *)
LEMMA HonestGoesOn ==
  ASSUME CacheInv, NEW r \in Requests, Steps(r)
  PROVE  Honest(req'[r])
<1> DEFINE q == req[r]
           p == req'[r]
<1>1. TypeOK /\ q \in Transactions /\ p \in Transactions /\ Honest(q)
  BY StepGoesOn DEF CacheInv, TypeOK, GoesOn
<1>2. /\ now \in Nat /\ TTL \in Nat /\ q.start \in Nat /\ q.seen \in Nat /\ q.short \in Nat
      /\ \A f \in Filings : filed[f] \in Nat
      /\ row.data \in Nat /\ row.fetched \in Nat /\ row.funda \in Nat /\ row.insider \in Nat
  BY <1>1, Numbers
<1>3. CASE Begin(r)
  <2>1. /\ p.at = IF SnapshotStale THEN "info" ELSE "insiders"
        /\ p.start = now /\ p.seen = row.insider /\ p.short = row.data
        /\ ~p.wrote /\ ~p.stamps /\ ~p.missed
    BY <1>1, <1>3, BeginStep
  <2>2. Cached(p)
    BY <2>1 DEF CacheInv, StampsHonest, Cached, Before
  <2>3. ~SnapshotStale => row.data + TTL >= now
    BY <1>2 DEF SnapshotStale, Old, CacheInv, StampsHonest
  <2> HIDE DEF p
  <2>4. Fresh(p) /\ Fetched(p) /\ Read(p)
    BY <2>1, <2>3 DEF Fresh, Fetched, Read
  <2>5. p.start <= now /\ p.seen <= now
    BY <1>2, <2>1 DEF CacheInv
  <2> QED
    BY <2>2, <2>4, <2>5 DEF Honest, p
<1>4. CASE FetchSnapshot(r)
  <2>1. /\ q.at = "info" /\ p.start = q.start /\ p.seen = q.seen
        /\ p.wrote = q.wrote /\ p.stamps = q.stamps /\ p.got = q.got
        /\ \/ p.at = "store" /\ p.short = now
           \/ p.at = "insiders" /\ p.missed /\ p.short = q.short
    BY <1>1, <1>4, FetchSnapshotStep
  <2> HIDE DEF p, q
  <2>2. q.start <= now
    BY <1>1 DEF Honest
  <2>3. Fetched(p) /\ Read(p) /\ Cached(p) /\ Fresh(p)
    BY <1>1, <1>2, <2>1, <2>2 DEF Honest, Fetched, Read, Cached, Fresh
  <2>4. Honest(p)
    BY <1>1, <2>1, <2>3 DEF Honest
  <2> QED
    BY <2>4 DEF p
<1>5. CASE StoreSnapshot(r)
  <2>1. /\ q.at = "store" /\ p.at = "insiders" /\ p.start = q.start /\ p.seen = q.seen
        /\ p.short = q.short /\ p.got = q.got /\ p.stamps = q.stamps /\ p.missed = q.missed
    BY <1>1, <1>5, StoreSnapshotStep DEF SameMoments
  <2> HIDE DEF p, q
  <2>2. Fetched(p) /\ Read(p) /\ Cached(p) /\ Fresh(p)
    BY <1>1, <2>1 DEF Honest, Fetched, Read, Cached, Fresh
  <2>3. Honest(p)
    BY <1>1, <2>1, <2>2 DEF Honest
  <2> QED
    BY <2>3 DEF p
<1>6. CASE FetchInsiders(r)
  <2>1. /\ q.at = "insiders" /\ p.start = q.start /\ p.seen = q.seen /\ p.short = q.short
        /\ p.wrote = q.wrote /\ p.stamps = q.stamps
        /\ \/ /\ ~InsiderStale(q.seen) /\ p.at = "answer"
              /\ p.got = q.got /\ p.missed = q.missed
           \/ /\ p.at \in {"file", "stamp"} /\ p.got = Listed
              /\ p.missed = q.missed
           \/ p.at = "answer" /\ p.missed /\ p.got = q.got
    BY <1>1, <1>6, FetchInsidersStep DEF SameMoments
  <2> HIDE DEF p, q
  <2>2. ~InsiderStale(q.seen) => q.seen + TTL >= q.start
    BY <1>1, <1>2 DEF InsiderStale, Old, Honest
  <2>3. \A f \in Filings : Before(f, q.start) => f \in Listed
    BY DEF Before, Listed
  <2>4. Fetched(p) /\ Read(p) /\ Cached(p)
    BY <1>1, <2>1, <2>3 DEF Honest, Fetched, Read, Cached
  <2>5. Fresh(p)
    BY <1>1, <2>1, <2>2 DEF Honest, Fresh
  <2>6. Honest(p)
    BY <1>1, <2>1, <2>4, <2>5 DEF Honest
  <2> QED
    BY <2>6 DEF p
<1>7. CASE StoreInsiders(r)
  <2>1. /\ q.at = "file" /\ p.at = "stamp" /\ p.start = q.start /\ p.seen = q.seen
        /\ p.short = q.short /\ p.got = q.got /\ p.wrote = q.wrote
        /\ p.stamps = q.stamps /\ p.missed = q.missed
    BY <1>1, <1>7, StoreInsidersStep DEF SameMoments
  <2> HIDE DEF p, q
  <2>2. Fetched(p) /\ Read(p) /\ Cached(p) /\ Fresh(p)
    BY <1>1, <2>1 DEF Honest, Fetched, Read, Cached, Fresh
  <2>3. Honest(p)
    BY <1>1, <2>1, <2>2 DEF Honest
  <2> QED
    BY <2>3 DEF p
<1>8. CASE StampInsiders(r)
  <2>1. /\ q.at = "stamp" /\ p.at = "answer" /\ p.stamps /\ p.start = q.start /\ p.seen = q.seen
        /\ p.short = q.short /\ p.got = q.got /\ p.wrote = q.wrote /\ p.missed = q.missed
    BY <1>1, <1>8, StampInsidersStep DEF SameMoments
  <2> HIDE DEF p, q
  <2>2. Fetched(p) /\ Read(p) /\ Cached(p) /\ Fresh(p)
    BY <1>1, <2>1 DEF Honest, Fetched, Read, Cached, Fresh
  <2>3. Honest(p)
    BY <1>1, <2>1, <2>2 DEF Honest
  <2> QED
    BY <2>3 DEF p
<1> QED
  BY <1>3, <1>4, <1>5, <1>6, <1>7, <1>8 DEF Steps

(* The row and the filings a commit leaves: the stamps of the transaction  *)
(* are its beginning, which is before what it fetched.                     *)
LEMMA CommitHonest ==
  ASSUME CacheInv, NEW r \in Requests, Answer(r)
  PROVE  StampsHonest' /\ row'.insider <= now
<1> DEFINE q == req[r]
<1>1. TypeOK /\ q \in Transactions /\ Honest(q) /\ StampsHonest /\ row.insider <= now
  BY DEF CacheInv, TypeOK
<1>2. /\ row' = Written(r) /\ txns' = txns \cup q.got /\ UNCHANGED filed
  BY <1>1, EndsStep DEF Answer, Seen
<1> DEFINE ex == row.exists \/ q.wrote \/ q.stamps
           da == IF q.wrote THEN q.short ELSE row.data
           fe == IF q.wrote THEN q.start ELSE row.fetched
           fu == IF q.wrote THEN q.start ELSE row.funda
           ins == IF q.stamps THEN q.start ELSE row.insider
<1>3. row' = [exists |-> ex, data |-> da, fetched |-> fe, funda |-> fu, insider |-> ins]
  BY <1>2 DEF Written
<1>4. fe <= da /\ fu <= da
  BY <1>1 DEF Honest, Fetched, StampsHonest
<1>5. ins <= now
  BY <1>1 DEF Honest
<1>6. \A f \in Filings : Before(f, ins) => f \in txns \cup q.got
  BY <1>1 DEF Honest, Read, StampsHonest, Before
<1> HIDE DEF q, ex, da, fe, fu, ins
<1>7. row'.data = da /\ row'.fetched = fe /\ row'.funda = fu /\ row'.insider = ins
  BY <1>3
<1> QED
  BY <1>2, <1>4, <1>5, <1>6, <1>7 DEF StampsHonest, Before

LEMMA CacheInit == Init => CacheInv
<1> SUFFICES ASSUME Init PROVE CacheInv
  OBVIOUS
<1>1. TypeOK /\ \A r \in Requests : req[r] = Idle
  BY TypeInit DEF Init
<1>2. row.fetched <= row.data /\ row.funda <= row.data /\ row.insider = 0
  BY CacheAssumption DEF Init, InitialRows, NoRow, Start
<1>3. row.insider <= now /\ \A f \in Filings : ~(filed[f] < 0)
  BY <1>1, <1>2 DEF TypeOK
<1>4. StampsHonest
  BY <1>2, <1>3 DEF StampsHonest
<1> QED
  BY <1>1, <1>3, <1>4, IdleHonest DEF CacheInv

LEMMA CacheStep == CacheInv /\ [Next]_vars => CacheInv'
<1> SUFFICES ASSUME CacheInv, [Next]_vars PROVE CacheInv'
  OBVIOUS
<1>1. TypeOK /\ TypeOK'
  BY TypeStep DEF CacheInv
<1>2. ASSUME NEW r \in Requests, Steps(r) PROVE CacheInv'
  <2>1. GoesOn(r)
    BY <1>1, <1>2, StepGoesOn
  <2>2. \A s \in Requests : Honest(req'[s])
    BY <1>2, <2>1, HonestGoesOn DEF CacheInv, GoesOn
  <2>3. \A s \in Requests : Honest(req[s])'
    BY <2>1, <2>2 DEF GoesOn, Honest, Fetched, Read, Cached, Fresh, Before
  <2>4. StampsHonest' /\ (row.insider <= now)'
    BY <2>1 DEF GoesOn, CacheInv, StampsHonest
  <2> QED
    BY <1>1, <2>3, <2>4 DEF CacheInv
<1>3. ASSUME NEW r \in Requests, Answer(r) PROVE CacheInv'
  <2>1. /\ UNCHANGED <<now, filed>> /\ txns \subseteq txns'
        /\ req'[r] = Idle /\ \A s \in Requests \ {r} : req'[s] = req[s]
    BY <1>1, <1>3, EndsStep DEF Answer, Seen
  <2>2. ASSUME NEW s \in Requests PROVE Honest(req[s])'
    <3>1. PICK p \in Transactions : p = req'[s] /\ Honest(p)
      BY <1>1, <2>1, IdleHonest, IdleTyped DEF CacheInv, TypeOK
    <3>2. now <= now' /\ \A f \in Filings : filed'[f] # filed[f] => filed'[f] = now
      BY <1>1, <2>1 DEF TypeOK
    <3>3. Honest(p)'
      BY <1>1, <2>1, <3>1, <3>2, HonestStays
    <3> QED
      BY <3>1, <3>3 DEF Honest, Fetched, Read, Cached, Fresh, Before
  <2>3. StampsHonest' /\ (row.insider <= now)'
    BY <1>3, <2>1, CommitHonest
  <2> QED
    BY <1>1, <2>2, <2>3 DEF CacheInv
<1>4. ASSUME NEW r \in Requests, RolledBack(r) PROVE CacheInv'
  <2>1. /\ UNCHANGED <<now, filed, row, txns>>
        /\ req'[r] = Idle /\ \A s \in Requests \ {r} : req'[s] = req[s]
    BY <1>1, <1>4, EndsStep DEF RolledBack
  <2>2. \A s \in Requests : Honest(req'[s])
    BY <1>1, <2>1, IdleHonest DEF CacheInv
  <2>3. \A s \in Requests : Honest(req[s])'
    BY <2>1, <2>2 DEF Honest, Fetched, Read, Cached, Fresh, Before
  <2>4. StampsHonest' /\ (row.insider <= now)'
    BY <2>1 DEF CacheInv, StampsHonest
  <2> QED
    BY <1>1, <2>3, <2>4 DEF CacheInv
<1>5. ASSUME File \/ Tick PROVE CacheInv'
  <2>1. /\ UNCHANGED <<row, txns, req>> /\ now <= now'
        /\ \A f \in Filings : filed'[f] # filed[f] => filed'[f] = now
    BY <1>1, <1>5 DEF File, Tick, TypeOK
  <2>2. ASSUME NEW s \in Requests PROVE Honest(req[s])'
    <3>1. req[s] \in Transactions /\ Honest(req[s])
      BY <1>1 DEF CacheInv, TypeOK
    <3>2. Honest(req[s])'
      BY <1>1, <2>1, <3>1, HonestStays DEF Honest, Fetched, Read, Cached, Fresh, Before
    <3> QED
      BY <3>2
  <2>3. row.insider \in Nat /\ now \in Nat /\ now' \in Nat
        /\ \A f \in Filings : filed[f] \in Nat /\ filed'[f] \in Nat
    BY <1>1 DEF TypeOK, Rows
  <2>4. StampsHonest' /\ (row.insider <= now)'
    BY <2>1, <2>3 DEF CacheInv, StampsHonest
  <2> QED
    BY <1>1, <2>2, <2>4 DEF CacheInv
<1>6. CASE UNCHANGED vars
  BY <1>6 DEF vars, CacheInv, TypeOK, StampsHonest, Honest, Fetched, Read, Cached, Fresh, Before
<1> QED
  BY <1>2, <1>3, <1>4, <1>5, <1>6, NextSteps

LEMMA CacheAlways == Spec => []CacheInv
BY CacheInit, CacheStep, PTL DEF Spec

(* The stamps of the cache never claim more than was read, whichever of    *)
(* several requests commits last (enrichment.py: FetchedAt and             *)
(* InsiderFetchedAt are now(), the beginning of the transaction).          *)
THEOREM StampsHonestAlways == Spec => []StampsHonest
<1>1. CacheInv => StampsHonest
  BY DEF CacheInv
<1> QED
  BY <1>1, CacheAlways, PTL

(* An answer is at most CACHE_TTL old unless one of its calls failed       *)
(* (enrichment.py: get_or_fetch_enrichment).                               *)
THEOREM AnswersFreshAlways == Spec => []AnswersFresh
<1>1. ASSUME CacheInv PROVE AnswersFresh
  <2> SUFFICES ASSUME NEW r \in Requests, req[r].at = "answer", ~req[r].missed
               PROVE  /\ req[r].short + TTL >= req[r].start
                      /\ \A f \in Filings :
                           filed[f] # None /\ filed[f] + TTL < req[r].start => f \in Seen(r)
    BY DEF AnswersFresh
  <2> DEFINE q == req[r]
  <2>1. TypeOK /\ q \in Transactions /\ Honest(q)
    BY <1>1 DEF CacheInv, TypeOK
  <2>2. /\ TTL \in Nat /\ q.start \in Nat /\ q.seen \in Nat
        /\ \A f \in Filings : filed[f] \in Nat
    BY <2>1, Numbers
  <2>3. q.short + TTL >= q.start /\ (q.stamps \/ q.seen + TTL >= q.start)
    BY <2>1 DEF Honest, Fresh
  <2>4. \A f \in Filings : filed[f] # None /\ filed[f] + TTL < q.start =>
           Before(f, q.start) /\ (q.stamps \/ Before(f, q.seen))
    BY <2>2, <2>3 DEF Before
  <2>5. \A f \in Filings : filed[f] # None /\ filed[f] + TTL < q.start => f \in txns \cup q.got
    BY <2>1, <2>4 DEF Honest, Read, Cached
  <2> QED
    BY <2>3, <2>5 DEF Seen
<1> QED
  BY <1>1, CacheAlways, PTL

------------------------------------------------------------------------------
(* The score the cached figures, among others, are for.                    *)

(* What the score is computed from has its types.                          *)
StockOK == stock \in Stocks

------------------------------------------------------------------------------
(* Points, in units of 1/600: no fewer than none, no more than n.          *)
Between(x, n) == x \in Int /\ 0 <= x /\ x <= n

LEMMA RampBounds ==
  ASSUME NEW full \in Nat, NEW x \in Int, NEW band \in Nat \ {0}
  PROVE  Between(Ramp(full, x, band), full * Pt)
  <1> DEFINE q == (full * Pt * (band + x)) \div (2 * band)
             most == full * Pt
  <1>1. most \in Nat
    BY DEF Pt
  <1>2. q \in Int
    <2>1. full * Pt * (band + x) \in Int /\ 2 * band \in Nat \ {0}
      BY <1>1
    <2> QED
      BY <2>1
  <1>3. Ramp(full, x, band) = Clamp(q, 0, most)
    BY Zenon DEF Ramp
  <1> HIDE DEF q, most
  <1>4. Between(Clamp(q, 0, most), most)
    BY <1>1, <1>2 DEF Clamp, Between
  <1>5. Between(Ramp(full, x, band), most)
    BY <1>3, <1>4, Zenon
  <1> QED
    BY <1>5 DEF most

LEMMA SmallRamps ==
  ASSUME NEW x \in Int, NEW band \in Nat \ {0}
  PROVE  Between(Ramp(5, x, band), 3000) /\ Between(Ramp(4, x, band), 2400)
  <1>1. 5 \in Nat /\ 4 \in Nat
    OBVIOUS
  <1>2. Between(Ramp(5, x, band), 5 * Pt)
    BY <1>1, RampBounds, Zenon
  <1>3. Between(Ramp(4, x, band), 4 * Pt)
    BY <1>1, RampBounds, Zenon
  <1>4. 5 * Pt = 3000 /\ 4 * Pt = 2400
    BY DEF Pt
  <1> QED
    BY <1>2, <1>3, <1>4

(* A component of the trend lies between no and full points; without data  *)
(* it is half of them.                                                     *)
LEMMA VersusBounds ==
  ASSUME NEW full \in {10, 15}, NEW a \in Maybe(Nat), NEW b \in Maybe(Nat),
         NEW percent \in Nat \ {0}, NEW n, n = full * 600, NEW half, half = full * 300
  PROVE  /\ Between(Versus(full, a, b, percent), n)
         /\ ~Known(a) \/ ~Known(b) => Versus(full, a, b, percent) = half
  <1>1. (full * Pt) \div 2 = half /\ Between(half, n)
    BY DEF Pt, Between
  <1>2. ASSUME Known(a), Known(b), b > 0 PROVE Between(Versus(full, a, b, percent), n)
    <2>1. a \in Nat /\ b \in Nat \ {0}
      BY <1>2 DEF Known, Maybe
    <2>2. 100 * (a - b) \in Int /\ percent * b \in Nat \ {0} /\ full \in Nat
      BY <2>1
    <2>3. Between(Ramp(full, 100 * (a - b), percent * b), full * Pt)
      BY <2>2, RampBounds, Zenon
    <2>4. full * Pt = n
      BY DEF Pt
    <2>5. Versus(full, a, b, percent) = Ramp(full, 100 * (a - b), percent * b)
      BY <1>2, <2>1 DEF Versus
    <2> QED
      BY <2>3, <2>4, <2>5, Zenon
  <1>3. ASSUME ~Known(a) \/ ~Known(b) PROVE Versus(full, a, b, percent) = half
    BY <1>1, <1>3 DEF Versus
  <1>4. ASSUME Known(b), ~(b > 0) PROVE Versus(full, a, b, percent) = half
    <2>1. b <= 0
      BY <1>4 DEF Known, Maybe
    <2> QED
      BY <1>1, <2>1 DEF Versus
  <1> QED
    BY <1>1, <1>2, <1>3, <1>4

LEMMA TrendItem ==
  ASSUME NEW a \in Maybe(Nat), NEW b \in Maybe(Nat), NEW percent \in Nat \ {0}
  PROVE  /\ Between(Versus(10, a, b, percent), 6000)
         /\ Between(Versus(15, a, b, percent), 9000)
         /\ ~Known(a) \/ ~Known(b) => /\ Versus(10, a, b, percent) = 3000
                                      /\ Versus(15, a, b, percent) = 4500
  <1>1. /\ Between(Versus(10, a, b, percent), 6000)
        /\ ~Known(a) \/ ~Known(b) => Versus(10, a, b, percent) = 3000
    BY VersusBounds
  <1>2. /\ Between(Versus(15, a, b, percent), 9000)
        /\ ~Known(a) \/ ~Known(b) => Versus(15, a, b, percent) = 4500
    BY VersusBounds
  <1> QED
    BY <1>1, <1>2

------------------------------------------------------------------------------
(* RSI_POINT_NODES as a list of its segments.                              *)
Segment(n) ==
  /\ n \in 1..12
  /\ n = 1 => Nodes[n] = <<0, 6>> /\ Nodes[n + 1] = <<20, 8>>
  /\ n = 2 => Nodes[n] = <<20, 8>> /\ Nodes[n + 1] = <<30, 10>>
  /\ n = 3 => Nodes[n] = <<30, 10>> /\ Nodes[n + 1] = <<40, 10>>
  /\ n = 4 => Nodes[n] = <<40, 10>> /\ Nodes[n + 1] = <<45, 12>>
  /\ n = 5 => Nodes[n] = <<45, 12>> /\ Nodes[n + 1] = <<50, 15>>
  /\ n = 6 => Nodes[n] = <<50, 15>> /\ Nodes[n + 1] = <<55, 24>>
  /\ n = 7 => Nodes[n] = <<55, 24>> /\ Nodes[n + 1] = <<58, 30>>
  /\ n = 8 => Nodes[n] = <<58, 30>> /\ Nodes[n + 1] = <<65, 30>>
  /\ n = 9 => Nodes[n] = <<65, 30>> /\ Nodes[n + 1] = <<70, 20>>
  /\ n = 10 => Nodes[n] = <<70, 20>> /\ Nodes[n + 1] = <<75, 8>>
  /\ n = 11 => Nodes[n] = <<75, 8>> /\ Nodes[n + 1] = <<80, 2>>
  /\ n = 12 => Nodes[n] = <<80, 2>> /\ Nodes[n + 1] = <<100, 0>>

LEMMA Segments == Len(Nodes) = 13 /\ \A n \in 1..12 : Segment(n)
  BY DEF Nodes, Segment

(* Every RSI has points; the healthy regime has them all, and an           *)
(* overbought one less than 20.                                            *)
LEMMA RSIPointsBounds ==
  ASSUME NEW rsi \in 0..100
  PROVE  /\ Between(RSIPoints(rsi), 18000)
         /\ rsi > 70 => RSIPoints(rsi) < 12000
         /\ rsi = 65 => RSIPoints(rsi) = 18000
  <1> DEFINE Holds(n) == Nodes[n][1] <= rsi /\ rsi <= Nodes[n + 1][1]
             i == CHOOSE n \in 1..12 : Holds(n)
             On(x, y) == x[2] * Pt + (Pt * (y[2] - x[2]) * (rsi - x[1])) \div (y[1] - x[1])
             Good(p) == /\ Between(p, 18000)
                        /\ rsi > 70 => p < 12000
                        /\ rsi = 65 => p = 18000
  <1>1. \E n \in 1..12 : Holds(n)
    BY Segments DEF Segment
  <1>2. i \in 1..12 /\ Holds(i)
    BY <1>1
  <1>3. RSIPoints(rsi) = On(Nodes[i], Nodes[i + 1])
    BY Segments DEF RSIPoints
  <1>4. Segment(i)
    BY <1>2, Segments
  <1> HIDE DEF i
  <1>5. Good(On(Nodes[i], Nodes[i + 1]))
    <2>1. CASE i = 1
      <3>1. Nodes[i] = <<0, 6>> /\ Nodes[i + 1] = <<20, 8>> /\ 0 <= rsi /\ rsi <= 20
        BY <1>2, <1>4, <2>1 DEF Segment
      <3>2. Good(6 * Pt + (Pt * (8 - 6) * (rsi - 0)) \div (20 - 0))
        BY <3>1 DEF Pt, Between
      <3> QED
        BY <3>1, <3>2
    <2>2. CASE i = 2
      <3>1. Nodes[i] = <<20, 8>> /\ Nodes[i + 1] = <<30, 10>> /\ 20 <= rsi /\ rsi <= 30
        BY <1>2, <1>4, <2>2 DEF Segment
      <3>2. Good(8 * Pt + (Pt * (10 - 8) * (rsi - 20)) \div (30 - 20))
        BY <3>1 DEF Pt, Between
      <3> QED
        BY <3>1, <3>2
    <2>3. CASE i = 3
      <3>1. Nodes[i] = <<30, 10>> /\ Nodes[i + 1] = <<40, 10>> /\ 30 <= rsi /\ rsi <= 40
        BY <1>2, <1>4, <2>3 DEF Segment
      <3>2. Good(10 * Pt + (Pt * (10 - 10) * (rsi - 30)) \div (40 - 30))
        BY <3>1 DEF Pt, Between
      <3> QED
        BY <3>1, <3>2
    <2>4. CASE i = 4
      <3>1. Nodes[i] = <<40, 10>> /\ Nodes[i + 1] = <<45, 12>> /\ 40 <= rsi /\ rsi <= 45
        BY <1>2, <1>4, <2>4 DEF Segment
      <3>2. Good(10 * Pt + (Pt * (12 - 10) * (rsi - 40)) \div (45 - 40))
        BY <3>1 DEF Pt, Between
      <3> QED
        BY <3>1, <3>2
    <2>5. CASE i = 5
      <3>1. Nodes[i] = <<45, 12>> /\ Nodes[i + 1] = <<50, 15>> /\ 45 <= rsi /\ rsi <= 50
        BY <1>2, <1>4, <2>5 DEF Segment
      <3>2. Good(12 * Pt + (Pt * (15 - 12) * (rsi - 45)) \div (50 - 45))
        BY <3>1 DEF Pt, Between
      <3> QED
        BY <3>1, <3>2
    <2>6. CASE i = 6
      <3>1. Nodes[i] = <<50, 15>> /\ Nodes[i + 1] = <<55, 24>> /\ 50 <= rsi /\ rsi <= 55
        BY <1>2, <1>4, <2>6 DEF Segment
      <3>2. Good(15 * Pt + (Pt * (24 - 15) * (rsi - 50)) \div (55 - 50))
        BY <3>1 DEF Pt, Between
      <3> QED
        BY <3>1, <3>2
    <2>7. CASE i = 7
      <3>1. Nodes[i] = <<55, 24>> /\ Nodes[i + 1] = <<58, 30>> /\ 55 <= rsi /\ rsi <= 58
        BY <1>2, <1>4, <2>7 DEF Segment
      <3>2. Good(24 * Pt + (Pt * (30 - 24) * (rsi - 55)) \div (58 - 55))
        BY <3>1 DEF Pt, Between
      <3> QED
        BY <3>1, <3>2
    <2>8. CASE i = 8
      <3>1. Nodes[i] = <<58, 30>> /\ Nodes[i + 1] = <<65, 30>> /\ 58 <= rsi /\ rsi <= 65
        BY <1>2, <1>4, <2>8 DEF Segment
      <3>2. Good(30 * Pt + (Pt * (30 - 30) * (rsi - 58)) \div (65 - 58))
        BY <3>1 DEF Pt, Between
      <3> QED
        BY <3>1, <3>2
    <2>9. CASE i = 9
      <3>1. Nodes[i] = <<65, 30>> /\ Nodes[i + 1] = <<70, 20>> /\ 65 <= rsi /\ rsi <= 70
        BY <1>2, <1>4, <2>9 DEF Segment
      <3>2. Good(30 * Pt + (Pt * (20 - 30) * (rsi - 65)) \div (70 - 65))
        BY <3>1 DEF Pt, Between
      <3> QED
        BY <3>1, <3>2
    <2>10. CASE i = 10
      <3>1. Nodes[i] = <<70, 20>> /\ Nodes[i + 1] = <<75, 8>> /\ 70 <= rsi /\ rsi <= 75
        BY <1>2, <1>4, <2>10 DEF Segment
      <3>2. Good(20 * Pt + (Pt * (8 - 20) * (rsi - 70)) \div (75 - 70))
        BY <3>1 DEF Pt, Between
      <3> QED
        BY <3>1, <3>2
    <2>11. CASE i = 11
      <3>1. Nodes[i] = <<75, 8>> /\ Nodes[i + 1] = <<80, 2>> /\ 75 <= rsi /\ rsi <= 80
        BY <1>2, <1>4, <2>11 DEF Segment
      <3>2. Good(8 * Pt + (Pt * (2 - 8) * (rsi - 75)) \div (80 - 75))
        BY <3>1 DEF Pt, Between
      <3> QED
        BY <3>1, <3>2
    <2>12. CASE i = 12
      <3>1. Nodes[i] = <<80, 2>> /\ Nodes[i + 1] = <<100, 0>> /\ 80 <= rsi /\ rsi <= 100
        BY <1>2, <1>4, <2>12 DEF Segment
      <3>2. Good(2 * Pt + (Pt * (0 - 2) * (rsi - 80)) \div (100 - 80))
        BY <3>1 DEF Pt, Between
      <3> QED
        BY <3>1, <3>2
    <2> QED
      BY <1>2, <2>1, <2>2, <2>3, <2>4, <2>5, <2>6, <2>7, <2>8, <2>9, <2>10, <2>11, <2>12
  <1> QED
    BY <1>3, <1>5

------------------------------------------------------------------------------
(* The components the pillars add up.                                      *)
Against20(d) == Versus(10, d.price, d.sma20, 3)
Against50(d) == Versus(10, d.price, d.sma50, 5)
Against200(d) == Versus(10, d.price, d.sma200, 10)
Alignment(d) == Versus(15, d.sma50, d.sma200, 5)

FlowPoints(d) ==
  CASE Flow(d.etf) = "Accumulation" -> 10 * Pt
    [] Flow(d.etf) = "Distribution" -> 0
    [] OTHER -> 5 * Pt

RelativePoints(d) ==
  IF Known(Relative(d.etf, d.index))
  THEN Ramp(5, 100 * Relative(d.etf, d.index)[1], 3 * Relative(d.etf, d.index)[2])
  ELSE (5 * Pt) \div 2

ShortPoints(d) ==
  CASE ~Known(d.short) -> 3 * Pt
    [] Squeeze(d) -> (48 * Pt) \div 10
    [] HighShort(d) /\ ~Squeeze(d) -> 0
    [] OTHER -> (6 * Pt * (100 - d.short)) \div 100

CalmPoints(d) == IF Known(d.z) THEN Ramp(4, -d.z, 15) ELSE 2 * Pt

LEMMA Components ==
  ASSUME NEW d \in Stocks
  PROVE  /\ Trend(d) = Against20(d) + Against50(d) + Against200(d) + Alignment(d)
         /\ Sector(d) = FlowPoints(d) + RelativePoints(d)
         /\ Risk(d) = ShortPoints(d) + CalmPoints(d)
  <1>1. Trend(d) = Against20(d) + Against50(d) + Against200(d) + Alignment(d)
    BY Zenon DEF Trend, Against20, Against50, Against200, Alignment
  <1>2. Sector(d) = FlowPoints(d) + RelativePoints(d)
    BY Zenon DEF Sector, FlowPoints, RelativePoints
  <1>3. Risk(d) = ShortPoints(d) + CalmPoints(d)
    BY Zenon DEF Risk, ShortPoints, CalmPoints
  <1> QED
    BY <1>1, <1>2, <1>3

LEMMA StockFields ==
  ASSUME NEW d \in Stocks
  PROVE  /\ d.long \in BOOLEAN /\ d.price \in Nat /\ d.price \in Maybe(Nat)
         /\ d.sma20 \in Maybe(Nat) /\ d.sma50 \in Maybe(Nat) /\ d.sma200 \in Maybe(Nat)
         /\ d.rsi \in Maybe(0..100) /\ d.rsiPrev \in Maybe(0..100)
         /\ d.short \in Maybe(Nat) /\ d.z \in Maybe(Int)
         /\ d.etf \in Seq(Bars) /\ d.index \in Seq(Nat \ {0})
         /\ d.trades \subseteq Trades /\ IsFiniteSet(d.trades)
  BY DEF Stocks, Maybe

(* What each component is worth, with and without data.                    *)
LEMMA TrendBounds ==
  ASSUME NEW d \in Stocks
  PROVE  /\ Between(Against20(d), 6000) /\ Between(Against50(d), 6000)
         /\ Between(Against200(d), 6000) /\ Between(Alignment(d), 9000)
         /\ ~Known(d.sma20) => Against20(d) = 3000
         /\ ~Known(d.sma50) => Against50(d) = 3000 /\ Alignment(d) = 4500
         /\ ~Known(d.sma200) => Against200(d) = 3000 /\ Alignment(d) = 4500
  <1>1. /\ d.price \in Maybe(Nat) /\ d.sma20 \in Maybe(Nat)
        /\ d.sma50 \in Maybe(Nat) /\ d.sma200 \in Maybe(Nat)
    BY StockFields
  <1>2. Between(Against20(d), 6000) /\ (~Known(d.sma20) => Against20(d) = 3000)
    BY <1>1, TrendItem DEF Against20
  <1>3. Between(Against50(d), 6000) /\ (~Known(d.sma50) => Against50(d) = 3000)
    BY <1>1, TrendItem DEF Against50
  <1>4. Between(Against200(d), 6000) /\ (~Known(d.sma200) => Against200(d) = 3000)
    BY <1>1, TrendItem DEF Against200
  <1>5. /\ Between(Alignment(d), 9000)
        /\ ~Known(d.sma50) \/ ~Known(d.sma200) => Alignment(d) = 4500
    BY <1>1, TrendItem DEF Alignment
  <1> QED
    BY <1>2, <1>3, <1>4, <1>5

(* Momentum without an RSI is half of its points.                          *)
LEMMA MomentumUnknown ==
  ASSUME NEW d \in Stocks, ~Known(d.rsi)
  PROVE  Momentum(d) = 9000
  BY DEF Momentum, Pt

(* With a known RSI it is the points of the RSI and at most 8 more ...     *)
LEMMA MomentumKnown ==
  ASSUME NEW d \in Stocks, Known(d.rsi)
  PROVE  /\ Between(RSIPoints(d.rsi), 18000) /\ Between(Momentum(d), 18000)
         /\ RSIPoints(d.rsi) <= Momentum(d)
         /\ Momentum(d) <= RSIPoints(d.rsi) + 4800
  <1> DEFINE p == RSIPoints(d.rsi)
  <1>1. Between(p, 18000)
    <2>1. d.rsi \in 0..100
      BY StockFields DEF Known, Maybe
    <2> QED
      BY <2>1, RSIPointsBounds
  <1>2. CASE Recovering(d) /\ p < 22 * Pt
    <2>1. Momentum(d) = Clamp(p + 8 * Pt, 0, 22 * Pt)
      BY <1>2, Zenon DEF Momentum
    <2> HIDE DEF p
    <2>2. /\ Between(p, 18000) /\ Between(Momentum(d), 18000)
          /\ p <= Momentum(d) /\ Momentum(d) <= p + 4800
      BY <1>1, <1>2, <2>1 DEF Clamp, Pt, Between
    <2> QED
      BY <2>2 DEF p
  <1>3. CASE ~(Recovering(d) /\ p < 22 * Pt)
    <2>1. Momentum(d) = p
      BY <1>3, Zenon DEF Momentum
    <2> HIDE DEF p
    <2>2. /\ Between(p, 18000) /\ Between(Momentum(d), 18000)
          /\ p <= Momentum(d) /\ Momentum(d) <= p + 4800
      BY <1>1, <2>1 DEF Between
    <2> QED
      BY <2>2 DEF p
  <1> QED
    BY <1>2, <1>3

(* ... and exactly those points where the RSI has not recovered.           *)
LEMMA MomentumSteady ==
  ASSUME NEW d \in Stocks, Known(d.rsi), ~Recovering(d)
  PROVE  Momentum(d) = RSIPoints(d.rsi)
  BY Zenon DEF Momentum

(* In every case it lies between no and 30 points.                         *)
LEMMA MomentumBounds ==
  ASSUME NEW d \in Stocks
  PROVE  Between(Momentum(d), 18000)
  <1>1. CASE Known(d.rsi)
    BY <1>1, MomentumKnown
  <1>2. CASE ~Known(d.rsi)
    <2>1. Momentum(d) = 9000
      BY <1>2, MomentumUnknown
    <2> QED
      BY <2>1 DEF Between
  <1> QED
    BY <1>1, <1>2

LEMMA SectorBounds ==
  ASSUME ScoreAssumption, NEW d \in Stocks
  PROVE  /\ Between(FlowPoints(d), 6000) /\ Between(RelativePoints(d), 3000)
         /\ d.etf = <<>> => FlowPoints(d) = 3000 /\ RelativePoints(d) = 1500
         /\ d.index = <<>> => RelativePoints(d) = 1500
  <1>1. Between(FlowPoints(d), 6000)
    BY DEF FlowPoints, Pt, Between
  <1>2. ~Known(Relative(d.etf, d.index)) => RelativePoints(d) = 1500
    BY DEF RelativePoints, Pt
  <1>3. Between(RelativePoints(d), 3000)
    <2>1. CASE ~Known(Relative(d.etf, d.index))
      BY <1>2, <2>1 DEF Between
    <2>2. CASE Known(Relative(d.etf, d.index))
      <3> DEFINE c0 == d.etf[Len(d.etf) - RelativeBars].close
                 c1 == Last(d.etf).close
                 s0 == d.index[Len(d.index) - RelativeBars]
                 s1 == Last(d.index)
      <3>1. /\ RelativeBars \in Nat \ {0} /\ d.etf \in Seq(Bars) /\ d.index \in Seq(Nat \ {0})
            /\ Len(d.etf) \in Nat /\ Len(d.index) \in Nat
        BY StockFields DEF ScoreAssumption
      <3>2. /\ Len(d.etf) > RelativeBars /\ Len(d.index) > RelativeBars
            /\ Relative(d.etf, d.index) = <<c1 * s0 - s1 * c0, c0 * s0>>
        BY <2>2, <3>1 DEF Relative, Known
      <3>3. d.etf[Len(d.etf) - RelativeBars] \in Bars /\ d.etf[Len(d.etf)] \in Bars
        BY <3>1, <3>2
      <3>4. s0 \in Nat \ {0} /\ d.index[Len(d.index)] \in Nat \ {0}
        BY <3>1, <3>2
      <3>5. c0 \in Nat \ {0} /\ c1 \in Nat \ {0} /\ s1 \in Nat \ {0}
        BY <3>3, <3>4 DEF Bars, Last
      <3> HIDE DEF c0, c1, s0, s1
      <3>6. 100 * (c1 * s0 - s1 * c0) \in Int /\ c0 * s0 \in Nat \ {0}
        BY <3>4, <3>5
      <3>7. 3 * (c0 * s0) \in Nat \ {0}
        BY <3>6
      <3>8. Between(Ramp(5, 100 * (c1 * s0 - s1 * c0), 3 * (c0 * s0)), 3000)
        BY <3>6, <3>7, SmallRamps
      <3>9. RelativePoints(d) = Ramp(5, 100 * (c1 * s0 - s1 * c0), 3 * (c0 * s0))
        BY <2>2, <3>2 DEF RelativePoints
      <3> QED
        BY <3>8, <3>9
    <2> QED
      BY <2>1, <2>2
  <1>4. ASSUME d.etf = <<>> PROVE Flow(d.etf) = NoData /\ Relative(d.etf, d.index) = NoData
    BY <1>4 DEF Flow, Relative, ScoreAssumption
  <1>5. ASSUME d.index = <<>> PROVE Relative(d.etf, d.index) = NoData
    BY <1>5 DEF Relative, ScoreAssumption
  <1>6. Flow(d.etf) = NoData => FlowPoints(d) = 3000
    BY DEF FlowPoints, ScoreAssumption, Flows, Pt
  <1> QED
    BY <1>1, <1>2, <1>3, <1>4, <1>5, <1>6 DEF Known

LEMMA LowShort ==
  ASSUME NEW d, Known(d.short), ~HighShort(d)
  PROVE  ShortPoints(d) = (6 * Pt * (100 - d.short)) \div 100
  BY Zenon DEF ShortPoints, Squeeze

LEMMA RiskBounds ==
  ASSUME NEW d \in Stocks
  PROVE  /\ Between(ShortPoints(d), 3600) /\ Between(CalmPoints(d), 2400)
         /\ HighShort(d) => Between(ShortPoints(d), 2880)
         /\ ~Known(d.short) => ShortPoints(d) = 1800
         /\ ~Known(d.z) => CalmPoints(d) = 1200
  <1>1. d.short \in Maybe(Nat) /\ d.z \in Maybe(Int)
    BY StockFields
  <1>2. ASSUME HighShort(d) PROVE Between(ShortPoints(d), 2880)
    BY <1>2 DEF ShortPoints, HighShort, Pt, Between
  <1>3. ASSUME Known(d.short), ~HighShort(d) PROVE Between(ShortPoints(d), 3600)
    <2>1. d.short \in 0..100
      BY <1>1, <1>3 DEF Maybe, Known, HighShort
    <2>2. ShortPoints(d) = (6 * Pt * (100 - d.short)) \div 100
      BY <1>3, LowShort
    <2> QED
      BY <2>1, <2>2 DEF Pt, Between
  <1>4. ~Known(d.short) => ShortPoints(d) = 1800
    BY DEF ShortPoints, Squeeze, HighShort, Pt
  <1>5. Between(ShortPoints(d), 3600)
    BY <1>2, <1>3, <1>4 DEF Between
  <1>6. ASSUME Known(d.z) PROVE Between(CalmPoints(d), 2400)
    <2>1. -d.z \in Int
      BY <1>1, <1>6 DEF Maybe, Known
    <2>2. Between(Ramp(4, -d.z, 15), 2400)
      BY <2>1, SmallRamps
    <2> QED
      BY <1>6, <2>2 DEF CalmPoints
  <1>7. ~Known(d.z) => CalmPoints(d) = 1200
    BY DEF CalmPoints, Pt
  <1> QED
    BY <1>2, <1>4, <1>5, <1>6, <1>7 DEF Between

LEMMA InsiderBounds == \A d : Insider(d) \in Int /\ -3000 <= Insider(d) /\ Insider(d) <= 3000
  BY DEF Insider, Pt

(* What each pillar is worth.                                              *)
LEMMA PillarBounds ==
  ASSUME ScoreAssumption, NEW d \in Stocks
  PROVE  /\ Between(Trend(d), 27000) /\ Between(Momentum(d), 18000)
         /\ Between(Sector(d), 9000) /\ Between(Risk(d), 6000)
  <1>1. Between(Trend(d), 27000)
    <2>1. /\ Between(Against20(d), 6000) /\ Between(Against50(d), 6000)
          /\ Between(Against200(d), 6000) /\ Between(Alignment(d), 9000)
          /\ Trend(d) = Against20(d) + Against50(d) + Against200(d) + Alignment(d)
      BY Components, TrendBounds
    <2> QED
      BY <2>1 DEF Between
  <1>2. Between(Sector(d), 9000)
    <2>1. /\ Between(FlowPoints(d), 6000) /\ Between(RelativePoints(d), 3000)
          /\ Sector(d) = FlowPoints(d) + RelativePoints(d)
      BY Components, SectorBounds
    <2> QED
      BY <2>1 DEF Between
  <1>3. Between(Risk(d), 6000)
    <2>1. /\ Between(ShortPoints(d), 3600) /\ Between(CalmPoints(d), 2400)
          /\ Risk(d) = ShortPoints(d) + CalmPoints(d)
      BY Components, RiskBounds
    <2> QED
      BY <2>1 DEF Between
  <1> QED
    BY <1>1, <1>2, <1>3, MomentumBounds

------------------------------------------------------------------------------
LEMMA Overbuying ==
  ASSUME ScoreAssumption, NEW d \in Stocks, d.long, Overbought(d)
  PROVE  /\ Raw(d) + 10 * Pt < Raw([d EXCEPT !.rsi = 65])
         /\ Score(d) < 95 * Pt
  <1> DEFINE h == [d EXCEPT !.rsi = 65]
  <1>1. d.rsi \in 71..100 /\ Known(d.rsi)
    <2>1. d.rsi \in Maybe(0..100)
      BY StockFields
    <2> QED
      BY <2>1 DEF Overbought, Known, Maybe
  <1>2. Momentum(d) < 12000
    <2>1. ~Recovering(d)
      BY <1>1 DEF Recovering
    <2>2. RSIPoints(d.rsi) < 12000
      BY <1>1, RSIPointsBounds
    <2>3. Momentum(d) = RSIPoints(d.rsi)
      BY <1>1, <2>1, MomentumSteady
    <2> QED
      BY <2>2, <2>3
  <1>3. h \in Stocks /\ h.rsi = 65
    <2>1. 65 \in Maybe(0..100)
      BY DEF Maybe
    <2> QED
      BY <2>1 DEF Stocks
  <1> HIDE DEF h
  <1>4. Momentum(h) = 18000
    <2>1. ~Recovering(h) /\ Known(h.rsi)
      BY <1>3 DEF Recovering, Known, ScoreAssumption
    <2>2. RSIPoints(h.rsi) = 18000
      BY <1>3, RSIPointsBounds
    <2>3. Momentum(h) = RSIPoints(h.rsi)
      <3>1. h \in Stocks
        BY <1>3
      <3> QED
        BY <2>1, <3>1, MomentumSteady
    <2> QED
      BY <2>2, <2>3
  <1>5. /\ h.price = d.price /\ h.sma20 = d.sma20 /\ h.sma50 = d.sma50 /\ h.sma200 = d.sma200
        /\ h.etf = d.etf /\ h.index = d.index /\ h.short = d.short /\ h.z = d.z
        /\ h.trades = d.trades
    BY DEF h, Stocks
  <1>6. Trend(h) = Trend(d) /\ Sector(h) = Sector(d) /\ Insider(h) = Insider(d)
    BY <1>5 DEF Trend, Sector, Insider
  <1>7. Risk(h) = Risk(d)
    BY <1>5, <1>6, Zenon DEF Risk, HighShort, Squeeze
  <1>8. /\ Between(Trend(d), 27000) /\ Between(Momentum(d), 18000)
        /\ Between(Sector(d), 9000) /\ Between(Risk(d), 6000)
        /\ Insider(d) \in Int /\ Insider(d) <= 3000
    BY PillarBounds, InsiderBounds
  <1>9. /\ Raw(d) = Trend(d) + Momentum(d) + Sector(d) + Risk(d) + Insider(d)
        /\ Raw(h) = Trend(d) + 18000 + Sector(d) + Risk(d) + Insider(d)
    BY <1>4, <1>6, <1>7 DEF Raw
  <1>10. Raw(d) \in Int /\ Raw(h) \in Int /\ Raw(d) < 57000 /\ Raw(d) + 6000 < Raw(h)
    BY <1>2, <1>8, <1>9 DEF Between
  <1>11. Score(d) < 95 * Pt
    BY <1>10 DEF Score, Clamp, Pt
  <1> QED
    BY <1>10, <1>11 DEF h, Pt

------------------------------------------------------------------------------
(* Every change of the data keeps its types.                               *)
LEMMA ListsKept ==
  ASSUME NEW E, NEW s \in Seq(E), NEW x \in E
  PROVE  /\ Append(s, x) \in Seq(E) /\ s # <<>> => Append(Front(s), x) \in Seq(E)
         /\ <<>> \in Seq(E)
  <1>1. s # <<>> => Front(s) \in Seq(E)
    BY DEF Front
  <1> QED
    BY <1>1

LEMMA RecentKept ==
  ASSUME ScoreAssumption, NEW E, NEW s \in Seq(E)
  PROVE  Recent(s) \in Seq(E)
  <1>1. Kept \in Nat \ {0}
    BY DEF Kept, ScoreAssumption
  <1>2. Clamp(Len(s), 0, Kept) \in 0..Len(s)
    BY <1>1 DEF Clamp
  <1> DEFINE from == Len(s) - Clamp(Len(s), 0, Kept) + 1
  <1>3. from \in 1..Len(s) + 1
    BY <1>2
  <1> HIDE DEF from
  <1>4. SubSeq(s, from, Len(s)) \in Seq(E)
    BY <1>3
  <1> QED
    BY <1>4 DEF Recent, from

LEMMA StockNext ==
  ASSUME ScoreAssumption, StockOK, [ScoreNext]_scoreVars
  PROVE  StockOK'
  <1>1. stock \in Stocks
    BY DEF StockOK
  <1>2. \A d : Becomes(d) => stock' = d
    BY DEF Becomes
  <1>3. SUFFICES stock' \in Stocks
    BY DEF StockOK
  <1>4. CASE Figure
    <2>1. ASSUME NEW p \in Prices PROVE [stock EXCEPT !.price = p] \in Stocks
      BY <1>1 DEF Stocks, ScoreAssumption
    <2>2. ASSUME NEW f \in Averaged, NEW a \in Averages \cup {NoData}
          PROVE  [stock EXCEPT ![f] = a] \in Stocks
      <3>1. a \in Maybe(Nat)
        BY DEF Maybe, ScoreAssumption
      <3>2. CASE f = "sma20"
        BY <1>1, <3>1, <3>2 DEF Stocks
      <3>3. CASE f = "sma50"
        BY <1>1, <3>1, <3>3 DEF Stocks
      <3>4. CASE f = "sma200"
        BY <1>1, <3>1, <3>4 DEF Stocks
      <3> QED
        BY <3>2, <3>3, <3>4 DEF Averaged
    <2>3. ASSUME NEW f \in {"rsi", "rsiPrev"}, NEW r \in RSIs \cup {NoData}
          PROVE  [stock EXCEPT ![f] = r] \in Stocks
      <3>1. r \in Maybe(0..100)
        BY DEF Maybe, ScoreAssumption
      <3>2. CASE f = "rsi"
        BY <1>1, <3>1, <3>2 DEF Stocks
      <3>3. CASE f = "rsiPrev"
        BY <1>1, <3>1, <3>3 DEF Stocks
      <3> QED
        BY <3>2, <3>3
    <2>4. ASSUME NEW z \in ZScores \cup {NoData} PROVE [stock EXCEPT !.z = z] \in Stocks
      <3>1. z \in Maybe(Int)
        BY DEF Maybe, ScoreAssumption
      <3> QED
        BY <1>1, <3>1 DEF Stocks
    <2>5. ASSUME NEW s \in Shorts \cup {NoData} PROVE [stock EXCEPT !.short = s] \in Stocks
      <3>1. s \in Maybe(Nat)
        BY DEF Maybe, ScoreAssumption
      <3> QED
        BY <1>1, <3>1 DEF Stocks
    <2>6. ASSUME NEW l \in BOOLEAN PROVE [stock EXCEPT !.long = l] \in Stocks
      BY <1>1 DEF Stocks
    <2> QED
      BY <1>2, <1>4, <2>1, <2>2, <2>3, <2>4, <2>5, <2>6, Zenon DEF Figure
  <1>5. CASE SectorDay
    <2>1. ASSUME NEW etf \in Seq(Bars) PROVE [stock EXCEPT !.etf = etf] \in Stocks
      BY <1>1 DEF Stocks
    <2>2. stock.etf \in Seq(Bars) /\ <<>> \in Seq(Bars)
      BY <1>1, StockFields, ListsKept
    <2>3. ASSUME NEW day \in Days PROVE Recent(Append(stock.etf, day)) \in Seq(Bars)
      <3>1. Append(stock.etf, day) \in Seq(Bars)
        BY <2>2, ListsKept DEF ScoreAssumption
      <3> QED
        BY <3>1, RecentKept
    <2>4. ASSUME NEW day \in Days, stock.etf # <<>>
          PROVE  Append(Front(stock.etf), day) \in Seq(Bars)
      BY <2>2, <2>4, ListsKept DEF ScoreAssumption
    <2>5. \/ \E day \in Days : stock' = [stock EXCEPT !.etf = Recent(Append(@, day))]
          \/ /\ stock.etf # <<>>
             /\ \E day \in Days : stock' = [stock EXCEPT !.etf = Append(Front(@), day)]
          \/ stock' = [stock EXCEPT !.etf = <<>>]
      BY <1>2, <1>5, Zenon DEF SectorDay
    <2> QED
      BY <2>1, <2>2, <2>3, <2>4, <2>5, Zenon
  <1>6. CASE IndexDay
    <2>1. ASSUME NEW index \in Seq(Nat \ {0}) PROVE [stock EXCEPT !.index = index] \in Stocks
      BY <1>1 DEF Stocks
    <2>2. stock.index \in Seq(Nat \ {0}) /\ <<>> \in Seq(Nat \ {0})
      BY <1>1, StockFields, ListsKept
    <2>3. ASSUME NEW level \in Levels PROVE Recent(Append(stock.index, level)) \in Seq(Nat \ {0})
      <3>1. Append(stock.index, level) \in Seq(Nat \ {0})
        BY <2>2, ListsKept DEF ScoreAssumption
      <3> QED
        BY <3>1, RecentKept
    <2>4. \/ \E level \in Levels : stock' = [stock EXCEPT !.index = Recent(Append(@, level))]
          \/ stock' = [stock EXCEPT !.index = <<>>]
      BY <1>2, <1>6, Zenon DEF IndexDay
    <2> QED
      BY <2>1, <2>2, <2>3, <2>4, Zenon
  <1>7. CASE InsiderTrade
    <2>1. ASSUME NEW T \in SUBSET Trades, IsFiniteSet(T)
          PROVE  [stock EXCEPT !.trades = T] \in Stocks
      BY <1>1, <2>1 DEF Stocks
    <2>2. stock.trades \in SUBSET Trades /\ IsFiniteSet(stock.trades)
      BY <1>1, StockFields
    <2>3. \/ \E t \in Trades \ stock.trades : stock' = [stock EXCEPT !.trades = @ \cup {t}]
          \/ \E t \in stock.trades : stock' = [stock EXCEPT !.trades = @ \ {t}]
      BY <1>2, <1>7, Zenon DEF InsiderTrade
    <2>4. ASSUME NEW t \in Trades, stock' = [stock EXCEPT !.trades = @ \cup {t}]
          PROVE  stock' \in Stocks
      <3>1. stock.trades \cup {t} \in SUBSET Trades /\ IsFiniteSet(stock.trades \cup {t})
        BY <2>2, FS_AddElement
      <3> QED
        BY <2>1, <2>4, <3>1, Zenon
    <2>5. ASSUME NEW t, stock' = [stock EXCEPT !.trades = @ \ {t}] PROVE stock' \in Stocks
      <3>1. stock.trades \ {t} \in SUBSET Trades /\ IsFiniteSet(stock.trades \ {t})
        BY <2>2, FS_RemoveElement
      <3> QED
        BY <2>1, <2>5, <3>1, Zenon
    <2> QED
      BY <2>3, <2>4, <2>5
  <1>8. CASE UNCHANGED scoreVars
    BY <1>1, <1>8 DEF scoreVars
  <1> QED
    BY <1>4, <1>5, <1>6, <1>7, <1>8 DEF ScoreNext

LEMMA StockAlwaysOK == ScoreSpec => []StockOK
  <1>1. ScoreInit => StockOK
    BY ScoreAssumption DEF ScoreInit, StockOK, ScoreAssumption
  <1>2. StockOK /\ [ScoreNext]_scoreVars => StockOK'
    BY StockNext, ScoreAssumption
  <1> QED
    BY <1>1, <1>2, PTL DEF ScoreSpec

------------------------------------------------------------------------------
(* Two stocks that differ in one figure, missing in the second.            *)
Apart(x, y, n) == x \in Int /\ y \in Int /\ y <= x + n /\ x <= y + n
Alike(c, d, f) == \A g \in Fields \ {f} : d[g] = c[g]

LEMMA RawApart ==
  ASSUME NEW c \in Stocks, NEW d \in Stocks,
         NEW t \in Nat, NEW m \in Nat, NEW s \in Nat, NEW r \in Nat,
         Apart(Trend(c), Trend(d), t), Apart(Momentum(c), Momentum(d), m),
         Apart(Sector(c), Sector(d), s), Apart(Risk(c), Risk(d), r),
         Insider(d) = Insider(c)
  PROVE  Apart(Raw(c), Raw(d), t + m + s + r)
  <1>1. Insider(c) \in Int
    BY InsiderBounds
  <1>2. /\ Raw(c) = Trend(c) + Momentum(c) + Sector(c) + Risk(c) + Insider(c)
        /\ Raw(d) = Trend(d) + Momentum(d) + Sector(d) + Risk(d) + Insider(c)
    BY DEF Raw
  <1> QED
    BY <1>1, <1>2 DEF Apart

LEMMA ScoreApart ==
  ASSUME NEW c, NEW d, NEW n \in Nat, c.long, d.long, Apart(Raw(c), Raw(d), n)
  PROVE  Apart(Score(c), Score(d), n)
  <1>1. PICK x \in Int, y \in Int : x = Raw(c) /\ y = Raw(d) /\ y <= x + n /\ x <= y + n
    BY DEF Apart
  <1>2. Score(c) = Clamp(x, 0, 60000) /\ Score(d) = Clamp(y, 0, 60000)
    BY <1>1 DEF Score, Pt
  <1>3. Apart(Clamp(x, 0, 60000), Clamp(y, 0, 60000), n)
    BY <1>1 DEF Clamp, Apart
  <1> QED
    BY <1>2, <1>3

(* What does not depend on the figure that is lost.                        *)
LEMMA Untouched ==
  ASSUME NEW c \in Stocks, NEW d \in Stocks, NEW f \in Fields, Alike(c, d, f)
  PROVE  /\ f # "trades" => Insider(d) = Insider(c)
         /\ f \notin {"rsi", "rsiPrev"} => Momentum(d) = Momentum(c)
         /\ f \notin Averaged \cup {"price"} => Trend(d) = Trend(c)
         /\ f \notin {"etf", "index"} => RelativePoints(d) = RelativePoints(c)
         /\ f # "etf" => FlowPoints(d) = FlowPoints(c)
         /\ f # "z" => CalmPoints(d) = CalmPoints(c)
         /\ f \notin {"price", "sma20"} => Against20(d) = Against20(c)
         /\ f \notin {"price", "sma50"} => Against50(d) = Against50(c)
         /\ f \notin {"price", "sma200"} => Against200(d) = Against200(c)
         /\ f \notin {"sma50", "sma200"} => Alignment(d) = Alignment(c)
         /\ f # "short" => d.short = c.short
         /\ f \notin Averaged \cup {"price", "short"} => ShortPoints(d) = ShortPoints(c)
  <1>1. /\ f # "price" => d.price = c.price
        /\ f # "sma20" => d.sma20 = c.sma20
        /\ f # "sma50" => d.sma50 = c.sma50
        /\ f # "sma200" => d.sma200 = c.sma200
        /\ f # "rsi" => d.rsi = c.rsi
        /\ f # "rsiPrev" => d.rsiPrev = c.rsiPrev
        /\ f # "etf" => d.etf = c.etf
        /\ f # "index" => d.index = c.index
        /\ f # "short" => d.short = c.short
        /\ f # "z" => d.z = c.z
        /\ f # "trades" => d.trades = c.trades
    BY DEF Alike, Fields, Averaged
  <1>2. f # "trades" => Insider(d) = Insider(c)
    BY <1>1 DEF Insider
  <1>3. f \notin {"rsi", "rsiPrev"} => Momentum(d) = Momentum(c)
    BY <1>1, Zenon DEF Momentum, Recovering
  <1>4. /\ f \notin {"price", "sma20"} => Against20(d) = Against20(c)
        /\ f \notin {"price", "sma50"} => Against50(d) = Against50(c)
        /\ f \notin {"price", "sma200"} => Against200(d) = Against200(c)
        /\ f \notin {"sma50", "sma200"} => Alignment(d) = Alignment(c)
    BY <1>1 DEF Against20, Against50, Against200, Alignment
  <1>5. f \notin Averaged \cup {"price"} => Trend(d) = Trend(c)
    BY <1>1 DEF Trend, Averaged
  <1>6. /\ f \notin {"etf", "index"} => RelativePoints(d) = RelativePoints(c)
        /\ f # "etf" => FlowPoints(d) = FlowPoints(c)
    BY <1>1 DEF RelativePoints, FlowPoints
  <1>7. f # "z" => CalmPoints(d) = CalmPoints(c)
    BY <1>1 DEF CalmPoints
  <1>8. f \notin Averaged \cup {"price", "short"} => ShortPoints(d) = ShortPoints(c)
    <2>1. ASSUME f \notin Averaged \cup {"price", "short"}
          PROVE  Trend(d) = Trend(c) /\ d.short = c.short
      BY <1>1, <1>5, <2>1
    <2> QED
      BY <2>1, Zenon DEF ShortPoints, Squeeze, HighShort
  <1> QED
    BY <1>1, <1>2, <1>3, <1>4, <1>5, <1>6, <1>7, <1>8

(* What a lost figure costs or brings each pillar.                         *)
LEMMA LostAverage ==
  ASSUME ScoreAssumption, NEW c \in Stocks, NEW d \in Stocks,
         NEW f \in Averaged, ~Known(d[f]), Alike(c, d, f)
  PROVE  /\ Apart(Trend(c), Trend(d), IF f = "sma20" THEN 3000 ELSE 7500)
         /\ Apart(Risk(c), Risk(d), IF HighShort(c) THEN 2880 ELSE 0)
  <1>1. /\ f \in Fields
        /\ f \notin {"rsi", "rsiPrev", "etf", "index", "short", "z", "price", "trades"}
    BY DEF Fields, Averaged
  <1>2. /\ Between(Against20(c), 6000) /\ Between(Against50(c), 6000)
        /\ Between(Against200(c), 6000) /\ Between(Alignment(c), 9000)
        /\ Trend(c) = Against20(c) + Against50(c) + Against200(c) + Alignment(c)
        /\ Trend(d) = Against20(d) + Against50(d) + Against200(d) + Alignment(d)
    BY TrendBounds, Components
  <1>3. ASSUME f = "sma20" PROVE Apart(Trend(c), Trend(d), 3000)
    <2>1. /\ Against20(d) = 3000 /\ Against50(d) = Against50(c)
          /\ Against200(d) = Against200(c) /\ Alignment(d) = Alignment(c)
      BY <1>1, <1>3, Untouched, TrendBounds
    <2> QED
      BY <1>2, <2>1 DEF Apart, Between
  <1>4. ASSUME f = "sma50" PROVE Apart(Trend(c), Trend(d), 7500)
    <2>1. /\ Against20(d) = Against20(c) /\ Against50(d) = 3000
          /\ Against200(d) = Against200(c) /\ Alignment(d) = 4500
      BY <1>1, <1>4, Untouched, TrendBounds
    <2> QED
      BY <1>2, <2>1 DEF Apart, Between
  <1>5. ASSUME f = "sma200" PROVE Apart(Trend(c), Trend(d), 7500)
    <2>1. /\ Against20(d) = Against20(c) /\ Against50(d) = Against50(c)
          /\ Against200(d) = 3000 /\ Alignment(d) = 4500
      BY <1>1, <1>5, Untouched, TrendBounds
    <2> QED
      BY <1>2, <2>1 DEF Apart, Between
  <1>6. /\ Between(ShortPoints(c), 3600) /\ Between(CalmPoints(c), 2400)
        /\ Risk(c) = ShortPoints(c) + CalmPoints(c) /\ Risk(d) = ShortPoints(d) + CalmPoints(c)
        /\ d.short = c.short
    BY <1>1, Untouched, RiskBounds, Components
  <1>7. HighShort(d) <=> HighShort(c)
    BY <1>6 DEF HighShort
  <1>8. ASSUME HighShort(c) PROVE Apart(Risk(c), Risk(d), 2880)
    <2>1. Between(ShortPoints(c), 2880) /\ Between(ShortPoints(d), 2880)
      BY <1>7, <1>8, RiskBounds
    <2> QED
      BY <1>6, <2>1 DEF Apart, Between
  <1>9. ASSUME ~HighShort(c) PROVE Apart(Risk(c), Risk(d), 0)
    <2>1. ShortPoints(d) = ShortPoints(c)
      <3>1. CASE ~Known(c.short)
        BY <1>6, <3>1, RiskBounds
      <3>2. CASE Known(c.short)
        <4>1. ShortPoints(c) = (6 * Pt * (100 - c.short)) \div 100
          BY <1>9, <3>2, LowShort
        <4>2. ShortPoints(d) = (6 * Pt * (100 - d.short)) \div 100
          BY <1>6, <1>7, <1>9, <3>2, LowShort
        <4>3. d.short = c.short
          BY <1>6
        <4> QED
          BY <4>1, <4>2, <4>3, Zenon
      <3> QED
        BY <3>1, <3>2
    <2> QED
      BY <1>6, <2>1 DEF Apart, Between
  <1> QED
    BY <1>3, <1>4, <1>5, <1>8, <1>9 DEF Averaged

LEMMA LostRSI ==
  ASSUME NEW c \in Stocks, NEW d \in Stocks, NEW f \in {"rsi", "rsiPrev"},
         ~Known(d[f]), Alike(c, d, f)
  PROVE  Apart(Momentum(c), Momentum(d), IF f = "rsi" THEN 9000 ELSE 4800)
  <1>1. Between(Momentum(c), 18000) /\ Between(Momentum(d), 18000)
    BY MomentumBounds
  <1>2. ASSUME f = "rsi" PROVE Apart(Momentum(c), Momentum(d), 9000)
    <2>1. Momentum(d) = 9000
      BY <1>2, MomentumUnknown
    <2> QED
      BY <1>1, <2>1 DEF Apart, Between
  <1>3. ASSUME f = "rsiPrev" PROVE Apart(Momentum(c), Momentum(d), 4800)
    <2>1. d.rsi = c.rsi /\ ~Recovering(d)
      BY <1>3 DEF Alike, Fields, Recovering
    <2>2. CASE Known(c.rsi)
      <3>1. Momentum(d) = RSIPoints(c.rsi)
        BY <2>1, <2>2, MomentumSteady
      <3>2. RSIPoints(c.rsi) <= Momentum(c) /\ Momentum(c) <= RSIPoints(c.rsi) + 4800
        BY <2>2, MomentumKnown
      <3> QED
        BY <1>1, <3>1, <3>2 DEF Apart, Between
    <2>3. CASE ~Known(c.rsi)
      <3>1. Momentum(c) = 9000 /\ Momentum(d) = 9000
        BY <2>1, <2>3, MomentumUnknown
      <3> QED
        BY <3>1 DEF Apart
    <2> QED
      BY <2>2, <2>3
  <1> QED
    BY <1>2, <1>3

LEMMA LostBars ==
  ASSUME ScoreAssumption, NEW c \in Stocks, NEW d \in Stocks,
         NEW f \in {"etf", "index"}, d[f] = <<>>, Alike(c, d, f)
  PROVE  Apart(Sector(c), Sector(d), IF f = "etf" THEN 4500 ELSE 1500)
  <1>1. f \in Fields
    BY DEF Fields
  <1>2. /\ Between(FlowPoints(c), 6000) /\ Between(RelativePoints(c), 3000)
        /\ Sector(c) = FlowPoints(c) + RelativePoints(c)
        /\ Sector(d) = FlowPoints(d) + RelativePoints(d)
    BY SectorBounds, Components
  <1>3. ASSUME f = "etf" PROVE Apart(Sector(c), Sector(d), 4500)
    <2>1. FlowPoints(d) = 3000 /\ RelativePoints(d) = 1500
      BY <1>3, SectorBounds
    <2> QED
      BY <1>2, <2>1 DEF Apart, Between
  <1>4. ASSUME f = "index" PROVE Apart(Sector(c), Sector(d), 1500)
    <2>1. FlowPoints(d) = FlowPoints(c) /\ RelativePoints(d) = 1500
      BY <1>1, <1>4, Untouched, SectorBounds
    <2> QED
      BY <1>2, <2>1 DEF Apart, Between
  <1> QED
    BY <1>3, <1>4

LEMMA LostRisk ==
  ASSUME NEW c \in Stocks, NEW d \in Stocks, NEW f \in {"short", "z"},
         ~Known(d[f]), Alike(c, d, f)
  PROVE  Apart(Risk(c), Risk(d), IF f = "short" THEN 1800 ELSE 1200)
  <1>1. f \in Fields /\ f \notin Averaged \cup {"price"}
    BY DEF Fields, Averaged
  <1>2. /\ Between(ShortPoints(c), 3600) /\ Between(CalmPoints(c), 2400)
        /\ Risk(c) = ShortPoints(c) + CalmPoints(c) /\ Risk(d) = ShortPoints(d) + CalmPoints(d)
    BY RiskBounds, Components
  <1>3. ASSUME f = "short" PROVE Apart(Risk(c), Risk(d), 1800)
    <2>1. ShortPoints(d) = 1800 /\ CalmPoints(d) = CalmPoints(c)
      BY <1>1, <1>3, Untouched, RiskBounds
    <2> QED
      BY <1>2, <2>1 DEF Apart, Between
  <1>4. ASSUME f = "z" PROVE Apart(Risk(c), Risk(d), 1200)
    <2>1. ShortPoints(d) = ShortPoints(c) /\ CalmPoints(d) = 1200
      BY <1>1, <1>4, Untouched, RiskBounds
    <2> QED
      BY <1>2, <2>1 DEF Apart, Between
  <1> QED
    BY <1>3, <1>4

(* Losing a figure moves the score by at most what it decides.             *)
Decides(c, f) ==
  CASE f = "sma20" -> 3000 [] f \in {"sma50", "sma200"} -> 7500 [] f = "rsi" -> 9000
    [] f = "rsiPrev" -> 4800 [] f = "etf" -> 4500 [] f = "index" -> 1500
    [] f = "short" -> 1800 [] OTHER -> 1200
Reread(c, f) == IF f \in Averaged /\ HighShort(c) THEN 2880 ELSE 0

LEMMA LostFigure ==
  ASSUME ScoreAssumption, NEW c \in Stocks, NEW d \in Stocks,
         NEW f \in Fields \ {"long", "price", "trades"}, Alike(c, d, f),
         f \in {"etf", "index"} => d[f] = <<>>, f \notin {"etf", "index"} => ~Known(d[f])
  PROVE  Apart(Raw(c), Raw(d), Decides(c, f) + Reread(c, f))
  <1>1. /\ Apart(Trend(c), Trend(c), 0) /\ Apart(Momentum(c), Momentum(c), 0)
        /\ Apart(Sector(c), Sector(c), 0) /\ Apart(Risk(c), Risk(c), 0)
    BY PillarBounds DEF Apart, Between
  <1>2. f \in Fields /\ f \notin {"price", "trades"} /\ Insider(d) = Insider(c)
    BY Untouched
  <1>3. /\ f \notin {"rsi", "rsiPrev"} => Momentum(d) = Momentum(c)
        /\ f \notin Averaged => Trend(d) = Trend(c)
    BY <1>2, Untouched
  <1>4. f \notin {"etf", "index"} => Sector(d) = Sector(c)
    BY <1>2, Untouched, Components
  <1>5. f \notin Averaged \cup {"short", "z"} => Risk(d) = Risk(c)
    BY <1>2, Untouched, Components
  <1>6. CASE f \in Averaged
    <2>1. f \notin {"rsi", "rsiPrev", "etf", "index", "short", "z"}
      BY <1>6 DEF Averaged
    <2>2. PICK t \in Nat, r \in Nat :
            t = Decides(c, f) /\ r = Reread(c, f)
            /\ Apart(Trend(c), Trend(d), t) /\ Apart(Risk(c), Risk(d), r)
      BY <1>6, <2>1, LostAverage DEF Decides, Reread, Averaged
    <2>3. Apart(Raw(c), Raw(d), t + 0 + 0 + r)
      BY <1>1, <1>2, <1>3, <1>4, <2>1, <2>2, RawApart
    <2>4. t + 0 + 0 + r = t + r
      BY <2>2
    <2> QED
      BY <2>2, <2>3, <2>4, Zenon
  <1>7. CASE f \in {"rsi", "rsiPrev"}
    <2>1. f \notin {"etf", "index", "short", "z"} \cup Averaged
      BY <1>7 DEF Averaged
    <2>2. PICK m \in Nat : m = Decides(c, f) /\ Apart(Momentum(c), Momentum(d), m)
      BY <1>7, <2>1, LostRSI DEF Decides
    <2>3. Apart(Raw(c), Raw(d), 0 + m + 0 + 0)
      BY <1>1, <1>2, <1>3, <1>4, <1>5, <2>1, <2>2, RawApart
    <2>4. 0 + m + 0 + 0 = m + 0 /\ Reread(c, f) = 0
      BY <2>1, <2>2 DEF Reread
    <2> QED
      BY <2>2, <2>3, <2>4, Zenon
  <1>8. CASE f \in {"etf", "index"}
    <2>1. f \notin {"rsi", "rsiPrev", "short", "z"} \cup Averaged
      BY <1>8 DEF Averaged
    <2>2. PICK s \in Nat : s = Decides(c, f) /\ Apart(Sector(c), Sector(d), s)
      <3>1. Apart(Sector(c), Sector(d), IF f = "etf" THEN 4500 ELSE 1500)
        BY <1>8, LostBars
      <3>2. Decides(c, f) = IF f = "etf" THEN 4500 ELSE 1500
        BY <1>8, <2>1 DEF Decides, Averaged
      <3> QED
        BY <3>1, <3>2
    <2>3. Apart(Raw(c), Raw(d), 0 + 0 + s + 0)
      BY <1>1, <1>2, <1>3, <1>5, <2>1, <2>2, RawApart
    <2>4. 0 + 0 + s + 0 = s + 0 /\ Reread(c, f) = 0
      BY <2>1, <2>2 DEF Reread
    <2> QED
      BY <2>2, <2>3, <2>4, Zenon
  <1>9. CASE f \in {"short", "z"}
    <2>1. f \notin {"rsi", "rsiPrev", "etf", "index"} \cup Averaged
      BY <1>9 DEF Averaged
    <2>2. PICK r \in Nat : r = Decides(c, f) /\ Apart(Risk(c), Risk(d), r)
      BY <1>9, <2>1, LostRisk DEF Decides
    <2>3. Apart(Raw(c), Raw(d), 0 + 0 + 0 + r)
      BY <1>1, <1>2, <1>3, <1>4, <2>1, <2>2, RawApart
    <2>4. 0 + 0 + 0 + r = r + 0 /\ Reread(c, f) = 0
      BY <2>1, <2>2 DEF Reread
    <2> QED
      BY <2>2, <2>3, <2>4, Zenon
  <1> QED
    BY <1>2, <1>6, <1>7, <1>8, <1>9 DEF Fields

------------------------------------------------------------------------------
(* A stock that is overbought never scores near the top, whatever the data *)
(* are.                                                                    *)
THEOREM OverboughtCorrect == ScoreSpec => []OverboughtPenalised
  <1>1. StockOK => OverboughtPenalised
    BY Overbuying, ScoreAssumption DEF StockOK, OverboughtPenalised
  <1> QED
    BY <1>1, StockAlwaysOK, PTL

LEMMA LosingIsNeutral ==
  ASSUME ScoreAssumption, StockOK, StockOK',
         NEW f \in Fields \ {"long", "price", "trades"}, Lost(f), Scored, Same({f})
  PROVE  LET bound == ((HalfOf(f) + SqueezeTenths(f)) * Pt) \div 10 + 6
         IN  Score(stock') - Score(stock) \in -bound..bound
  <1>1. PICK c \in Stocks, d \in Stocks : c = stock /\ d = stock'
    BY DEF StockOK
  <1>2. /\ Alike(c, d, f) /\ c.long /\ d.long
        /\ f \in {"etf", "index"} => d[f] = <<>>
        /\ f \notin {"etf", "index"} => ~Known(d[f])
    BY <1>1 DEF Alike, Same, Scored, Lost
  <1>3. PICK n \in Nat : n = Decides(c, f) + Reread(c, f)
    BY DEF Decides, Reread
  <1>4. Apart(Score(c), Score(d), n)
    BY <1>2, <1>3, LostFigure, ScoreApart
  <1>5. ((HalfOf(f) + SqueezeTenths(f)) * Pt) \div 10 = n
    <2>1. SqueezeTenths(f) * 60 = Reread(c, f) /\ SqueezeTenths(f) \in {0, 48}
      BY <1>1 DEF SqueezeTenths, Reread
    <2>2. HalfOf(f) * 60 = Decides(c, f) /\ HalfOf(f) \in Nat
      BY DEF HalfOf, Decides, Fields, Averaged
    <2> QED
      BY <1>3, <2>1, <2>2 DEF Pt
  <1>6. Score(d) - Score(c) \in -(n + 6)..(n + 6)
    BY <1>4 DEF Apart
  <1> QED
    BY <1>1, <1>5, <1>6

(* Missing data is neutral, for every stock and every figure that can be   *)
(* missing: the score moves by no more than the figure decides.            *)
THEOREM LostDataCorrect == ScoreSpec => LostDataIsNeutral
  <1>1. StockOK /\ StockOK' =>
          [\A f \in Fields \ {"long", "price", "trades"} :
             Lost(f) /\ Scored /\ Same({f}) =>
               LET bound == ((HalfOf(f) + SqueezeTenths(f)) * Pt) \div 10 + 6 IN
                 Score(stock') - Score(stock) \in -bound..bound]_scoreVars
    BY LosingIsNeutral, ScoreAssumption, Zenon
  <1> QED
    BY <1>1, StockAlwaysOK, PTL DEF LostDataIsNeutral

------------------------------------------------------------------------------
(* The judgements of scoring.py only rise with what is better.              *)
LEMMA DivMono ==
  ASSUME NEW x \in Int, NEW y \in Int, x <= y, NEW n \in Nat \ {0}
  PROVE  x \div n <= y \div n
  OBVIOUS

LEMMA ClampMono ==
  ASSUME NEW x \in Int, NEW y \in Int, x <= y, NEW low \in Int, NEW high \in Int, low <= high
  PROVE  Clamp(x, low, high) <= Clamp(y, low, high)
  BY DEF Clamp

LEMMA RampMono ==
  ASSUME NEW full \in Nat, NEW x \in Int, NEW y \in Int, x <= y, NEW band \in Nat \ {0}
  PROVE  Ramp(full, x, band) <= Ramp(full, y, band)
  <1> DEFINE most == full * Pt
             n == 2 * band
             a == most * (band + x)
             b == most * (band + y)
  <1>1. most \in Nat /\ n \in Nat \ {0}
    BY DEF Pt
  <1>2. /\ Ramp(full, x, band) = Clamp(a \div n, 0, most)
        /\ Ramp(full, y, band) = Clamp(b \div n, 0, most)
    BY Zenon DEF Ramp
  <1> HIDE DEF most
  <1>3. a \in Int /\ b \in Int /\ a <= b
    <2>1. PICK u \in Int, v \in Nat : u = band + x /\ band + y = u + v
      <3>1. band + x \in Int /\ y - x \in Nat /\ band + y = (band + x) + (y - x)
        OBVIOUS
      <3> QED
        BY <3>1
    <2>2. most * u \in Int /\ most * v \in Nat /\ most * (u + v) = most * u + most * v
      BY <1>1
    <2> QED
      BY <2>1, <2>2
  <1> HIDE DEF a, b, n
  <1>4. a \div n \in Int /\ b \div n \in Int /\ a \div n <= b \div n
    BY <1>1, <1>3, DivMono
  <1>5. Clamp(a \div n, 0, most) <= Clamp(b \div n, 0, most)
    BY <1>1, <1>4, ClampMono
  <1> QED
    BY <1>2, <1>5

(* The quotient is the largest number that fits.                           *)
LEMMA DivExact ==
  ASSUME NEW x \in Int, NEW n \in Nat \ {0}, NEW q \in Int
  PROVE  /\ n * (x \div n) <= x
         /\ n * q <= x => q <= x \div n
  <1>1. n * (x \div n) <= x
    OBVIOUS
  <1>2. n * q <= x => (n * q) \div n <= x \div n
    BY DivMono
  <1>3. (n * q) \div n = q
    OBVIOUS
  <1> QED
    BY <1>1, <1>2, <1>3

(* The closer the price it is compared with, the better.                   *)
LEMMA QuotientMono ==
  ASSUME NEW F \in Nat, NEW p \in Nat \ {0}, NEW a \in Nat,
         NEW b \in Nat \ {0}, NEW c \in Nat \ {0}, c <= b
  PROVE  (F * (p * b + 100 * (a - b))) \div (2 * (p * b))
         <= (F * (p * c + 100 * (a - c))) \div (2 * (p * c))
  <1> DEFINE n == F * (p * b + 100 * (a - b))
             m == F * (p * c + 100 * (a - c))
             q == n \div (2 * (p * b))
             k == 2 * (p * q) - F * p + 100 * F
  <1>1. /\ p * b \in Nat \ {0} /\ p * c \in Nat \ {0}
        /\ 2 * (p * b) \in Nat \ {0} /\ 2 * (p * c) \in Nat \ {0}
    OBVIOUS
  <1>2. n \in Int /\ m \in Int
    BY <1>1
  <1>3. q \in Int /\ (2 * (p * b)) * q <= n
    <2>1. PICK d \in Nat \ {0} : d = 2 * (p * b)
      BY <1>1
    <2> HIDE DEF n
    <2>2. n \div d \in Int /\ d * (n \div d) <= n
      BY <1>2, DivExact
    <2> QED
      BY <2>1, <2>2
  <1> HIDE DEF q
  <1>4. k \in Int /\ F * a \in Nat
    BY <1>3
  <1>5. (2 * (p * b)) * q - n = b * k - 100 * (F * a)
    BY <1>3
  <1>6. (2 * (p * c)) * q - m = c * k - 100 * (F * a)
    BY <1>3
  <1> HIDE DEF k
  <1>7. c * k <= 100 * (F * a)
    <2>1. CASE k <= 0
      <3>1. c * k <= 0
        BY <1>4, <2>1
      <3> QED
        BY <1>4, <3>1
    <2>2. CASE k > 0
      <3>1. c * k <= b * k
        BY <1>4, <2>2
      <3>2. b * k <= 100 * (F * a)
        <4> HIDE DEF n
        <4>1. (2 * (p * b)) * q \in Int /\ b * k \in Int
          BY <1>1, <1>3, <1>4
        <4> QED
          BY <1>2, <1>3, <1>4, <1>5, <4>1
      <3>3. b * k \in Int /\ c * k \in Int
        BY <1>4
      <3> QED
        BY <1>4, <3>1, <3>2, <3>3
    <2> QED
      BY <1>4, <2>1, <2>2
  <1>8. (2 * (p * c)) * q <= m
    <2>1. (2 * (p * c)) * q \in Int /\ c * k \in Int
      BY <1>1, <1>3, <1>4
    <2> HIDE DEF m
    <2> QED
      BY <1>2, <1>4, <1>6, <1>7, <2>1
  <1> HIDE DEF m
  <1>9. q <= m \div (2 * (p * c))
    BY <1>1, <1>2, <1>3, <1>8, DivExact
  <1> QED
    BY <1>9 DEF q, m

(* Raising a, or lowering b, never costs points for a above b.             *)
LEMMA VersusUp ==
  ASSUME NEW full \in Nat, NEW a \in Nat, NEW h \in Nat, a <= h,
         Known(a), Known(h), NEW b \in Maybe(Nat), NEW percent \in Nat \ {0}
  PROVE  Versus(full, a, b, percent) <= Versus(full, h, b, percent)
  <1>1. (full * Pt) \div 2 \in Int
    BY DEF Pt
  <1>2. CASE Known(b) /\ b > 0
    <2>1. b \in Nat \ {0} /\ ~(b <= 0)
      BY <1>2 DEF Known, Maybe
    <2>2. /\ Versus(full, a, b, percent) = Ramp(full, 100 * (a - b), percent * b)
          /\ Versus(full, h, b, percent) = Ramp(full, 100 * (h - b), percent * b)
      BY <1>2, <2>1, Zenon DEF Versus
    <2>3. /\ 100 * (a - b) \in Int /\ 100 * (h - b) \in Int /\ 100 * (a - b) <= 100 * (h - b)
          /\ percent * b \in Nat \ {0}
      BY <2>1
    <2>4. Ramp(full, 100 * (a - b), percent * b) <= Ramp(full, 100 * (h - b), percent * b)
      BY <2>3, RampMono
    <2> QED
      BY <2>2, <2>4
  <1>3. CASE ~(Known(b) /\ b > 0)
    <2>1. /\ Versus(full, a, b, percent) = (full * Pt) \div 2
          /\ Versus(full, h, b, percent) = (full * Pt) \div 2
      <3>1. ~Known(b) \/ b <= 0
        BY <1>3 DEF Known, Maybe
      <3> QED
        BY <3>1, Zenon DEF Versus
    <2> QED
      BY <1>1, <2>1
  <1> QED
    BY <1>2, <1>3

LEMMA VersusDown ==
  ASSUME NEW full \in Nat, NEW a \in Maybe(Nat), NEW b \in Nat, NEW l \in Nat \ {0}, l <= b,
         Known(b), Known(l), NEW percent \in Nat \ {0}
  PROVE  Versus(full, a, b, percent) <= Versus(full, a, l, percent)
  <1>1. (full * Pt) \div 2 \in Int
    BY DEF Pt
  <1>2. CASE Known(a)
    <2>1. /\ a \in Nat /\ b \in Nat \ {0} /\ ~(b <= 0) /\ l \in Nat \ {0} /\ ~(l <= 0)
      BY <1>2 DEF Known, Maybe
    <2>2. /\ Versus(full, a, b, percent) = Ramp(full, 100 * (a - b), percent * b)
          /\ Versus(full, a, l, percent) = Ramp(full, 100 * (a - l), percent * l)
      BY <1>2, <2>1, Zenon DEF Versus
    <2> DEFINE F == full * Pt
               Quot(x) == (F * (percent * x + 100 * (a - x))) \div (2 * (percent * x))
    <2>3. F \in Nat
      BY DEF Pt
    <2>4. /\ Ramp(full, 100 * (a - b), percent * b) = Clamp(Quot(b), 0, F)
          /\ Ramp(full, 100 * (a - l), percent * l) = Clamp(Quot(l), 0, F)
      BY Zenon DEF Ramp
    <2> HIDE DEF F
    <2>5. Quot(b) <= Quot(l)
      BY <2>1, <2>3, QuotientMono
    <2>6. Quot(b) \in Int /\ Quot(l) \in Int
      BY <2>1, <2>3
    <2> HIDE DEF Quot
    <2>7. Clamp(Quot(b), 0, F) <= Clamp(Quot(l), 0, F)
      BY <2>3, <2>5, <2>6, ClampMono
    <2> QED
      BY <2>2, <2>4, <2>7
  <1>3. CASE ~Known(a)
    <2>1. /\ Versus(full, a, b, percent) = (full * Pt) \div 2
          /\ Versus(full, a, l, percent) = (full * Pt) \div 2
      BY <1>3, Zenon DEF Versus
    <2> QED
      BY <1>1, <2>1
  <1> QED
    BY <1>2, <1>3

------------------------------------------------------------------------------
(* Each pillar.                                                            *)

(* What is better for the trend: a higher price, a lower average that is   *)
(* only compared with.                                                     *)
LEMMA TrendUp ==
  ASSUME NEW c \in Stocks, NEW d \in Stocks, NEW f \in {"price", "sma20", "sma200"},
         Alike(c, d, f), Known(c[f]), Known(d[f]), Known(c.price), Known(d.price),
         f = "price" => c.price <= d.price, f # "price" => d[f] <= c[f] /\ d[f] > 0
  PROVE  Trend(c) <= Trend(d)
  <1>1. /\ Against20(c) \in Int /\ Against50(c) \in Int /\ Against200(c) \in Int
        /\ Against20(d) \in Int /\ Against50(d) \in Int /\ Against200(d) \in Int
        /\ Alignment(c) \in Int /\ Alignment(d) \in Int
    BY TrendBounds DEF Between
  <1>2. /\ c.price \in Nat /\ d.price \in Nat /\ c.price \in Maybe(Nat)
        /\ c.sma20 \in Maybe(Nat) /\ c.sma50 \in Maybe(Nat) /\ c.sma200 \in Maybe(Nat)
        /\ d.sma20 \in Maybe(Nat) /\ d.sma50 \in Maybe(Nat) /\ d.sma200 \in Maybe(Nat)
    BY StockFields DEF Maybe
  <1>3. f \in Fields
    BY DEF Fields, Averaged
  <1>4. 10 \in Nat /\ 15 \in Nat /\ 3 \in Nat \ {0} /\ 5 \in Nat \ {0} /\ 10 \in Nat \ {0}
    OBVIOUS
  <1>5. /\ Against20(c) <= Against20(d) /\ Against50(c) <= Against50(d)
        /\ Against200(c) <= Against200(d) /\ Alignment(c) <= Alignment(d)
    <2>1. CASE f = "price"
      <3>1. d.sma20 = c.sma20 /\ d.sma50 = c.sma50 /\ d.sma200 = c.sma200
        BY <2>1 DEF Alike, Fields, Averaged
      <3>2. \A n \in Nat \ {0} : \A b \in Maybe(Nat) :
              Versus(10, c.price, b, n) <= Versus(10, d.price, b, n)
        BY <1>2, <1>4, <2>1, VersusUp
      <3>3. Alignment(d) = Alignment(c)
        BY <1>3, <2>1, Untouched
      <3> QED
        BY <1>1, <1>2, <1>4, <3>1, <3>2, <3>3 DEF Against20, Against50, Against200
    <2>2. CASE f = "sma20"
      <3>1. /\ Against50(d) = Against50(c) /\ Against200(d) = Against200(c)
            /\ Alignment(d) = Alignment(c) /\ d.price = c.price
        BY <1>3, <2>2, Untouched DEF Alike, Fields
      <3>2. c.sma20 \in Nat /\ d.sma20 \in Nat \ {0}
        BY <1>2, <2>2 DEF Maybe, Known
      <3>3. Versus(10, c.price, c.sma20, 3) <= Versus(10, c.price, d.sma20, 3)
        BY <1>2, <1>4, <2>2, <3>2, VersusDown
      <3> QED
        BY <1>1, <3>1, <3>3 DEF Against20
    <2>3. CASE f = "sma200"
      <3>1. /\ Against20(d) = Against20(c) /\ Against50(d) = Against50(c)
            /\ d.price = c.price /\ d.sma50 = c.sma50
        BY <1>3, <2>3, Untouched DEF Alike, Fields, Averaged
      <3>2. c.sma200 \in Nat /\ d.sma200 \in Nat \ {0}
        BY <1>2, <2>3 DEF Maybe, Known
      <3>3. /\ Versus(10, c.price, c.sma200, 10) <= Versus(10, c.price, d.sma200, 10)
            /\ Versus(15, c.sma50, c.sma200, 5) <= Versus(15, c.sma50, d.sma200, 5)
        BY <1>2, <1>4, <2>3, <3>2, VersusDown
      <3> QED
        BY <1>1, <3>1, <3>3 DEF Against200, Alignment
    <2> QED
      BY <2>1, <2>2, <2>3
  <1> QED
    BY <1>1, <1>5, Components

(* A stronger trend turns a high short interest into a squeeze setup,      *)
(* never back.                                                             *)
LEMMA ShortWithTrend ==
  ASSUME NEW c \in Stocks, NEW d \in Stocks, d.short = c.short,
         Trend(c) \in Int, Trend(d) \in Int, Trend(c) <= Trend(d)
  PROVE  ShortPoints(c) <= ShortPoints(d)
  <1>1. ShortPoints(c) \in Int /\ ShortPoints(d) \in Int /\ 0 <= ShortPoints(d)
    BY RiskBounds DEF Between
  <1>2. CASE ~HighShort(c)
    <2>1. ShortPoints(d) = ShortPoints(c)
      BY <1>2, Zenon DEF ShortPoints, Squeeze, HighShort
    <2> QED
      BY <1>1, <2>1
  <1>3. CASE HighShort(c)
    <2>1. HighShort(d) /\ Known(c.short) /\ Known(d.short)
      BY <1>3 DEF HighShort
    <2>2. CASE Squeeze(c)
      <3>1. Squeeze(d)
        BY <2>1, <2>2 DEF Squeeze, Pt
      <3>2. ShortPoints(c) = (48 * Pt) \div 10 /\ ShortPoints(d) = (48 * Pt) \div 10
        BY <2>1, <2>2, <3>1, Zenon DEF ShortPoints
      <3> QED
        BY <1>1, <3>2
    <2>3. CASE ~Squeeze(c)
      <3>1. ShortPoints(c) = 0
        BY <1>3, <2>1, <2>3, Zenon DEF ShortPoints
      <3> QED
        BY <1>1, <3>1
    <2> QED
      BY <2>2, <2>3
  <1> QED
    BY <1>2, <1>3

(* Fewer shares sold short cost no points unless the interest was high.    *)
LEMMA ShortDown ==
  ASSUME NEW c \in Stocks, NEW d \in Stocks, Known(c.short), Known(d.short),
         d.short <= c.short, Trend(d) = Trend(c), HighShort(d) \/ ~HighShort(c)
  PROVE  ShortPoints(c) <= ShortPoints(d)
  <1>1. c.short \in Nat /\ d.short \in Nat
    BY StockFields DEF Maybe, Known
  <1>2. ShortPoints(c) \in Int /\ ShortPoints(d) \in Int
    BY RiskBounds DEF Between
  <1>3. CASE HighShort(d)
    <2>1. HighShort(c)
      BY <1>1, <1>3 DEF HighShort
    <2>2. Squeeze(c) <=> Squeeze(d)
      BY <1>3, <2>1, Zenon DEF Squeeze
    <2>3. ShortPoints(c) = ShortPoints(d)
      BY <1>3, <2>1, <2>2, Zenon DEF ShortPoints
    <2> QED
      BY <1>2, <2>3
  <1>4. CASE ~HighShort(d) /\ ~HighShort(c)
    <2>1. /\ ShortPoints(c) = (6 * Pt * (100 - c.short)) \div 100
          /\ ShortPoints(d) = (6 * Pt * (100 - d.short)) \div 100
      BY <1>4, LowShort
    <2>2. (6 * Pt * (100 - c.short)) \div 100 <= (6 * Pt * (100 - d.short)) \div 100
      BY <1>1 DEF Pt
    <2> QED
      BY <2>1, <2>2
  <1> QED
    BY <1>3, <1>4

(* A calmer stock.                                                         *)
LEMMA CalmDown ==
  ASSUME NEW c \in Stocks, NEW d \in Stocks, Known(c.z), Known(d.z), d.z <= c.z
  PROVE  CalmPoints(c) <= CalmPoints(d)
  <1>1. -c.z \in Int /\ -d.z \in Int /\ -c.z <= -d.z
    BY StockFields DEF Maybe, Known
  <1>2. 4 \in Nat /\ 15 \in Nat \ {0}
    OBVIOUS
  <1>3. Ramp(4, -c.z, 15) <= Ramp(4, -d.z, 15)
    BY <1>1, <1>2, RampMono
  <1> QED
    BY <1>3 DEF CalmPoints

(* A stock that was weaker has recovered more.                             *)
LEMMA MomentumUp ==
  ASSUME NEW c \in Stocks, NEW d \in Stocks, d.rsi = c.rsi,
         Known(c.rsiPrev), Known(d.rsiPrev), d.rsiPrev <= c.rsiPrev
  PROVE  Momentum(c) <= Momentum(d)
  <1>1. Momentum(c) \in Int /\ Momentum(d) \in Int
    BY MomentumBounds DEF Between
  <1>2. CASE ~Known(c.rsi)
    BY <1>2, MomentumUnknown
  <1>3. CASE Known(c.rsi)
    <2>1. c.rsi \in Int /\ c.rsiPrev \in Int /\ d.rsiPrev \in Int
      <3>1. c.rsi \in Maybe(0..100) /\ c.rsiPrev \in Maybe(0..100) /\ d.rsiPrev \in Maybe(0..100)
        BY StockFields
      <3> QED
        BY <1>3, <3>1 DEF Maybe, Known
    <2>2. Recovering(c) => Recovering(d)
      BY <2>1 DEF Recovering
    <2>3. CASE Recovering(c)
      <3>1. Momentum(c) = Momentum(d)
        BY <1>3, <2>2, <2>3, Zenon DEF Momentum
      <3> QED
        BY <1>1, <3>1
    <2>4. CASE ~Recovering(c)
      <3>1. Momentum(c) = RSIPoints(c.rsi) /\ RSIPoints(d.rsi) <= Momentum(d)
        BY <1>3, <2>4, MomentumSteady, MomentumKnown
      <3> QED
        BY <3>1
    <2> QED
      BY <2>3, <2>4
  <1> QED
    BY <1>2, <1>3

(* The ETF closes its last day higher.                                     *)
HigherClose(c, d) ==
  /\ c # <<>> /\ Len(d) = Len(c) /\ Front(d) = Front(c)
  /\ Last(d).volume = Last(c).volume /\ Last(c).close <= Last(d).close

LEMMA EarlierDays ==
  ASSUME NEW c \in Seq(Bars), NEW d \in Seq(Bars), HigherClose(c, d)
  PROVE  /\ \A n \in 1..Len(c) - 1 : d[n] = c[n]
         /\ Last(c) \in Bars /\ Last(d) \in Bars
         /\ Last(c) = c[Len(c)] /\ Last(d) = d[Len(d)]
  <1>1. Len(c) \in Nat \ {0} /\ Len(d) = Len(c) /\ Front(d) = Front(c)
    BY DEF HigherClose
  <1>2. \A n \in 1..Len(c) - 1 : Front(c)[n] = c[n] /\ Front(d)[n] = d[n]
    BY <1>1 DEF Front
  <1>3. Last(c) \in Bars /\ Last(d) \in Bars
    BY <1>1 DEF Last
  <1> QED
    BY <1>1, <1>2, <1>3, Zenon DEF Last

(* Buying pressure can only turn from selling to none to buying.           *)
LEMMA FlowUp ==
  ASSUME ScoreAssumption, NEW c \in Stocks, NEW d \in Stocks, HigherClose(c.etf, d.etf)
  PROVE  FlowPoints(c) <= FlowPoints(d)
  <1> DEFINE n == Len(c.etf)
             t == Total(PriorWindow(c.etf))
             v == Last(c.etf).volume
             x == Last(c.etf).close - c.etf[n - 1].close
             y == Last(d.etf).close - c.etf[n - 1].close
             Judged(ch) ==
               CASE t = 0 -> NoData
                 [] t > 0 /\ 2 * Window * v > 3 * t /\ ch > 0 -> "Accumulation"
                 [] t > 0 /\ 2 * Window * v > 3 * t /\ ch < 0 -> "Distribution"
                 [] OTHER -> "Neutral"
             Points(fl) ==
               CASE fl = "Accumulation" -> 10 * Pt [] fl = "Distribution" -> 0 [] OTHER -> 5 * Pt
  <1>1. /\ Window \in Nat \ {0} /\ c.etf \in Seq(Bars) /\ d.etf \in Seq(Bars)
        /\ NoData \notin Flows
    BY StockFields DEF ScoreAssumption
  <1>2. /\ \A m \in 1..Len(c.etf) - 1 : d.etf[m] = c.etf[m]
        /\ Last(c.etf) \in Bars /\ Last(d.etf) \in Bars
        /\ Len(d.etf) = Len(c.etf) /\ Len(c.etf) \in Nat
        /\ Last(d.etf).volume = Last(c.etf).volume /\ Last(c.etf).close <= Last(d.etf).close
    BY <1>1, EarlierDays DEF HigherClose
  <1>3. CASE n <= Window
    <2>1. Flow(c.etf) = NoData /\ Flow(d.etf) = NoData
      BY <1>2, <1>3 DEF Flow
    <2> QED
      BY <1>1, <2>1 DEF FlowPoints, Flows, Pt
  <1>4. CASE n > Window
    <2>1. n - 1 \in 1..Len(c.etf) - 1 /\ c.etf[n - 1] \in Bars
      BY <1>1, <1>2, <1>4
    <2>2. x \in Int /\ y \in Int /\ x <= y
      BY <1>2, <2>1 DEF Bars
    <2>3. PriorWindow(d.etf) = PriorWindow(c.etf)
      BY <1>1, <1>2, <1>4 DEF PriorWindow
    <2>4. d.etf[n - 1] = c.etf[n - 1]
      BY <1>2, <2>1
    <2>5. Flow(c.etf) = Judged(x) /\ Flow(d.etf) = Judged(y)
      BY <1>1, <1>2, <1>4, <2>3, <2>4 DEF Flow
    <2> HIDE DEF t, v, x, y
    <2>6. Points(Judged(x)) <= Points(Judged(y))
      BY <1>1, <2>2 DEF Flows, Pt
    <2>7. FlowPoints(c) = Points(Judged(x)) /\ FlowPoints(d) = Points(Judged(y))
      BY <2>5, Zenon DEF FlowPoints
    <2> QED
      BY <2>6, <2>7
  <1> QED
    BY <1>1, <1>2, <1>3, <1>4

LEMMA RelativeUp ==
  ASSUME ScoreAssumption, NEW c \in Stocks, NEW d \in Stocks, d.index = c.index,
         HigherClose(c.etf, d.etf)
  PROVE  RelativePoints(c) <= RelativePoints(d)
  <1> DEFINE c0 == c.etf[Len(c.etf) - RelativeBars].close
             c1 == Last(c.etf).close
             d1 == Last(d.etf).close
             s0 == c.index[Len(c.index) - RelativeBars]
             s1 == Last(c.index)
  <1>1. /\ RelativeBars \in Nat \ {0} /\ c.etf \in Seq(Bars) /\ d.etf \in Seq(Bars)
        /\ c.index \in Seq(Nat \ {0}) /\ Len(c.index) \in Nat
    BY StockFields DEF ScoreAssumption
  <1>2. /\ \A m \in 1..Len(c.etf) - 1 : d.etf[m] = c.etf[m]
        /\ Last(c.etf) \in Bars /\ Last(d.etf) \in Bars
        /\ Len(d.etf) = Len(c.etf) /\ Len(c.etf) \in Nat
        /\ Last(c.etf).close <= Last(d.etf).close
    BY <1>1, EarlierDays DEF HigherClose
  <1>3. CASE Len(c.etf) <= RelativeBars \/ Len(c.index) <= RelativeBars
    <2>1. Relative(c.etf, c.index) = NoData /\ Relative(d.etf, d.index) = NoData
      BY <1>2, <1>3, Zenon DEF Relative
    <2> QED
      BY <2>1 DEF RelativePoints, Known, Pt
  <1>4. CASE ~(Len(c.etf) <= RelativeBars \/ Len(c.index) <= RelativeBars)
    <2>1. Len(c.etf) - RelativeBars \in 1..Len(c.etf) - 1
      BY <1>1, <1>2, <1>4
    <2>2. d.etf[Len(c.etf) - RelativeBars] = c.etf[Len(c.etf) - RelativeBars]
      BY <1>2, <2>1
    <2>3. c.etf[Len(c.etf) - RelativeBars] \in Bars
      BY <1>1, <1>2, <2>1
    <2>4. s0 \in Nat \ {0} /\ s1 \in Nat \ {0}
      BY <1>1, <1>4 DEF Last
    <2>5. c0 \in Nat \ {0} /\ c1 \in Nat /\ d1 \in Nat /\ c1 <= d1
      BY <1>2, <2>3 DEF Bars
    <2>6. /\ Relative(c.etf, c.index) = <<c1 * s0 - s1 * c0, c0 * s0>>
          /\ Relative(d.etf, d.index) = <<d1 * s0 - s1 * c0, c0 * s0>>
      BY <1>2, <1>4, <2>2, Zenon DEF Relative
    <2> HIDE DEF c0, c1, d1, s0, s1
    <2>7. /\ 100 * (c1 * s0 - s1 * c0) \in Int /\ 100 * (d1 * s0 - s1 * c0) \in Int
          /\ 100 * (c1 * s0 - s1 * c0) <= 100 * (d1 * s0 - s1 * c0)
          /\ 3 * (c0 * s0) \in Nat \ {0} /\ 5 \in Nat
      <3>1. /\ c1 * s0 \in Nat /\ d1 * s0 \in Nat /\ s1 * c0 \in Nat /\ c0 * s0 \in Nat \ {0}
            /\ c1 * s0 <= d1 * s0
        BY <2>4, <2>5
      <3> QED
        BY <3>1
    <2>8. Ramp(5, 100 * (c1 * s0 - s1 * c0), 3 * (c0 * s0))
          <= Ramp(5, 100 * (d1 * s0 - s1 * c0), 3 * (c0 * s0))
      BY <2>7, RampMono
    <2>9. Known(Relative(c.etf, c.index)) /\ Known(Relative(d.etf, d.index))
      <3>1. c1 * s0 - s1 * c0 \in Int /\ d1 * s0 - s1 * c0 \in Int /\ c0 * s0 \in Int
        BY <2>4, <2>5
      <3>2. Relative(c.etf, c.index) \in Int \X Int /\ Relative(d.etf, d.index) \in Int \X Int
        BY <2>6, <3>1
      <3> QED
        BY <3>2, Zenon DEF ScoreAssumption, Known
    <2>10. /\ RelativePoints(c) = Ramp(5, 100 * (c1 * s0 - s1 * c0), 3 * (c0 * s0))
           /\ RelativePoints(d) = Ramp(5, 100 * (d1 * s0 - s1 * c0), 3 * (c0 * s0))
      BY <2>6, <2>9 DEF RelativePoints
    <2> QED
      BY <2>8, <2>10
  <1> QED
    BY <1>3, <1>4
------------------------------------------------------------------------------
(* Sums over sets of trades.                                               *)

(* A set of finite sets has one that contains no other of them.            *)
LEMMA MinimalSet ==
  ASSUME NEW U, NEW F \in SUBSET FiniteSubsetsOf(U), F # {}
  PROVE  \E s \in F : \A t \in F : t \subseteq s => t = s
  <1>1. PICK s \in F : \A t \in F : ~(<<t, s>> \in StrictSubsetOrdering(U))
    BY FS_StrictSubsetOrderingWellFounded, WFMin
  <1>2. ASSUME NEW t \in F, t \subseteq s, t # s PROVE FALSE
    <2>1. <<t, s>> \in StrictSubsetOrdering(U)
      <3>1. t \in SUBSET U /\ s \in SUBSET U
        BY DEF FiniteSubsetsOf
      <3> QED
        BY <1>2, <3>1, Zenon DEF StrictSubsetOrdering
    <2> QED
      BY <1>1, <2>1
  <1> QED
    BY <1>2

Counted(t, what) == IF Known(t[what]) THEN t[what] ELSE 0
Picked(s) == CHOOSE x \in s : TRUE
SumOf(g, what, s) == IF s = {} THEN 0 ELSE Counted(Picked(s), what) + g[s \ {Picked(s)}]
Sums(g, what, S) == g = [s \in SUBSET S |-> SumOf(g, what, s)]

LEMMA PickedIn == \A s : s # {} => Picked(s) \in s
  BY DEF Picked

LEMMA TradedIs ==
  ASSUME NEW S, NEW what
  PROVE  Traded(S, what) = (CHOOSE g : Sums(g, what, S))[S]
  BY Zenon DEF Traded, MapThenSumSet, MapThenFoldSet, Sums, SumOf, Counted, Picked

(* The partial sums of one set are those of another.                       *)
LEMMA OneSum ==
  ASSUME NEW what, NEW S, NEW T, NEW g, NEW h, Sums(g, what, S), Sums(h, what, T),
         NEW u \in SUBSET (S \cap T), IsFiniteSet(u)
  PROVE  g[u] = h[u]
  <1> DEFINE Bad == {s \in FiniteSubsetsOf(S \cap T) : g[s] # h[s]}
  <1>1. SUFFICES ASSUME g[u] # h[u] PROVE FALSE
    OBVIOUS
  <1>2. u \in Bad
    BY <1>1 DEF FiniteSubsetsOf
  <1>3. PICK s \in Bad : \A t \in Bad : t \subseteq s => t = s
    <2>1. Bad \in SUBSET FiniteSubsetsOf(S \cap T)
      OBVIOUS
    <2> HIDE DEF Bad
    <2> QED
      BY <1>2, <2>1, MinimalSet
  <1>4. s \subseteq S \cap T /\ IsFiniteSet(s) /\ g[s] # h[s]
    BY <1>3 DEF FiniteSubsetsOf
  <1>5. g[s] = SumOf(g, what, s) /\ h[s] = SumOf(h, what, s)
    BY <1>4 DEF Sums
  <1>6. s # {}
    BY <1>4, <1>5 DEF SumOf
  <1> DEFINE r == s \ {Picked(s)}
  <1>7. g[r] = h[r]
    <2>1. r \subseteq s /\ r # s
      BY <1>6, PickedIn
    <2>2. IsFiniteSet(r) /\ r \in FiniteSubsetsOf(S \cap T)
      BY <1>4, <2>1, FS_Subset DEF FiniteSubsetsOf
    <2> QED
      BY <1>3, <2>1, <2>2
  <1> QED
    BY <1>4, <1>5, <1>6, <1>7 DEF SumOf

LEMMA SumsExist ==
  ASSUME NEW what, NEW S, IsFiniteSet(S)
  PROVE  \E g : Sums(g, what, S)
  <1> DEFINE Bad == {s \in FiniteSubsetsOf(S) : \A g : ~Sums(g, what, s)}
             G(t) == CHOOSE g : Sums(g, what, t)
  <1>1. SUFFICES ASSUME \A g : ~Sums(g, what, S) PROVE FALSE
    OBVIOUS
  <1>2. S \in Bad
    BY <1>1 DEF FiniteSubsetsOf
  <1>3. PICK s \in Bad : \A t \in Bad : t \subseteq s => t = s
    <2>1. Bad \in SUBSET FiniteSubsetsOf(S)
      OBVIOUS
    <2> HIDE DEF Bad
    <2> QED
      BY <1>2, <2>1, MinimalSet
  <1>4. s \subseteq S /\ IsFiniteSet(s) /\ \A g : ~Sums(g, what, s)
    BY <1>3 DEF FiniteSubsetsOf
  <1>5. ASSUME NEW t \in SUBSET s, t # s PROVE Sums(G(t), what, t) /\ IsFiniteSet(t)
    <2>1. IsFiniteSet(t) /\ t \in FiniteSubsetsOf(S)
      BY <1>4, FS_Subset DEF FiniteSubsetsOf
    <2>2. \E g : Sums(g, what, t)
      BY <1>3, <1>5, <2>1
    <2> QED
      BY <2>1, <2>2
  <1> HIDE DEF Bad, G
  <1> DEFINE g == [t \in SUBSET s |-> IF t = s THEN SumOf(G(s \ {Picked(s)}), what, s) ELSE G(t)[t]]
  <1>6. ASSUME NEW t \in SUBSET s PROVE g[t] = SumOf(g, what, t)
    <2> DEFINE r == t \ {Picked(t)}
    <2>1. CASE t = {}
      <3>1. CASE s = {}
        BY <2>1, <3>1 DEF SumOf
      <3>2. CASE s # {}
        <4>1. Sums(G(t), what, t) /\ g[t] = G(t)[t]
          BY <1>5, <2>1, <3>2
        <4> QED
          BY <2>1, <4>1 DEF Sums, SumOf
      <3> QED
        BY <3>1, <3>2
    <2>2. CASE t # {}
      <3>1. r \subseteq t /\ r # t /\ r \in SUBSET s /\ r # s
        BY <2>2, PickedIn
      <3>2. g[r] = G(r)[r] /\ Sums(G(r), what, r) /\ IsFiniteSet(r)
        BY <1>5, <3>1
      <3>3. CASE t = s
        BY <2>2, <3>2, <3>3 DEF SumOf
      <3>4. CASE t # s
        <4>1. Sums(G(t), what, t) /\ g[t] = G(t)[t]
          BY <1>5, <3>4
        <4>2. G(t)[t] = SumOf(G(t), what, t)
          BY <4>1 DEF Sums
        <4>3. G(t)[r] = G(r)[r]
          <5>1. r \in SUBSET (t \cap r)
            BY <3>1
          <5> HIDE DEF r
          <5> QED
            BY <3>2, <4>1, <5>1, OneSum
        <4> QED
          BY <2>2, <3>2, <4>1, <4>2, <4>3 DEF SumOf
      <3> QED
        BY <3>3, <3>4
    <2> QED
      BY <2>1, <2>2
  <1>7. Sums(g, what, s)
    <2>1. g = [t \in SUBSET s |-> g[t]]
      OBVIOUS
    <2> HIDE DEF g
    <2> QED
      BY <1>6, <2>1 DEF Sums
  <1> QED
    BY <1>4, <1>7

(* The sum over a set is one trade and the sum over the others.            *)
LEMMA TradedStep ==
  ASSUME NEW what, NEW s, IsFiniteSet(s)
  PROVE  /\ s = {} => Traded(s, what) = 0
         /\ s # {} => Traded(s, what) = Counted(Picked(s), what) + Traded(s \ {Picked(s)}, what)
  <1> DEFINE G(t) == CHOOSE g : Sums(g, what, t)
             r == s \ {Picked(s)}
  <1>1. \A t : Traded(t, what) = G(t)[t]
    BY TradedIs
  <1>2. ASSUME NEW t, IsFiniteSet(t) PROVE Sums(G(t), what, t)
    BY <1>2, SumsExist
  <1>3. IsFiniteSet(r)
    BY FS_Subset
  <1> HIDE DEF G
  <1>4. G(s)[s] = SumOf(G(s), what, s)
    BY <1>2 DEF Sums
  <1>5. s # {} => G(s)[r] = G(r)[r]
    <2>1. r \in SUBSET (s \cap r)
      OBVIOUS
    <2>2. Sums(G(s), what, s) /\ Sums(G(r), what, r)
      BY <1>2, <1>3
    <2> HIDE DEF r
    <2> QED
      BY <1>3, <2>1, <2>2, OneSum
  <1> QED
    BY <1>1, <1>4, <1>5 DEF SumOf

LEMMA TradedNat ==
  ASSUME NEW what, NEW S, IsFiniteSet(S), \A t \in S : Counted(t, what) \in Nat
  PROVE  Traded(S, what) \in Nat
  <1> DEFINE Bad == {s \in FiniteSubsetsOf(S) : Traded(s, what) \notin Nat}
  <1>1. SUFFICES ASSUME Traded(S, what) \notin Nat PROVE FALSE
    OBVIOUS
  <1>2. S \in Bad
    BY <1>1 DEF FiniteSubsetsOf
  <1>3. PICK s \in Bad : \A t \in Bad : t \subseteq s => t = s
    <2>1. Bad \in SUBSET FiniteSubsetsOf(S)
      OBVIOUS
    <2> HIDE DEF Bad
    <2> QED
      BY <1>2, <2>1, MinimalSet
  <1>4. s \subseteq S /\ IsFiniteSet(s) /\ Traded(s, what) \notin Nat
    BY <1>3 DEF FiniteSubsetsOf
  <1> DEFINE r == s \ {Picked(s)}
  <1>5. s # {} /\ Traded(s, what) = Counted(Picked(s), what) + Traded(r, what)
    BY <1>4, TradedStep
  <1>6. r \subseteq s /\ r # s /\ Picked(s) \in S
    BY <1>4, <1>5, PickedIn
  <1>7. r \in FiniteSubsetsOf(S)
    BY <1>4, <1>6, FS_Subset DEF FiniteSubsetsOf
  <1>8. Traded(r, what) \in Nat
    BY <1>3, <1>6, <1>7
  <1> QED
    BY <1>4, <1>5, <1>6, <1>8

(* Whichever trade that is.                                                *)
LEMMA TradedWithout ==
  ASSUME NEW what, NEW S, IsFiniteSet(S), \A t \in S : Counted(t, what) \in Nat, NEW x \in S
  PROVE  Traded(S, what) = Counted(x, what) + Traded(S \ {x}, what)
  <1> DEFINE Holds(s, y) == Traded(s, what) = Counted(y, what) + Traded(s \ {y}, what)
             Bad == {s \in FiniteSubsetsOf(S) : \E y \in s : ~Holds(s, y)}
  <1>1. SUFFICES ASSUME ~Holds(S, x) PROVE FALSE
    OBVIOUS
  <1> HIDE DEF Holds
  <1>2. S \in Bad
    BY <1>1 DEF FiniteSubsetsOf
  <1>3. PICK s \in Bad : \A t \in Bad : t \subseteq s => t = s
    <2>1. Bad \in SUBSET FiniteSubsetsOf(S)
      OBVIOUS
    <2> HIDE DEF Bad
    <2> QED
      BY <1>2, <2>1, MinimalSet
  <1>4. PICK y \in s : ~Holds(s, y)
    BY <1>3
  <1>5. s \subseteq S /\ IsFiniteSet(s)
    BY <1>3 DEF FiniteSubsetsOf
  <1>6. ASSUME NEW t \in SUBSET s, t # s, NEW z \in t PROVE Holds(t, z)
    <2>1. t \in FiniteSubsetsOf(S)
      BY <1>5, FS_Subset DEF FiniteSubsetsOf
    <2> QED
      BY <1>3, <1>6, <2>1
  <1> HIDE DEF Bad
  <1> DEFINE c == Picked(s)
             r == s \ {c, y}
  <1>7. c \in s /\ Holds(s, c)
    BY <1>4, <1>5, PickedIn, TradedStep DEF Holds
  <1>8. c # y
    BY <1>4, <1>7
  <1>9. Holds(s \ {c}, y) /\ Holds(s \ {y}, c)
    BY <1>4, <1>6, <1>7, <1>8
  <1>10. /\ (s \ {c}) \ {y} = r /\ (s \ {y}) \ {c} = r
    OBVIOUS
  <1>11. Traded(r, what) \in Nat /\ Counted(c, what) \in Nat /\ Counted(y, what) \in Nat
    <2>1. IsFiniteSet(r) /\ \A t \in r : Counted(t, what) \in Nat
      BY <1>5, FS_Subset
    <2> QED
      BY <1>4, <1>5, <1>7, <2>1, TradedNat
  <1>12. /\ Traded(s, what) = Counted(c, what) + Traded(s \ {c}, what)
         /\ Traded(s \ {c}, what) = Counted(y, what) + Traded(r, what)
         /\ Traded(s \ {y}, what) = Counted(c, what) + Traded(r, what)
    BY <1>7, <1>9, <1>10 DEF Holds
  <1>13. Traded(s, what) = Counted(y, what) + Traded(s \ {y}, what)
    <2> HIDE DEF c, r
    <2> QED
      BY <1>11, <1>12
  <1> QED
    BY <1>4, <1>13 DEF Holds

(* More trades are never worth less.                                       *)
LEMMA TradedMore ==
  ASSUME NEW what, NEW A, NEW B, A \subseteq B, IsFiniteSet(B),
         \A t \in B : Counted(t, what) \in Nat
  PROVE  Traded(A, what) <= Traded(B, what)
  <1> DEFINE Bad == {s \in FiniteSubsetsOf(B) :
                       A \subseteq s /\ ~(Traded(A, what) <= Traded(s, what))}
  <1>1. SUFFICES ASSUME ~(Traded(A, what) <= Traded(B, what)) PROVE FALSE
    OBVIOUS
  <1>2. B \in Bad
    BY <1>1 DEF FiniteSubsetsOf
  <1>3. PICK s \in Bad : \A t \in Bad : t \subseteq s => t = s
    <2>1. Bad \in SUBSET FiniteSubsetsOf(B)
      OBVIOUS
    <2> HIDE DEF Bad
    <2> QED
      BY <1>2, <2>1, MinimalSet
  <1>4. s \subseteq B /\ IsFiniteSet(s) /\ A \subseteq s /\ ~(Traded(A, what) <= Traded(s, what))
    BY <1>3 DEF FiniteSubsetsOf
  <1>5. /\ Traded(A, what) \in Nat
        /\ \A r \in SUBSET s : IsFiniteSet(r) /\ Traded(r, what) \in Nat
    <2>1. \A r \in SUBSET s : IsFiniteSet(r)
      BY <1>4, FS_Subset
    <2>2. \A r \in SUBSET s : \A t \in r : Counted(t, what) \in Nat
      BY <1>4
    <2> QED
      BY <1>4, <2>1, <2>2, TradedNat
  <1>6. PICK x \in s : x \notin A
    BY <1>4, <1>5
  <1>7. s \ {x} \in FiniteSubsetsOf(B) /\ A \subseteq s \ {x} /\ s \ {x} # s
    BY <1>4, <1>5, <1>6 DEF FiniteSubsetsOf
  <1>8. Traded(A, what) <= Traded(s \ {x}, what)
    BY <1>3, <1>7
  <1>9. Traded(s, what) = Counted(x, what) + Traded(s \ {x}, what) /\ Counted(x, what) \in Nat
    BY <1>4, <1>6, TradedWithout
  <1>10. Traded(s \ {x}, what) \in Nat
    BY <1>5
  <1> QED
    BY <1>4, <1>5, <1>8, <1>9, <1>10

(* More bought and less sold, by value and by shares.                      *)
LEMMA TradesCounted ==
  ASSUME ScoreAssumption, NEW c \in Stocks, NEW what \in {"value", "shares"}
  PROVE  /\ IsFiniteSet(Buys(c.trades)) /\ IsFiniteSet(Sales(c.trades))
         /\ \A t \in Buys(c.trades) \cup Sales(c.trades) : Counted(t, what) \in Nat
         /\ Traded(Buys(c.trades), what) \in Nat /\ Traded(Sales(c.trades), what) \in Nat
  <1>1. c.trades \subseteq Trades /\ IsFiniteSet(c.trades) /\ Trades \subseteq Deals
    BY StockFields DEF ScoreAssumption
  <1>2. /\ Buys(c.trades) \subseteq c.trades /\ Sales(c.trades) \subseteq c.trades
    BY DEF Buys, Sales
  <1>3. IsFiniteSet(Buys(c.trades)) /\ IsFiniteSet(Sales(c.trades))
    BY <1>1, <1>2, FS_Subset
  <1>4. ASSUME NEW t \in Deals PROVE Counted(t, what) \in Nat
    BY DEF Deals, Counted, Known, Maybe
  <1>5. \A t \in Buys(c.trades) \cup Sales(c.trades) : Counted(t, what) \in Nat
    BY <1>1, <1>2, <1>4
  <1> QED
    BY <1>3, <1>5, TradedNat

(* Buying more and selling less never makes the net direction worse.       *)
LEMMA InsiderUp ==
  ASSUME ScoreAssumption, NEW c \in Stocks, NEW d \in Stocks,
         Buys(c.trades) \subseteq Buys(d.trades), Sales(d.trades) \subseteq Sales(c.trades)
  PROVE  Insider(c) <= Insider(d)
  <1> DEFINE V(s) == Traded(Buys(s.trades), "value") - Traded(Sales(s.trades), "value")
             S(s) == Traded(Buys(s.trades), "shares") - Traded(Sales(s.trades), "shares")
             Judged(v, n) ==
               LET net == IF v # 0 THEN v ELSE n
               IN  CASE net < 0 -> "selling" [] net > 0 -> "buying" [] OTHER -> NoData
             Points(net) ==
               CASE net = "selling" -> -5 * Pt [] net = "buying" -> 5 * Pt [] OTHER -> 0
  <1>1. ASSUME NEW what \in {"value", "shares"}
        PROVE  /\ Traded(Buys(c.trades), what) - Traded(Sales(c.trades), what) \in Int
               /\ Traded(Buys(d.trades), what) - Traded(Sales(d.trades), what) \in Int
               /\ Traded(Buys(c.trades), what) - Traded(Sales(c.trades), what)
                  <= Traded(Buys(d.trades), what) - Traded(Sales(d.trades), what)
    <2>1. /\ Traded(Buys(c.trades), what) \in Nat /\ Traded(Sales(c.trades), what) \in Nat
          /\ Traded(Buys(d.trades), what) \in Nat /\ Traded(Sales(d.trades), what) \in Nat
      BY TradesCounted
    <2>2. Traded(Buys(c.trades), what) <= Traded(Buys(d.trades), what)
      <3>1. IsFiniteSet(Buys(d.trades)) /\ \A t \in Buys(d.trades) : Counted(t, what) \in Nat
        BY TradesCounted
      <3> QED
        BY <3>1, TradedMore
    <2>3. Traded(Sales(d.trades), what) <= Traded(Sales(c.trades), what)
      <3>1. IsFiniteSet(Sales(c.trades)) /\ \A t \in Sales(c.trades) : Counted(t, what) \in Nat
        BY TradesCounted
      <3> QED
        BY <3>1, TradedMore
    <2> QED
      BY <2>1, <2>2, <2>3
  <1>2. /\ V(c) \in Int /\ V(d) \in Int /\ V(c) <= V(d)
        /\ S(c) \in Int /\ S(d) \in Int /\ S(c) <= S(d)
    BY <1>1
  <1>3. Net(c.trades) = Judged(V(c), S(c)) /\ Net(d.trades) = Judged(V(d), S(d))
    BY Zenon DEF Net
  <1> HIDE DEF V, S
  <1>4. Points(Judged(V(c), S(c))) <= Points(Judged(V(d), S(d)))
    BY <1>2 DEF Pt
  <1>5. Insider(c) = Points(Net(c.trades)) /\ Insider(d) = Points(Net(d.trades))
    BY Zenon DEF Insider
  <1> QED
    BY <1>3, <1>4, <1>5

------------------------------------------------------------------------------
(* The score.                                                              *)
LEMMA ScoreInt ==
  ASSUME ScoreAssumption, NEW d \in Stocks, d.long
  PROVE  Score(d) \in Int
  <1>1. Raw(d) \in Int
    BY PillarBounds, InsiderBounds DEF Between, Raw
  <1> QED
    BY <1>1 DEF Score, Clamp, Pt

(* No pillar loses: neither does the score.                                *)
LEMMA ScoreUp ==
  ASSUME ScoreAssumption, NEW c \in Stocks, NEW d \in Stocks, c.long, d.long,
         Trend(c) <= Trend(d), Momentum(c) <= Momentum(d), Sector(c) <= Sector(d),
         Risk(c) <= Risk(d), Insider(c) <= Insider(d)
  PROVE  Score(c) <= Score(d)
  <1>1. /\ Trend(c) \in Int /\ Momentum(c) \in Int /\ Sector(c) \in Int /\ Risk(c) \in Int
        /\ Trend(d) \in Int /\ Momentum(d) \in Int /\ Sector(d) \in Int /\ Risk(d) \in Int
        /\ Insider(c) \in Int /\ Insider(d) \in Int
    BY PillarBounds, InsiderBounds DEF Between
  <1>2. Raw(c) \in Int /\ Raw(d) \in Int /\ Raw(c) <= Raw(d)
    BY <1>1 DEF Raw
  <1>3. 0 \in Int /\ 100 * Pt \in Int /\ 0 <= 100 * Pt
    BY DEF Pt
  <1>4. Clamp(Raw(c), 0, 100 * Pt) <= Clamp(Raw(d), 0, 100 * Pt)
    BY <1>2, <1>3, ClampMono
  <1> QED
    BY <1>4 DEF Score

(* One case for each way in which the data gets better.                    *)
LEMMA BetterNeverWorse ==
  ASSUME ScoreAssumption, StockOK, StockOK', Scored, Improves
  PROVE  Score(stock') >= Score(stock)
  <1>1. PICK c \in Stocks, d \in Stocks : c = stock /\ d = stock'
    BY DEF StockOK
  <1>2. c.long /\ d.long
    BY <1>1 DEF Scored
  <1>3. /\ Trend(c) \in Int /\ Momentum(c) \in Int /\ Sector(c) \in Int /\ Risk(c) \in Int
        /\ Trend(d) \in Int /\ Insider(c) \in Int
        /\ ShortPoints(c) \in Int /\ ShortPoints(d) \in Int
        /\ CalmPoints(c) \in Int /\ CalmPoints(d) \in Int
        /\ FlowPoints(c) \in Int /\ FlowPoints(d) \in Int
        /\ RelativePoints(c) \in Int /\ RelativePoints(d) \in Int
    <2>1. /\ Trend(c) \in Int /\ Momentum(c) \in Int /\ Sector(c) \in Int /\ Risk(c) \in Int
          /\ Trend(d) \in Int /\ Insider(c) \in Int
      BY PillarBounds, InsiderBounds DEF Between
    <2>2. /\ ShortPoints(c) \in Int /\ ShortPoints(d) \in Int
          /\ CalmPoints(c) \in Int /\ CalmPoints(d) \in Int
      BY RiskBounds DEF Between
    <2>3. /\ FlowPoints(c) \in Int /\ FlowPoints(d) \in Int
          /\ RelativePoints(c) \in Int /\ RelativePoints(d) \in Int
      BY SectorBounds DEF Between
    <2> QED
      BY <2>1, <2>2, <2>3
  <1>4. ASSUME NEW f \in Fields, Same({f})
        PROVE  Alike(c, d, f)
    BY <1>1, <1>4 DEF Same, Alike
  <1>5. Known(c.price) /\ Known(d.price)
    BY StockFields DEF Known, ScoreAssumption
  <1>6. SUFFICES Score(c) <= Score(d)
    <2>1. Score(c) \in Int /\ Score(d) \in Int
      BY <1>2, ScoreInt
    <2> QED
      BY <1>1, <2>1
  <1>7. ASSUME NEW f \in {"price", "sma20", "sma200"}, Same({f}), Known(c[f]), Known(d[f]),
               f = "price" => c.price <= d.price, f # "price" => d[f] <= c[f] /\ d[f] > 0
        PROVE  Score(c) <= Score(d)
    <2>1. f \in Fields /\ f \notin {"rsi", "rsiPrev", "etf", "index", "short", "z", "trades"}
      BY DEF Fields, Averaged
    <2>2. Alike(c, d, f)
      BY <1>4, <1>7, <2>1
    <2>3. Trend(c) <= Trend(d)
      BY <1>5, <1>7, <2>2, TrendUp
    <2>4. /\ Insider(d) = Insider(c) /\ Momentum(d) = Momentum(c) /\ CalmPoints(d) = CalmPoints(c)
          /\ RelativePoints(d) = RelativePoints(c) /\ FlowPoints(d) = FlowPoints(c)
          /\ d.short = c.short
      BY <2>1, <2>2, Untouched
    <2>5. ShortPoints(c) <= ShortPoints(d)
      BY <1>3, <2>3, <2>4, ShortWithTrend
    <2>6. Sector(c) <= Sector(d) /\ Risk(c) <= Risk(d)
      BY <1>3, <2>4, <2>5, Components
    <2> QED
      BY <1>2, <1>3, <2>3, <2>4, <2>6, ScoreUp
  <1>8. CASE Down("rsiPrev") /\ Same({"rsiPrev"})
    <2>1. "rsiPrev" \in Fields /\ "rsiPrev" \notin Averaged \cup {"price"}
      BY DEF Fields, Averaged
    <2>2. Alike(c, d, "rsiPrev") /\ d.rsi = c.rsi
      BY <1>4, <1>8, <2>1 DEF Alike, Fields
    <2>3. Momentum(c) <= Momentum(d)
      BY <1>1, <1>8, <2>2, MomentumUp DEF Down
    <2>4. /\ Insider(d) = Insider(c) /\ Trend(d) = Trend(c) /\ CalmPoints(d) = CalmPoints(c)
          /\ RelativePoints(d) = RelativePoints(c) /\ FlowPoints(d) = FlowPoints(c)
          /\ ShortPoints(d) = ShortPoints(c)
      BY <2>1, <2>2, Untouched
    <2>5. Sector(c) = Sector(d) /\ Risk(c) = Risk(d)
      BY <2>4, Components
    <2> QED
      BY <1>2, <1>3, <2>3, <2>4, <2>5, ScoreUp
  <1>9. CASE Down("z") /\ Same({"z"})
    <2>1. "z" \in Fields /\ "z" \notin Averaged \cup {"price"}
      BY DEF Fields, Averaged
    <2>2. Alike(c, d, "z")
      BY <1>4, <1>9, <2>1
    <2>3. CalmPoints(c) <= CalmPoints(d)
      BY <1>1, <1>9, CalmDown DEF Down
    <2>4. /\ Insider(d) = Insider(c) /\ Trend(d) = Trend(c) /\ Momentum(d) = Momentum(c)
          /\ RelativePoints(d) = RelativePoints(c) /\ FlowPoints(d) = FlowPoints(c)
          /\ ShortPoints(d) = ShortPoints(c)
      BY <2>1, <2>2, Untouched
    <2>5. Sector(c) <= Sector(d) /\ Risk(c) <= Risk(d)
      BY <1>3, <2>3, <2>4, Components
    <2> QED
      BY <1>2, <1>3, <2>4, <2>5, ScoreUp
  <1>10. CASE Down("short") /\ (HighShort(stock') \/ ~HighShort(stock)) /\ Same({"short"})
    <2>1. "short" \in Fields /\ "short" \notin Averaged \cup {"price"}
      BY DEF Fields, Averaged
    <2>2. Alike(c, d, "short")
      BY <1>4, <1>10, <2>1
    <2>3. /\ Insider(d) = Insider(c) /\ Trend(d) = Trend(c) /\ Momentum(d) = Momentum(c)
          /\ RelativePoints(d) = RelativePoints(c) /\ FlowPoints(d) = FlowPoints(c)
          /\ CalmPoints(d) = CalmPoints(c)
      BY <2>1, <2>2, Untouched
    <2>4. ShortPoints(c) <= ShortPoints(d)
      BY <1>1, <1>10, <2>3, ShortDown DEF Down
    <2>5. Sector(c) <= Sector(d) /\ Risk(c) <= Risk(d)
      BY <1>3, <2>3, <2>4, Components
    <2> QED
      BY <1>2, <1>3, <2>3, <2>5, ScoreUp
  <1>11. CASE HigherClose(c.etf, d.etf) /\ Same({"etf"})
    <2>1. "etf" \in Fields /\ "etf" \notin Averaged \cup {"price", "short"}
      BY DEF Fields, Averaged
    <2>2. Alike(c, d, "etf") /\ d.index = c.index
      BY <1>4, <1>11, <2>1 DEF Alike, Fields
    <2>3. /\ Insider(d) = Insider(c) /\ Trend(d) = Trend(c) /\ Momentum(d) = Momentum(c)
          /\ CalmPoints(d) = CalmPoints(c) /\ ShortPoints(d) = ShortPoints(c)
      BY <2>1, <2>2, Untouched
    <2>4. FlowPoints(c) <= FlowPoints(d) /\ RelativePoints(c) <= RelativePoints(d)
      BY <1>11, <2>2, FlowUp, RelativeUp
    <2>5. Sector(c) <= Sector(d) /\ Risk(c) <= Risk(d)
      BY <1>3, <2>3, <2>4, Components
    <2> QED
      BY <1>2, <1>3, <2>3, <2>5, ScoreUp
  <1>12. CASE /\ Same({"trades"})
              /\ stock'.trades \ stock.trades \subseteq Buys(Trades)
              /\ stock.trades \ stock'.trades \subseteq Sales(Trades)
    <2>1. "trades" \in Fields /\ "trades" \notin Averaged \cup {"price", "short"}
      BY DEF Fields, Averaged
    <2>2. Alike(c, d, "trades")
      BY <1>4, <1>12, <2>1
    <2>3. /\ Trend(d) = Trend(c) /\ Momentum(d) = Momentum(c)
          /\ CalmPoints(d) = CalmPoints(c) /\ ShortPoints(d) = ShortPoints(c)
          /\ RelativePoints(d) = RelativePoints(c) /\ FlowPoints(d) = FlowPoints(c)
      BY <2>1, <2>2, Untouched
    <2>4. Buys(c.trades) \subseteq Buys(d.trades) /\ Sales(d.trades) \subseteq Sales(c.trades)
      BY <1>1, <1>12 DEF Buys, Sales
    <2>5. Sector(c) <= Sector(d) /\ Risk(c) <= Risk(d)
      BY <1>3, <2>3, Components
    <2> QED
      BY <1>2, <1>3, <2>3, <2>4, <2>5, InsiderUp, ScoreUp
  <1>13. CASE Up("price") /\ Same({"price"})
    BY <1>1, <1>7, <1>13 DEF Up
  <1>14. CASE \E f \in {"sma20", "sma200"} : Down(f) /\ stock'[f] > 0 /\ Same({f})
    BY <1>1, <1>7, <1>14 DEF Down
  <1>15. \/ Up("price") /\ Same({"price"})
         \/ \E f \in {"sma20", "sma200"} : Down(f) /\ stock'[f] > 0 /\ Same({f})
         \/ Down("rsiPrev") /\ Same({"rsiPrev"})
         \/ Down("z") /\ Same({"z"})
         \/ Down("short") /\ (HighShort(stock') \/ ~HighShort(stock)) /\ Same({"short"})
         \/ HigherClose(c.etf, d.etf) /\ Same({"etf"})
         \/ /\ Same({"trades"})
            /\ stock'.trades \ stock.trades \subseteq Buys(Trades)
            /\ stock.trades \ stock'.trades \subseteq Sales(Trades)
    <2>1. \/ Up("price") /\ Same({"price"})
          \/ \E f \in {"sma20", "sma200"} : Down(f) /\ stock'[f] > 0 /\ Same({f})
          \/ \E f \in {"rsiPrev", "z"} : Down(f) /\ Same({f})
          \/ Down("short") /\ (HighShort(stock') \/ ~HighShort(stock)) /\ Same({"short"})
          \/ HigherClose(c.etf, d.etf) /\ Same({"etf"})
          \/ /\ Same({"trades"})
             /\ stock'.trades \ stock.trades \subseteq Buys(Trades)
             /\ stock.trades \ stock'.trades \subseteq Sales(Trades)
      <3>1. Last(c.etf).close <= Last(d.etf).close <=> Last(d.etf).close >= Last(c.etf).close
        OBVIOUS
      <3> QED
        BY <1>1, <3>1, Zenon DEF Improves, HigherClose
    <2> QED
      BY <2>1, Zenon
  <1> QED
    BY <1>8, <1>9, <1>10, <1>11, <1>12, <1>13, <1>14, <1>15

(* What is better for a stock never costs it points, for every market and  *)
(* every history of trades.                                                *)
THEOREM BetterCorrect == ScoreSpec => BetterNeverCosts
  <1>1. StockOK /\ StockOK' =>
          [Scored /\ Improves => Score(stock') >= Score(stock)]_scoreVars
    BY BetterNeverWorse, ScoreAssumption, Zenon
  <1> QED
    BY <1>1, StockAlwaysOK, PTL DEF BetterNeverCosts
==============================================================================
