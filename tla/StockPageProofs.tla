--------------------------- MODULE StockPageProofs ---------------------------
(***************************************************************************)
(* For any tickers, number of loads and versions: the page shows the       *)
(* ticker asked for last, a refresh is seen by the load after it, and the  *)
(* cache has what the page shows.                                          *)
(***************************************************************************)
EXTENDS StockPage, RefreshBudget, FiniteSetTheorems, TLAPS

Ats == {"unused", "sent", "read", "body", "done"}
Flying == {"sent", "read", "body"}
Records == [ticker : Tickers \cup {None}, at : Ats, version : 0..MaxVersion,
            worker : BOOLEAN, from : Froms]
Buttons == [at : {"idle", "posted", "ok", "refused", "loading"},
            ticker : Tickers \cup {None}, load : Loads \cup {0}, wrote : 0..MaxVersion]

LEMMA Constants ==
  /\ MaxVersion \in Nat \ {0} /\ MaxLoads \in Nat \ {0}
  /\ None \notin Tickers /\ First \in Known /\ Visited \subseteq Known
BY PageAssumption

------------------------------------------------------------------------------
(* The invariant.                                                          *)

(* A load under way has a ticker; it gets a body for a ticker that the     *)
(* server knows, and only such an answer is cached.                        *)
Sensible(l) ==
  /\ l.ticker \in Tickers
  /\ l.at = "body" \/ l.from = "fallback" => l.ticker \in Known
  /\ l.at = "sent" => l.from = "fetch"
  /\ l.at # "sent" /\ l.ticker \in Known => l.version >= 1

Typed ==
  /\ TypeOK
  /\ \A i \in InFlight : Sensible(load[i])
  /\ button.at # "idle" => button.ticker \in Tickers

Coming == \E i \in InFlight : load[i].ticker = latest

(* The ticker asked for last is under way or has been drawn.               *)
LatestComes ==
  broken \/ Coming \/ (header = latest /\ (latest \in Known => body.ticker = latest))

(* What a refresh wrote is in every later answer of the server.            *)
Promised ==
  /\ \A t \in Known : promised[t] <= version[t]
  /\ button.at = "ok" => button.ticker \in Known /\ button.wrote <= version[button.ticker]
  /\ \A i \in InFlight :
       load[i].at # "sent" /\ load[i].from = "fetch" /\ load[i].ticker \in Known /\ ~crossed
         => load[i].version >= promised[load[i].ticker]
  /\ ~broken /\ ~crossed /\ ~Coming /\ body.ticker = latest /\ body.from = "fetch"
       => body.version >= promised[latest]

(* As long as no two loads of one ticker cross, each has the ticker for    *)
(* itself, on its way and on the way into the cache.                       *)
Apart ==
  ~crossed =>
    /\ \A i, j \in InFlight : load[i].ticker = load[j].ticker => i = j
    /\ \A i \in InFlight, s \in storing :
         load[i].at # "body" => load[i].ticker # s.ticker
    /\ \A s, u \in storing : s.ticker = u.ticker => s = u

(* No answer is ahead of the server, and then the cache never goes back.   *)
Forward ==
  /\ \A t \in Known : cached[t] <= version[t]
  /\ \A s \in storing : s.version <= version[s.ticker]
  /\ \A i \in InFlight :
       load[i].at # "sent" /\ load[i].ticker \in Known =>
         load[i].version <= version[load[i].ticker]
  /\ ~crossed =>
       /\ \A s \in storing : s.version >= cached[s.ticker]
       /\ \A i \in InFlight :
            load[i].at = "read" /\ load[i].ticker \in Known =>
              IF load[i].from = "fetch" THEN load[i].version >= cached[load[i].ticker]
                                        ELSE load[i].version <= cached[load[i].ticker]

(* What the cache has or will have.                                        *)
Has(t, v) == cached[t] >= v \/ \E s \in storing : s.ticker = t /\ s.version >= v

(* And it has, or will have, what the page shows or is about to show.      *)
Kept ==
  ~unkept =>
    /\ ~crossed /\ controlled
    /\ \A i \in InFlight : load[i].worker
    /\ \A i \in InFlight : load[i].at = "body" => Has(load[i].ticker, load[i].version)
    /\ body.ticker # None => Has(body.ticker, body.version)

PageInv == Typed /\ LatestComes /\ Promised /\ Apart /\ Forward /\ Kept

------------------------------------------------------------------------------
(* What the steps do to the loads.                                         *)

(* Load i goes on, or ends; the others do not notice.                      *)
OnlyLoad(i) ==
  /\ load' \in [Loads -> Records]
  /\ \A j \in Loads \ {i} : load'[j] = load[j]

LEMMA LoadTyped ==
  ASSUME TypeOK
  PROVE  /\ load \in [Loads -> Records]
         /\ \A i \in Loads : i \in InFlight <=> load[i].at \in Flying
<1>1. load \in [Loads -> Records]
  BY DEF TypeOK, Records, Ats
<1> QED
  BY <1>1 DEF InFlight, Flying

LEMMA LoadTypedNext ==
  ASSUME load' \in [Loads -> Records]
  PROVE  \A i \in Loads : i \in InFlight' <=> load'[i].at \in Flying
BY SMT DEF InFlight, Flying

LEMMA DoneTyped ==
  /\ Done \in Records /\ Unused \in Records /\ Done.at = "done" /\ Unused.at = "unused"
<1>1. 0 \in 0..MaxVersion /\ "fetch" \in Froms /\ "unused" \in Ats /\ "done" \in Ats
  BY Constants DEF Froms, Ats
<1>2. Unused \in Records /\ Unused.at = "unused"
  BY <1>1 DEF Unused, Records
<1>3. Done \in Records /\ Done.at = "done"
  BY <1>1, <1>2 DEF Done, Records
<1> QED
  BY <1>2, <1>3

LEMMA SentTyped ==
  ASSUME TypeOK, NEW t \in Tickers
  PROVE  /\ Sent(t) \in Records /\ Sent(t).ticker = t /\ Sent(t).at = "sent"
         /\ Sent(t).worker = controlled /\ Sent(t).from = "fetch"
<1>1. "sent" \in Ats /\ controlled \in BOOLEAN
  BY DEF Ats, TypeOK
<1>2. Unused \in Records /\ Unused.from = "fetch"
  BY DoneTyped DEF Unused
<1> QED
  BY <1>1, <1>2 DEF Sent, Records

LEMMA StartLoadStep ==
  ASSUME TypeOK, NEW i \in Loads, NEW t \in Tickers, StartLoad(i, t)
  PROVE  /\ OnlyLoad(i) /\ i \notin InFlight
         /\ load'[i].ticker = t /\ load'[i].at = "sent"
         /\ load'[i].worker = controlled /\ load'[i].from = "fetch"
         /\ latest' = t
         /\ ~crossed' => ~crossed /\ t \notin UnderWay
         /\ ~unkept' => ~unkept /\ ~crossed' /\ controlled
<1>1. load \in [Loads -> Records] /\ load' = [load EXCEPT ![i] = Sent(t)]
  BY LoadTyped DEF StartLoad
<1>2. /\ load' \in [Loads -> Records] /\ load'[i] = Sent(t)
      /\ \A j \in Loads \ {i} : load'[j] = load[j]
  BY <1>1, SentTyped
<1>3. crossed' = (crossed \/ t \in UnderWay) /\ unkept' = (unkept \/ crossed' \/ ~controlled)
      /\ latest' = t /\ load[i].at = "unused"
  BY DEF StartLoad
<1>4. i \notin InFlight
  BY <1>3, LoadTyped DEF Flying
<1>5. OnlyLoad(i)
  BY <1>2 DEF OnlyLoad
<1>6. /\ load'[i].ticker = t /\ load'[i].at = "sent"
      /\ load'[i].worker = controlled /\ load'[i].from = "fetch"
  BY <1>2, SentTyped
<1> QED
  BY <1>3, <1>4, <1>5, <1>6

LEMMA ReturnStep ==
  ASSUME TypeOK, NEW i \in Loads, LoadReturns(i)
  PROVE  OnlyLoad(i) /\ load'[i].at = "done" /\ button' \in {button, Idle}
<1>1. load \in [Loads -> Records] /\ load' = [load EXCEPT ![i] = Done]
  BY LoadTyped DEF LoadReturns
<1>2. load' \in [Loads -> Records] /\ load'[i] = Done
  BY <1>1, DoneTyped
<1>3. \A j \in Loads \ {i} : load'[j] = load[j]
  BY <1>1
<1> QED
  BY <1>2, <1>3, DoneTyped DEF OnlyLoad, LoadReturns

LEMMA ServeLoadStep ==
  ASSUME TypeOK, NEW i \in Loads, ServeLoad(i)
  PROVE  /\ OnlyLoad(i) /\ load[i].at = "sent" /\ load'[i].at = "read"
         /\ load'[i].ticker = load[i].ticker /\ load'[i].worker = load[i].worker
         /\ load'[i].from = load[i].from
         /\ load'[i].version = IF load[i].ticker \in Known THEN version[load[i].ticker] ELSE 0
<1> DEFINE v == IF load[i].ticker \in Known THEN version[load[i].ticker] ELSE 0
<1>1. v \in 0..MaxVersion
  BY Constants DEF TypeOK
<1>2. load \in [Loads -> Records] /\ load' = [load EXCEPT ![i].at = "read", ![i].version = v]
      /\ load[i].at = "sent"
  BY LoadTyped DEF ServeLoad
<1> HIDE DEF v
<1>3. load' \in [Loads -> Records]
  BY <1>1, <1>2 DEF Records, Ats
<1>4. /\ \A j \in Loads \ {i} : load'[j] = load[j]
      /\ load'[i].at = "read" /\ load'[i].version = v /\ load'[i].ticker = load[i].ticker
      /\ load'[i].worker = load[i].worker /\ load'[i].from = load[i].from
  BY <1>2 DEF Records
<1> QED
  BY <1>2, <1>3, <1>4 DEF OnlyLoad, v

LEMMA BodyStep ==
  ASSUME TypeOK, NEW i \in Loads, load' = [load EXCEPT ![i].at = "body"]
  PROVE  /\ OnlyLoad(i) /\ load'[i].at = "body"
         /\ load'[i].ticker = load[i].ticker /\ load'[i].worker = load[i].worker
         /\ load'[i].from = load[i].from /\ load'[i].version = load[i].version
<1>1. load \in [Loads -> Records]
  BY LoadTyped
<1>2. load' \in [Loads -> Records]
  BY <1>1 DEF Records, Ats
<1> QED
  BY <1>1, <1>2 DEF OnlyLoad, Records

LEMMA FallsBackStep ==
  ASSUME TypeOK, NEW i \in Loads, FallsBack(i)
  PROVE  /\ OnlyLoad(i) /\ load[i].at \in {"sent", "read"} /\ load'[i].at = "read"
         /\ load'[i].ticker = load[i].ticker /\ load'[i].worker = load[i].worker
         /\ load'[i].from = "fallback" /\ load[i].ticker \in Known
         /\ load'[i].version = cached[load[i].ticker] /\ load'[i].version >= 1
<1> DEFINE v == cached[load[i].ticker]
<1>1. /\ load[i].at \in {"sent", "read"} /\ load[i].ticker \in Known /\ v # 0
      /\ load' = [load EXCEPT ![i].at = "read", ![i].version = v, ![i].from = "fallback"]
  BY DEF FallsBack, FallbackOf
<1>2. v \in 1..MaxVersion
  BY <1>1, Constants DEF TypeOK
<1>3. load \in [Loads -> Records]
  BY LoadTyped
<1> HIDE DEF v
<1> DEFINE r == [load[i] EXCEPT !.at = "read", !.version = v, !.from = "fallback"]
<1>a. v \in 0..MaxVersion /\ "read" \in Ats /\ "fallback" \in Froms /\ load[i] \in Records
  BY <1>2, <1>3, Constants DEF Ats, Froms
<1>b. r \in Records
  BY <1>a DEF Records
<1>c. load' = [load EXCEPT ![i] = r]
  BY <1>1, <1>3
<1> HIDE DEF r
<1>4. load' \in [Loads -> Records]
  BY <1>b, <1>c, <1>3
<1>5. /\ \A j \in Loads \ {i} : load'[j] = load[j]
      /\ load'[i].at = "read" /\ load'[i].version = v /\ load'[i].ticker = load[i].ticker
      /\ load'[i].worker = load[i].worker /\ load'[i].from = "fallback"
  BY <1>1, <1>3 DEF Records
<1> QED
  BY <1>1, <1>2, <1>4, <1>5, Constants DEF OnlyLoad, v
------------------------------------------------------------------------------
(* Types.                                                                  *)

OnlyTypes ==
  /\ latest \in Tickers /\ header \in Tickers \cup {None}
  /\ body \in [ticker : Known \cup {None}, version : 0..MaxVersion, from : Froms]
  /\ load \in [Loads -> Records]
  /\ button \in Buttons
  /\ version \in [Known -> 1..MaxVersion]
  /\ controlled \in BOOLEAN
  /\ cached \in [Known -> 0..MaxVersion]
  /\ storing \subseteq [ticker : Known, version : 1..MaxVersion]
  /\ broken \in BOOLEAN /\ crossed \in BOOLEAN /\ unkept \in BOOLEAN
  /\ promised \in [Known -> 0..MaxVersion]

LEMMA TypesAre == TypeOK <=> OnlyTypes
BY DEF TypeOK, OnlyTypes, Records, Ats, Buttons

LEMMA TypesAreNext == OnlyTypes' => TypeOK'
BY DEF TypeOK, OnlyTypes, Records, Ats, Buttons

(* What the proofs use of the types.                                       *)
LEMMA Versions ==
  ASSUME TypeOK
  PROVE  /\ \A t \in Known : /\ version[t] \in Nat /\ cached[t] \in Nat /\ promised[t] \in Nat
                             /\ t # None /\ t \in Tickers
         /\ \A i \in Loads : load[i].version \in Nat
         /\ \A s \in storing : s.ticker \in Known /\ s.version \in Nat
         /\ body.version \in Nat /\ body.ticker \in Known \cup {None}
         /\ button.wrote \in Nat
<1>1. \A t \in Known : /\ version[t] \in Nat /\ cached[t] \in Nat /\ promised[t] \in Nat
  BY Constants, TypesAre DEF OnlyTypes, Buttons
<1>2. \A t \in Known : t # None /\ t \in Tickers
  BY Constants DEF Tickers
<1>3. \A i \in Loads : load[i].version \in Nat
  BY Constants, TypesAre DEF OnlyTypes, Records
<1>4. /\ \A s \in storing : s.ticker \in Known /\ s.version \in Nat
      /\ body.version \in Nat /\ body.ticker \in Known \cup {None} /\ button.wrote \in Nat
  BY Constants, TypesAre DEF OnlyTypes, Buttons
<1> QED
  BY <1>1, <1>2, <1>3, <1>4

LEMMA ButtonTyped ==
  /\ Idle \in Buttons
  /\ Idle.at = "idle"
<1>1. 0 \in 0..MaxVersion
  BY Constants
<1> QED
  BY <1>1 DEF Idle, Buttons

------------------------------------------------------------------------------
(* The steps that start a load.                                            *)

LEMMA Starts ==
  ASSUME PageInv, NEW i \in Loads, NEW t \in Tickers, StartLoad(i, t),
         UNCHANGED <<header, body, version, worker, broken>>,
         promised' \in [Known -> 0..MaxVersion],
         \A u \in Known : u # t => promised'[u] = promised[u]
  PROVE  LatestComes' /\ Apart' /\ Forward' /\ Kept'
<1>1. TypeOK
  BY DEF PageInv, Typed
<1>2. /\ OnlyLoad(i) /\ i \notin InFlight
      /\ load'[i].ticker = t /\ load'[i].at = "sent"
      /\ load'[i].worker = controlled /\ load'[i].from = "fetch"
      /\ latest' = t
      /\ ~crossed' => ~crossed /\ t \notin UnderWay
      /\ ~unkept' => ~unkept /\ ~crossed' /\ controlled
  BY <1>1, StartLoadStep
<1>3. /\ \A j \in Loads : j \in InFlight <=> load[j].at \in Flying
      /\ \A j \in Loads : j \in InFlight' <=> load'[j].at \in Flying
  BY <1>1, <1>2, LoadTyped, LoadTypedNext DEF OnlyLoad
<1>4. /\ InFlight' = InFlight \cup {i} /\ InFlight \subseteq Loads
      /\ \A j \in InFlight : j # i /\ load'[j] = load[j]
  BY <1>2, <1>3 DEF OnlyLoad, Flying, InFlight
<1>5. t \notin UnderWay => /\ \A j \in InFlight : load[j].ticker # t
                           /\ \A s \in storing : s.ticker # t
  BY DEF UnderWay
<1>6. UNCHANGED <<header, body, version, controlled, cached, storing, broken>>
  BY DEF worker
<1>7. Coming'
  BY <1>2, <1>4 DEF Coming
<1>8. LatestComes'
  BY <1>7 DEF LatestComes
<1>9. Apart'
  BY <1>2, <1>4, <1>5, <1>6 DEF Apart, PageInv
<1>10. Forward'
  BY <1>2, <1>4, <1>6 DEF Forward, PageInv
<1>11. Kept'
  BY <1>2, <1>4, <1>6 DEF Kept, Has, PageInv
<1> QED
  BY <1>8, <1>9, <1>10, <1>11

LEMMA StartsTyped ==
  ASSUME PageInv, NEW i \in Loads, NEW t \in Tickers, StartLoad(i, t),
         UNCHANGED <<header, body, version, worker, broken>>,
         promised' \in [Known -> 0..MaxVersion],
         button' \in Buttons,
         button'.at # "idle" => button'.ticker \in Tickers
  PROVE  Typed'
<1>1. TypeOK /\ OnlyTypes
  BY TypesAre DEF PageInv, Typed
<1>2. /\ OnlyLoad(i) /\ i \notin InFlight
      /\ load'[i].ticker = t /\ load'[i].at = "sent" /\ load'[i].from = "fetch"
      /\ latest' = t
  BY <1>1, StartLoadStep
<1>3. /\ \A j \in Loads : j \in InFlight <=> load[j].at \in Flying
      /\ \A j \in Loads : j \in InFlight' <=> load'[j].at \in Flying
  BY <1>1, <1>2, LoadTyped, LoadTypedNext DEF OnlyLoad
<1>4. crossed' \in BOOLEAN /\ unkept' \in BOOLEAN
  BY DEF StartLoad
<1>5. OnlyTypes'
  BY <1>1, <1>2, <1>4 DEF OnlyTypes, OnlyLoad, worker
<1>6. Sensible(load'[i])
  BY <1>2 DEF Sensible
<1>7. \A j \in InFlight' : j # i => j \in InFlight /\ load'[j] = load[j]
  BY <1>2, <1>3 DEF OnlyLoad, InFlight
<1> QED
  BY <1>5, <1>6, <1>7, TypesAreNext DEF Typed, PageInv

LEMMA SearchKeeps == PageInv /\ Search => PageInv'
<1> SUFFICES ASSUME PageInv, NEW i \in Loads, NEW t \in Tickers, StartLoad(i, t),
                    UNCHANGED <<header, body, button, version, worker, broken, promised>>
             PROVE  PageInv'
  BY DEF Search
<1>1. TypeOK /\ OnlyTypes
  BY TypesAre DEF PageInv, Typed
<1>2. Typed'
  BY <1>1, StartsTyped DEF PageInv, Typed, OnlyTypes
<1>3. LatestComes' /\ Apart' /\ Forward' /\ Kept'
  BY <1>1, Starts DEF OnlyTypes
<1>4. Promised'
  <2>1. /\ OnlyLoad(i) /\ load'[i].ticker = t /\ load'[i].at = "sent" /\ latest' = t
        /\ ~crossed' => ~crossed
    BY <1>1, StartLoadStep
  <2>2. /\ \A j \in Loads : j \in InFlight <=> load[j].at \in Flying
        /\ \A j \in Loads : j \in InFlight' <=> load'[j].at \in Flying
    BY <1>1, <2>1, LoadTyped, LoadTypedNext DEF OnlyLoad
  <2>3. Coming'
    BY <2>1, <2>2 DEF Coming, Flying
  <2>4. \A j \in InFlight' : j = i \/ (j \in InFlight /\ load'[j] = load[j])
    BY <2>1, <2>2 DEF OnlyLoad, InFlight
  <2> QED
    BY <2>1, <2>3, <2>4 DEF Promised, PageInv
<1> QED
  BY <1>2, <1>3, <1>4 DEF PageInv

LEMMA RefreshDoneKeeps == PageInv /\ RefreshDone => PageInv'
<1> SUFFICES ASSUME PageInv, RefreshDone PROVE PageInv'
  OBVIOUS
<1> DEFINE t == button.ticker
<1>1. TypeOK /\ OnlyTypes
  BY TypesAre DEF PageInv, Typed
<1>2. PICK i \in Loads : StartLoad(i, t) /\ button' = [button EXCEPT !.at = "loading", !.load = i]
  BY DEF RefreshDone
<1>3. t \in Known /\ t \in Tickers /\ button.wrote <= version[t]
  BY <1>1, Versions DEF RefreshDone, PageInv, Promised
<1>4. /\ promised' = [promised EXCEPT ![t] = button.wrote]
      /\ UNCHANGED <<header, body, version, worker, broken>>
  BY DEF RefreshDone
<1>5. promised' \in [Known -> 0..MaxVersion]
  BY <1>1, <1>4 DEF OnlyTypes, Buttons
<1>6. \A u \in Known : promised'[u] = IF u = t THEN button.wrote ELSE promised[u]
  BY <1>1, <1>4 DEF OnlyTypes
<1>7. /\ button' \in Buttons
      /\ button'.at = "loading" /\ button'.ticker = t
  BY <1>1, <1>2 DEF OnlyTypes, Buttons
<1> HIDE DEF t
<1>8. Typed'
  BY <1>2, <1>3, <1>4, <1>5, <1>7, StartsTyped
<1>9. LatestComes' /\ Apart' /\ Forward' /\ Kept'
  BY <1>2, <1>3, <1>4, <1>5, <1>6, Starts
<1>10. Promised'
  <2>1. /\ OnlyLoad(i) /\ load'[i].ticker = t /\ load'[i].at = "sent" /\ latest' = t
        /\ ~crossed' => ~crossed /\ t \notin UnderWay
    BY <1>1, <1>2, <1>3, StartLoadStep
  <2>2. /\ \A j \in Loads : j \in InFlight <=> load[j].at \in Flying
        /\ \A j \in Loads : j \in InFlight' <=> load'[j].at \in Flying
    BY <1>1, <2>1, LoadTyped, LoadTypedNext DEF OnlyLoad
  <2>3. Coming'
    BY <2>1, <2>2 DEF Coming, Flying
  <2>4. \A j \in InFlight' : j = i \/ (j \in InFlight /\ load'[j] = load[j])
    BY <2>1, <2>2 DEF OnlyLoad, InFlight
  <2>5. ~crossed' => \A j \in InFlight : load[j].ticker # t
    BY <2>1 DEF UnderWay
  <2> QED
    BY <1>3, <1>4, <1>6, <1>7, <2>1, <2>3, <2>4, <2>5 DEF Promised, PageInv
<1> QED
  BY <1>8, <1>9, <1>10 DEF PageInv
------------------------------------------------------------------------------
(* The steps of a load.                                                    *)

LEMMA ServeLoadKeeps ==
  ASSUME PageInv, NEW i \in Loads, ServeLoad(i)
  PROVE  PageInv'
<1>1. TypeOK /\ OnlyTypes
  BY TypesAre DEF PageInv, Typed
<1>2. /\ OnlyLoad(i) /\ load[i].at = "sent" /\ load'[i].at = "read"
      /\ load'[i].ticker = load[i].ticker /\ load'[i].worker = load[i].worker
      /\ load'[i].from = load[i].from
      /\ load'[i].version = IF load[i].ticker \in Known THEN version[load[i].ticker] ELSE 0
  BY <1>1, ServeLoadStep
<1>3. /\ \A j \in Loads : j \in InFlight <=> load[j].at \in Flying
      /\ \A j \in Loads : j \in InFlight' <=> load'[j].at \in Flying
  BY <1>1, <1>2, LoadTyped, LoadTypedNext DEF OnlyLoad
<1>4. /\ InFlight' = InFlight /\ InFlight \subseteq Loads /\ i \in InFlight
      /\ \A j \in InFlight : j # i => load'[j] = load[j]
      /\ \A j \in InFlight : load'[j].ticker = load[j].ticker
      /\ \A j \in InFlight : load'[j].at = "body" => j # i
  BY <1>2, <1>3 DEF OnlyLoad, Flying, InFlight
<1>5. UNCHANGED <<latest, header, body, button, version, controlled, cached, storing,
                  broken, crossed, unkept, promised>>
  BY DEF ServeLoad, worker, history
<1>6. Typed'
  <2>1. OnlyTypes'
    BY <1>1, <1>2, <1>5 DEF OnlyTypes, OnlyLoad
  <2>2. load[i].ticker \in Known => load'[i].version >= 1
    BY <1>1, <1>2, Constants DEF OnlyTypes
  <2>3. Sensible(load'[i])
    BY <1>2, <1>4, <2>2 DEF PageInv, Typed, Sensible
  <2> QED
    BY <1>4, <1>5, <2>1, <2>3, TypesAreNext DEF PageInv, Typed
<1>7. LatestComes'
  BY <1>4, <1>5 DEF PageInv, LatestComes, Coming
<1>8. Promised'
  BY <1>2, <1>4, <1>5 DEF PageInv, Promised, Coming
<1>9. Apart'
  BY <1>2, <1>4, <1>5 DEF PageInv, Apart
<1>10. Forward'
  <2>2. load[i].ticker \in Known => load'[i].version >= cached[load[i].ticker]
    BY <1>2 DEF PageInv, Forward
  <2>3. load[i].from = "fetch"
    BY <1>2, <1>4 DEF PageInv, Typed, Sensible
  <2>4. load[i].ticker \in Known => load'[i].version <= version[load[i].ticker]
    BY <1>1, <1>2, Versions
  <2> QED
    BY <1>2, <1>4, <1>5, <2>2, <2>3, <2>4 DEF PageInv, Forward
<1>11. Kept'
  BY <1>2, <1>4, <1>5 DEF PageInv, Kept, Has
<1> QED
  BY <1>6, <1>7, <1>8, <1>9, <1>10, <1>11 DEF PageInv

LEMMA FallsBackKeeps ==
  ASSUME PageInv, NEW i \in Loads, FallsBack(i)
  PROVE  PageInv'
<1>1. TypeOK /\ OnlyTypes
  BY TypesAre DEF PageInv, Typed
<1>2. /\ OnlyLoad(i) /\ load[i].at \in {"sent", "read"} /\ load'[i].at = "read"
      /\ load'[i].ticker = load[i].ticker /\ load'[i].worker = load[i].worker
      /\ load'[i].from = "fallback" /\ load[i].ticker \in Known
      /\ load'[i].version = cached[load[i].ticker] /\ load'[i].version >= 1
  BY <1>1, FallsBackStep
<1>3. /\ \A j \in Loads : j \in InFlight <=> load[j].at \in Flying
      /\ \A j \in Loads : j \in InFlight' <=> load'[j].at \in Flying
  BY <1>1, <1>2, LoadTyped, LoadTypedNext DEF OnlyLoad
<1>4. /\ InFlight' = InFlight /\ InFlight \subseteq Loads /\ i \in InFlight
      /\ \A j \in InFlight : j # i => load'[j] = load[j]
      /\ \A j \in InFlight : load'[j].ticker = load[j].ticker
      /\ \A j \in InFlight : load'[j].at = "body" => j # i
  BY <1>2, <1>3 DEF OnlyLoad, Flying, InFlight
<1>5. UNCHANGED <<latest, header, body, button, version, controlled, cached, storing,
                  broken, crossed, unkept, promised>>
  BY DEF FallsBack, worker, history
<1>6. Typed'
  <2>1. OnlyTypes'
    BY <1>1, <1>2, <1>5 DEF OnlyTypes, OnlyLoad
  <2>2. Sensible(load'[i])
    BY <1>2, <1>4 DEF PageInv, Typed, Sensible
  <2> QED
    BY <1>4, <1>5, <2>1, <2>2, TypesAreNext DEF PageInv, Typed
<1>7. LatestComes'
  BY <1>4, <1>5 DEF PageInv, LatestComes, Coming
<1>8. Promised'
  BY <1>2, <1>4, <1>5 DEF PageInv, Promised, Coming
<1>9. Apart'
  BY <1>2, <1>4, <1>5 DEF PageInv, Apart
<1>10. Forward'
  <2>1. cached[load[i].ticker] \in Nat
    BY <1>1, <1>2, Versions
  <2> QED
    BY <1>2, <1>4, <1>5, <2>1 DEF PageInv, Forward
<1>11. Kept'
  BY <1>2, <1>4, <1>5 DEF PageInv, Kept, Has
<1> QED
  BY <1>6, <1>7, <1>8, <1>9, <1>10, <1>11 DEF PageInv

(* What is left when a load has returned.                                  *)
LEMMA Ends ==
  ASSUME PageInv, NEW i \in InFlight, LoadReturns(i), UNCHANGED promised
  PROVE  /\ InFlight \subseteq Loads
         /\ InFlight' = InFlight \ {i}
         /\ \A j \in InFlight' : load'[j] = load[j]
         /\ load' \in [Loads -> Records]
         /\ button' \in Buttons
         /\ button'.at # "idle" => button' = button
<1>1. TypeOK /\ OnlyTypes
  BY TypesAre DEF PageInv, Typed
<1>2. i \in Loads /\ InFlight \subseteq Loads
  BY DEF InFlight
<1>3. OnlyLoad(i) /\ load'[i].at = "done" /\ button' \in {button, Idle}
  BY <1>1, <1>2, ReturnStep
<1>4. /\ \A j \in Loads : j \in InFlight <=> load[j].at \in Flying
      /\ \A j \in Loads : j \in InFlight' <=> load'[j].at \in Flying
  BY <1>1, <1>3, LoadTyped, LoadTypedNext DEF OnlyLoad
<1>5. InFlight' \subseteq Loads
  BY DEF InFlight
<1>6. InFlight' = InFlight \ {i} /\ \A j \in InFlight' : load'[j] = load[j]
  BY <1>2, <1>3, <1>4, <1>5 DEF OnlyLoad, Flying
<1>7. /\ button' \in Buttons
      /\ button'.at # "idle" => button' = button
  BY <1>1, <1>3, ButtonTyped DEF OnlyTypes
<1> QED
  BY <1>2, <1>3, <1>6, <1>7 DEF OnlyLoad

LEMMA LoadFailsKeeps ==
  ASSUME PageInv, NEW i \in Loads, LoadFails(i)
  PROVE  PageInv'
<1>1. TypeOK /\ OnlyTypes
  BY TypesAre DEF PageInv, Typed
<1>2. i \in InFlight
  BY DEF LoadFails, InFlight
<1>3. /\ LoadReturns(i) /\ broken'
      /\ UNCHANGED <<latest, header, body, version, controlled, cached, storing,
                     crossed, unkept, promised>>
  BY DEF LoadFails, worker
<1>4. /\ InFlight' = InFlight \ {i}
      /\ \A j \in InFlight' : load'[j] = load[j]
      /\ load' \in [Loads -> Records]
      /\ button' \in Buttons
      /\ button'.at # "idle" => button' = button
  BY <1>2, <1>3, Ends
<1>5. broken' \in BOOLEAN
  BY DEF LoadFails
<1>6. OnlyTypes'
  BY <1>1, <1>3, <1>4, <1>5 DEF OnlyTypes
<1>7. Typed'
  BY <1>3, <1>4, <1>6, TypesAreNext DEF PageInv, Typed
<1>8. LatestComes'
  BY <1>3 DEF LatestComes
<1>9. Promised'
  BY <1>3, <1>4 DEF PageInv, Promised
<1>10. Apart' /\ Forward'
  BY <1>3, <1>4 DEF PageInv, Apart, Forward
<1>11. Kept'
  BY <1>3, <1>4 DEF PageInv, Kept, Has
<1> QED
  BY <1>7, <1>8, <1>9, <1>10, <1>11 DEF PageInv

LEMMA RenderKeeps ==
  ASSUME PageInv, NEW i \in Loads, Render(i)
  PROVE  PageInv'
<1>1. TypeOK /\ OnlyTypes
  BY TypesAre DEF PageInv, Typed
<1>2. i \in InFlight /\ load[i].at = "body" /\ load[i] \in Records
  BY <1>1 DEF Render, InFlight, OnlyTypes
<1>3. LoadReturns(i)
      /\ UNCHANGED <<latest, version, controlled, cached, storing,
                     broken, crossed, unkept, promised>>
  BY DEF Render, worker, history
<1>4. /\ InFlight' = InFlight \ {i}
      /\ \A j \in InFlight' : load'[j] = load[j]
      /\ load' \in [Loads -> Records]
      /\ button' \in Buttons
      /\ button'.at # "idle" => button' = button
  BY <1>2, <1>3, Ends
<1>5. load[i].ticker \in Known /\ load[i].ticker \in Tickers /\ load[i].ticker # None
  BY <1>1, <1>2, Versions DEF PageInv, Typed, Sensible
<1>6. CASE load[i].ticker # latest
  <2>1. UNCHANGED <<header, body>>
    BY <1>6 DEF Render, Superseded
  <2>2. OnlyTypes'
    BY <1>1, <1>3, <1>4, <2>1 DEF OnlyTypes
  <2>3. Typed'
    BY <1>3, <1>4, <2>2, TypesAreNext DEF PageInv, Typed
  <2>4. Coming' <=> Coming
    BY <1>3, <1>4, <1>6 DEF Coming
  <2>5. LatestComes' /\ Promised'
    BY <1>3, <1>4, <2>1, <2>4 DEF PageInv, LatestComes, Promised
  <2>6. Apart' /\ Forward'
    BY <1>3, <1>4 DEF PageInv, Apart, Forward
  <2>7. Kept'
    BY <1>3, <1>4, <2>1 DEF PageInv, Kept, Has
  <2> QED
    BY <2>3, <2>5, <2>6, <2>7 DEF PageInv
<1>7. CASE load[i].ticker = latest
  <2>1. /\ header' = latest
        /\ body' = [ticker |-> latest, version |-> load[i].version, from |-> load[i].from]
    BY <1>7 DEF Render, Superseded
  <2>2. body'.ticker = latest /\ body'.version = load[i].version /\ body'.from = load[i].from
    BY <2>1
  <2>3. body' \in [ticker : Known \cup {None}, version : 0..MaxVersion, from : Froms]
    BY <1>2, <1>5, <1>7, <2>1 DEF Records
  <2>4. OnlyTypes'
    BY <1>1, <1>3, <1>4, <1>5, <1>7, <2>1, <2>3 DEF OnlyTypes
  <2>5. Typed'
    BY <1>3, <1>4, <2>4, TypesAreNext DEF PageInv, Typed
  <2>6. LatestComes'
    BY <1>3, <2>1, <2>2 DEF LatestComes
  <2>7. Promised'
    BY <1>2, <1>3, <1>4, <1>5, <1>7, <2>2 DEF PageInv, Promised
  <2>8. Apart' /\ Forward'
    BY <1>3, <1>4 DEF PageInv, Apart, Forward
  <2>9. Kept'
    BY <1>2, <1>3, <1>4, <1>7, <2>2 DEF PageInv, Kept, Has
  <2> QED
    BY <2>5, <2>6, <2>7, <2>8, <2>9 DEF PageInv
<1> QED
  BY <1>6, <1>7

(* An answer on its way into the cache is the newest of its ticker.        *)
LEMMA KeepsAdds ==
  ASSUME PageInv, NEW i \in InFlight, load[i].at = "read", load[i].ticker \in Known, Keeps(i)
  PROVE  /\ storing' \subseteq [ticker : Known, version : 1..MaxVersion]
         /\ storing \subseteq storing'
         /\ \A s \in storing' \ storing : s = AnswerOf(i) /\ load[i].from = "fetch"
         /\ ~unkept /\ load[i].from = "fetch" => AnswerOf(i) \in storing'
         /\ AnswerOf(i).ticker = load[i].ticker /\ AnswerOf(i).version = load[i].version
<1>1. storing \subseteq [ticker : Known, version : 1..MaxVersion]
  BY TypesAre DEF PageInv, Typed, OnlyTypes
<1>2. load[i].version \in 0..MaxVersion
  BY TypesAre DEF PageInv, Typed, OnlyTypes, Records, InFlight
<1>3. load[i].version >= 1
  BY DEF PageInv, Typed, Sensible
<1>4. load[i].version \in 1..MaxVersion
  BY <1>2, <1>3, Constants
<1>5. AnswerOf(i) \in [ticker : Known, version : 1..MaxVersion]
  BY <1>4 DEF AnswerOf
<1>6. ~unkept => load[i].worker
  BY DEF PageInv, Kept
<1>7. AnswerOf(i).ticker = load[i].ticker /\ AnswerOf(i).version = load[i].version
  BY DEF AnswerOf
<1> HIDE DEF AnswerOf
<1> QED
  BY <1>1, <1>5, <1>6, <1>7 DEF Keeps

LEMMA AnswerRead ==
  ASSUME PageInv, NEW i \in InFlight, load[i].at = "read", load[i].ticker \in Known, Keeps(i),
         UNCHANGED <<version, cached, crossed, unkept>>,
         InFlight' \subseteq InFlight,
         \A j \in InFlight' : j # i => load'[j] = load[j],
         i \in InFlight' => /\ load'[i].at = "body"
                            /\ load'[i].ticker = load[i].ticker /\ load'[i].from = load[i].from
                            /\ load'[i].version = load[i].version
  PROVE  Apart' /\ Forward'
<1>1. /\ \A s \in storing' : s \in storing \/ (s = AnswerOf(i) /\ load[i].from = "fetch")
      /\ AnswerOf(i).ticker = load[i].ticker /\ AnswerOf(i).version = load[i].version
  BY KeepsAdds
<1>2. Apart'
  <2> SUFFICES ASSUME ~crossed PROVE Apart'
    BY DEF Apart
  <2>1. \A j \in InFlight : load[j].ticker = load[i].ticker => j = i
    BY DEF PageInv, Apart
  <2>2. \A s \in storing : s.ticker # load[i].ticker
    BY DEF PageInv, Apart
  <2>3. \A s, u \in storing' : s.ticker = u.ticker => s = u
    BY <1>1, <2>2 DEF PageInv, Apart
  <2>4. \A j \in InFlight', s \in storing' : load'[j].at # "body" => load'[j].ticker # s.ticker
    BY <1>1, <2>1 DEF PageInv, Apart
  <2>5. \A j, k \in InFlight' : load'[j].ticker = load'[k].ticker => j = k
    BY DEF PageInv, Apart
  <2> QED
    BY <2>3, <2>4, <2>5 DEF Apart
<1>3. Forward'
  <2>1. ~crossed /\ load[i].from = "fetch" => AnswerOf(i).version >= cached[AnswerOf(i).ticker]
    BY <1>1 DEF PageInv, Forward
  <2>2. \A s \in storing' : ~crossed => s.version >= cached[s.ticker]
    BY <1>1, <2>1 DEF PageInv, Forward
  <2>3. \A s \in storing' : s.version <= version[s.ticker]
    BY <1>1 DEF PageInv, Forward
  <2> QED
    BY <2>2, <2>3 DEF PageInv, Forward
<1> QED
  BY <1>2, <1>3

LEMMA AnsweredKeeps ==
  ASSUME PageInv, NEW i \in Loads, Answered(i)
  PROVE  PageInv'
<1>1. TypeOK /\ OnlyTypes
  BY TypesAre DEF PageInv, Typed
<1>2. i \in InFlight /\ load[i].at = "read" /\ load[i] \in Records
  BY <1>1 DEF Answered, InFlight, OnlyTypes
<1>3. UNCHANGED <<latest, body, version, controlled, cached, crossed, unkept, promised>>
  BY DEF Answered
<1>4. load[i].ticker \in Tickers
  BY <1>2 DEF PageInv, Typed, Sensible
<1>5. CASE load[i].ticker \in Known /\ load[i].ticker # latest /\ LoadReturns(i)
           /\ Keeps(i) /\ UNCHANGED <<header, broken>>
  <2>1. /\ InFlight' = InFlight \ {i}
        /\ \A j \in InFlight' : load'[j] = load[j]
        /\ load' \in [Loads -> Records]
        /\ button' \in Buttons
        /\ button'.at # "idle" => button' = button
    BY <1>2, <1>3, <1>5, Ends
  <2>2. /\ storing' \subseteq [ticker : Known, version : 1..MaxVersion]
        /\ storing \subseteq storing'
    BY <1>2, <1>5, KeepsAdds
  <2>3. OnlyTypes'
    BY <1>1, <1>3, <1>5, <2>1, <2>2 DEF OnlyTypes
  <2>4. Typed'
    BY <1>3, <2>1, <2>3, TypesAreNext DEF PageInv, Typed
  <2>5. Coming' <=> Coming
    BY <1>3, <1>5, <2>1 DEF Coming
  <2>6. LatestComes' /\ Promised'
    BY <1>3, <1>5, <2>1, <2>5 DEF PageInv, LatestComes, Promised
  <2>7. Apart' /\ Forward'
    BY <1>2, <1>3, <1>5, <2>1, AnswerRead
  <2>8. Kept'
    BY <1>3, <2>1, <2>2 DEF PageInv, Kept, Has
  <2> QED
    BY <2>4, <2>6, <2>7, <2>8 DEF PageInv
<1>6. CASE load[i].ticker \in Known /\ load' = [load EXCEPT ![i].at = "body"]
           /\ Keeps(i) /\ UNCHANGED <<header, broken, button>>
  <2>1. /\ OnlyLoad(i) /\ load'[i].at = "body"
        /\ load'[i].ticker = load[i].ticker /\ load'[i].worker = load[i].worker
        /\ load'[i].from = load[i].from /\ load'[i].version = load[i].version
    BY <1>1, <1>6, BodyStep
  <2>2. /\ \A j \in Loads : j \in InFlight <=> load[j].at \in Flying
        /\ \A j \in Loads : j \in InFlight' <=> load'[j].at \in Flying
    BY <1>1, <2>1, LoadTyped, LoadTypedNext DEF OnlyLoad
  <2>3. /\ InFlight' = InFlight /\ InFlight \subseteq Loads
        /\ \A j \in InFlight : j # i => load'[j] = load[j]
        /\ \A j \in InFlight : load'[j].ticker = load[j].ticker
    BY <1>2, <2>1, <2>2 DEF OnlyLoad, Flying, InFlight
  <2>4. /\ storing' \subseteq [ticker : Known, version : 1..MaxVersion]
        /\ storing \subseteq storing'
        /\ ~unkept /\ load[i].from = "fetch" => AnswerOf(i) \in storing'
        /\ AnswerOf(i).ticker = load[i].ticker /\ AnswerOf(i).version = load[i].version
    BY <1>2, <1>6, KeepsAdds
  <2>5. OnlyTypes'
    BY <1>1, <1>3, <1>6, <2>1, <2>4 DEF OnlyTypes, OnlyLoad
  <2>6. Sensible(load'[i])
    BY <1>2, <1>6, <2>1 DEF PageInv, Typed, Sensible
  <2>7. Typed'
    BY <1>6, <2>3, <2>5, <2>6, TypesAreNext DEF PageInv, Typed
  <2>8. LatestComes'
    BY <1>3, <1>6, <2>3 DEF PageInv, LatestComes, Coming
  <2>9. Promised'
    BY <1>2, <1>3, <1>6, <2>1, <2>3 DEF PageInv, Promised, Coming
  <2>10. Apart' /\ Forward'
    BY <1>2, <1>3, <1>6, <2>1, <2>3, AnswerRead
  <2>11. Kept'
    <3> SUFFICES ASSUME ~unkept PROVE Kept'
      BY <1>3 DEF Kept
    <3>1. \A t, v : Has(t, v) => Has(t, v)'
      BY <1>3, <2>4 DEF Has
    <3>2. load[i].version \in Nat /\ cached[load[i].ticker] \in Nat
      BY <1>1, <1>2, <1>6, Versions DEF InFlight
    <3>3. CASE load[i].from = "fetch"
      <4>1. Has(load[i].ticker, load[i].version)'
        BY <2>1, <2>4, <3>2, <3>3 DEF Has
      <4> QED
        BY <1>3, <2>1, <2>3, <3>1, <4>1 DEF PageInv, Kept
    <3>4. CASE load[i].from # "fetch"
      <4>1. load[i].version <= cached[load[i].ticker]
        BY <1>2, <1>6, <3>4 DEF PageInv, Kept, Forward
      <4>2. Has(load[i].ticker, load[i].version)'
        BY <1>3, <2>1, <3>2, <4>1 DEF Has
      <4> QED
        BY <1>3, <2>1, <2>3, <3>1, <4>2 DEF PageInv, Kept
    <3> QED
      BY <3>3, <3>4
  <2> QED
    BY <2>7, <2>8, <2>9, <2>10, <2>11 DEF PageInv
<1>7. CASE /\ header' = IF Superseded(i) THEN header ELSE load[i].ticker
           /\ broken' = (broken \/ load[i].ticker \in Known)
           /\ LoadReturns(i)
           /\ UNCHANGED storing
  <2>1. /\ InFlight' = InFlight \ {i}
        /\ \A j \in InFlight' : load'[j] = load[j]
        /\ load' \in [Loads -> Records]
        /\ button' \in Buttons
        /\ button'.at # "idle" => button' = button
    BY <1>2, <1>3, <1>7, Ends
  <2>2. broken' \in BOOLEAN /\ header' \in Tickers \cup {None}
    BY <1>1, <1>4, <1>7 DEF OnlyTypes
  <2>3. OnlyTypes'
    BY <1>1, <1>3, <1>7, <2>1, <2>2 DEF OnlyTypes
  <2>4. Typed'
    BY <1>3, <2>1, <2>3, TypesAreNext DEF PageInv, Typed
  <2>5. /\ load[i].ticker # latest => (Coming' <=> Coming)
        /\ load[i].ticker # latest => header' = header
        /\ load[i].ticker = latest => header' = latest
    BY <1>3, <1>7, <2>1 DEF Coming, Superseded
  <2>6. LatestComes'
    BY <1>3, <1>7, <2>5 DEF PageInv, LatestComes
  <2>7. body.ticker \in Known \cup {None} /\ None \notin Tickers
    BY <1>1, Constants, Versions
  <2>8. Promised'
    BY <1>3, <1>4, <1>7, <2>1, <2>5, <2>7 DEF PageInv, Promised
  <2>9. Apart' /\ Forward'
    BY <1>3, <1>7, <2>1 DEF PageInv, Apart, Forward
  <2>10. Kept'
    BY <1>3, <1>7, <2>1 DEF PageInv, Kept, Has
  <2> QED
    BY <2>4, <2>6, <2>8, <2>9, <2>10 DEF PageInv
<1> QED
  BY <1>5, <1>6, <1>7 DEF Answered, Superseded

------------------------------------------------------------------------------
(* The other steps.                                                        *)

(* An answer that reaches the cache replaces none that is newer.           *)
LEMMA StoreKeeps == PageInv /\ Store => PageInv'
<1> SUFFICES ASSUME PageInv, NEW s \in storing, storing' = storing \ {s},
                    \/ cached' = [cached EXCEPT ![s.ticker] = s.version] /\ UNCHANGED unkept
                    \/ unkept' = TRUE /\ UNCHANGED cached,
                    UNCHANGED <<page, version, controlled, broken, crossed, promised>>
             PROVE  PageInv'
  BY DEF Store
<1>1. TypeOK /\ OnlyTypes
  BY TypesAre DEF PageInv, Typed
<1>2. UNCHANGED <<latest, header, body, load, button, version, controlled,
               broken, crossed, promised>> /\ InFlight' = InFlight
  BY DEF page, InFlight
<1>3. s.ticker \in Known /\ s.version \in 1..MaxVersion /\ s.version \in Nat
  BY <1>1, Constants DEF OnlyTypes
<1>4. /\ cached' \in [Known -> 0..MaxVersion] /\ unkept' \in BOOLEAN
      /\ \A t \in Known : cached'[t] = cached[t] \/ (t = s.ticker /\ cached'[t] = s.version)
      /\ ~unkept' => ~unkept /\ cached'[s.ticker] = s.version
  <2>1. CASE cached' = [cached EXCEPT ![s.ticker] = s.version] /\ UNCHANGED unkept
    <3>1. s.version \in 0..MaxVersion /\ cached \in [Known -> 0..MaxVersion]
      BY <1>1, <1>3, Constants DEF OnlyTypes
    <3>2. /\ cached' \in [Known -> 0..MaxVersion] /\ cached'[s.ticker] = s.version
          /\ \A t \in Known : cached'[t] = cached[t] \/ (t = s.ticker /\ cached'[t] = s.version)
      BY <1>3, <2>1, <3>1
    <3> QED
      BY <1>1, <2>1, <3>2 DEF OnlyTypes
  <2>2. CASE unkept' = TRUE /\ UNCHANGED cached
    BY <1>1, <2>2 DEF OnlyTypes
  <2> QED
    BY <2>1, <2>2
<1>5. Typed'
  <2>1. OnlyTypes'
    BY <1>1, <1>2, <1>4 DEF OnlyTypes
  <2> QED
    BY <1>2, <2>1, TypesAreNext DEF PageInv, Typed
<1>6. LatestComes' /\ Promised'
  BY <1>2 DEF PageInv, LatestComes, Promised, Coming
<1>7. Apart'
  BY <1>2 DEF PageInv, Apart
<1>8. Forward'
  <2>1. \A t \in Known : cached'[t] <= version[t]
    BY <1>3, <1>4 DEF PageInv, Forward
  <2>2. ~crossed => \A u \in storing' : u.ticker # s.ticker /\ cached'[u.ticker] = cached[u.ticker]
    BY <1>1, <1>4, Versions DEF PageInv, Apart
  <2>3. ~crossed => \A i \in InFlight : load[i].at = "read" /\ load[i].ticker \in Known =>
                      cached'[load[i].ticker] = cached[load[i].ticker]
    BY <1>4 DEF PageInv, Apart
  <2> QED
    BY <1>2, <2>1, <2>2, <2>3 DEF PageInv, Forward
<1>9. Kept'
  <2> SUFFICES ASSUME ~unkept' PROVE Kept'
    BY DEF Kept
  <2>1. ~unkept /\ ~crossed /\ cached'[s.ticker] = s.version /\ s.version >= cached[s.ticker]
    BY <1>4 DEF PageInv, Kept, Forward
  <2>2. ASSUME NEW t \in Known, NEW v \in Nat, Has(t, v) PROVE Has(t, v)'
    <3>1. cached[t] \in Nat /\ cached[s.ticker] \in Nat
      BY <1>1, <1>3, Versions
    <3>2. CASE cached[t] >= v
      BY <1>3, <1>4, <2>1, <3>1, <3>2 DEF Has
    <3>3. CASE \E u \in storing : u.ticker = t /\ u.version >= v
      BY <1>3, <2>1, <3>3 DEF Has
    <3> QED
      BY <2>2, <3>2, <3>3 DEF Has
  <2>3. \A i \in InFlight : load[i].at = "body" =>
          load[i].ticker \in Known /\ load[i].version \in Nat
    BY <1>1, Versions DEF PageInv, Typed, Sensible, InFlight
  <2>4. body.ticker # None => body.ticker \in Known /\ body.version \in Nat
    BY <1>1, Versions
  <2>5. /\ \A i \in InFlight : load[i].at = "body" => Has(load[i].ticker, load[i].version)
        /\ body.ticker # None => Has(body.ticker, body.version)
    BY <2>1 DEF PageInv, Kept
  <2>6. /\ \A i \in InFlight : load[i].at = "body" => Has(load[i].ticker, load[i].version)'
        /\ body.ticker # None => Has(body.ticker, body.version)'
    BY <1>2, <2>2, <2>3, <2>4, <2>5
  <2> QED
    BY <1>2, <2>1, <2>6 DEF PageInv, Kept
<1> QED
  BY <1>5, <1>6, <1>7, <1>8, <1>9 DEF PageInv

(* The server's data only gets newer.                                      *)
LEMMA NewerKeeps ==
  ASSUME PageInv, NEW t \in Known, version[t] < MaxVersion,
         version' = [version EXCEPT ![t] = @ + 1],
         UNCHANGED <<latest, header, body, load, worker, history>>,
         button' \in Buttons,
         button'.at # "idle" => button'.ticker \in Tickers,
         button'.at = "ok" => button'.ticker \in Known /\ button'.wrote <= version'[button'.ticker]
  PROVE  PageInv'
<1>1. TypeOK /\ OnlyTypes
  BY TypesAre DEF PageInv, Typed
<1>2. UNCHANGED <<latest, header, body, load, controlled, cached, storing,
                  broken, crossed, unkept, promised>> /\ InFlight' = InFlight
  BY DEF worker, history, InFlight
<1>3. version' \in [Known -> 1..MaxVersion] /\ \A u \in Known : version'[u] >= version[u]
  BY <1>1, Constants DEF OnlyTypes
<1>4. \A u \in Known : version[u] \in Nat /\ version'[u] \in Nat
  BY <1>1, <1>3, Constants DEF OnlyTypes
<1>5. Typed'
  <2>1. OnlyTypes'
    BY <1>1, <1>2, <1>3 DEF OnlyTypes
  <2> QED
    BY <1>2, <2>1, TypesAreNext DEF PageInv, Typed
<1>6. LatestComes' /\ Apart'
  BY <1>2 DEF PageInv, LatestComes, Coming, Apart
<1>7. Promised'
  <2>1. \A u \in Known : promised[u] <= version'[u]
    BY <1>1, <1>3, <1>4, Versions DEF PageInv, Promised
  <2> QED
    BY <1>2, <2>1 DEF PageInv, Promised, Coming
<1>8. Forward'
  <2>1. \A u \in Known : cached[u] <= version'[u]
    BY <1>1, <1>3, <1>4, Versions DEF PageInv, Forward
  <2>2. \A s \in storing : s.version <= version'[s.ticker]
    BY <1>1, <1>3, <1>4, Versions DEF PageInv, Forward
  <2>3. \A i \in InFlight : load[i].at # "sent" /\ load[i].ticker \in Known =>
          load[i].version <= version'[load[i].ticker]
    BY <1>1, <1>3, <1>4, Versions DEF PageInv, Forward, InFlight
  <2> QED
    BY <1>2, <2>1, <2>2, <2>3 DEF PageInv, Forward
<1>9. Kept'
  BY <1>2 DEF PageInv, Kept, Has
<1> QED
  BY <1>5, <1>6, <1>7, <1>8, <1>9 DEF PageInv

LEMMA UpdateKeeps == PageInv /\ Update => PageInv'
<1> SUFFICES ASSUME PageInv, NEW t \in Known, version[t] < MaxVersion,
                    version' = [version EXCEPT ![t] = @ + 1],
                    UNCHANGED <<page, worker, history>>
             PROVE  PageInv'
  BY DEF Update
<1>1. TypeOK /\ OnlyTypes
  BY TypesAre DEF PageInv, Typed
<1>2. UNCHANGED <<latest, header, body, load, button, worker, history>>
  BY DEF page
<1>3. button.at = "ok" => button.ticker \in Known /\ button.wrote <= version'[button.ticker]
  <2>1. \A u \in Known : version[u] \in Nat /\ version'[u] \in Nat /\ version'[u] >= version[u]
    BY <1>1, Constants DEF OnlyTypes
  <2> QED
    BY <1>1, <2>1, Versions DEF PageInv, Promised
<1> QED
  BY <1>1, <1>2, <1>3, NewerKeeps DEF OnlyTypes, PageInv, Typed

(* Steps of the button that touch neither data nor loads.                  *)
LEMMA ButtonKeeps ==
  ASSUME PageInv, UNCHANGED <<latest, header, body, load, version, worker, history>>,
         button' \in Buttons,
         button'.at # "idle" => button'.ticker \in Tickers,
         button'.at = "ok" => button' = button
  PROVE  PageInv'
<1>1. TypeOK /\ OnlyTypes
  BY TypesAre DEF PageInv, Typed
<1>2. UNCHANGED <<latest, header, body, load, version, controlled, cached, storing,
                  broken, crossed, unkept, promised>> /\ InFlight' = InFlight
  BY DEF worker, history, InFlight
<1>3. OnlyTypes'
  BY <1>1, <1>2 DEF OnlyTypes
<1>4. Typed'
  BY <1>2, <1>3, TypesAreNext DEF PageInv, Typed
<1>5. LatestComes' /\ Promised' /\ Apart'
  BY <1>2 DEF PageInv, LatestComes, Promised, Coming, Apart
<1>6. Forward' /\ Kept'
  BY <1>2 DEF PageInv, Forward, Kept, Has
<1> QED
  BY <1>4, <1>5, <1>6 DEF PageInv

LEMMA ClickKeeps == PageInv /\ Click => PageInv'
<1> SUFFICES ASSUME PageInv, Click PROVE PageInv'
  OBVIOUS
<1>1. latest \in Tickers
  BY TypesAre DEF PageInv, Typed, OnlyTypes
<1>2. /\ button' \in Buttons
      /\ button'.at = "posted" /\ button'.ticker = latest
  BY <1>1, ButtonTyped DEF Click, Buttons
<1>3. UNCHANGED <<latest, header, body, load, version, worker, history>>
  BY DEF Click
<1> QED
  BY <1>1, <1>2, <1>3, ButtonKeeps

LEMMA RefreshRefusedKeeps == PageInv /\ RefreshRefused => PageInv'
<1> SUFFICES ASSUME PageInv, RefreshRefused PROVE PageInv'
  OBVIOUS
<1>1. button' = Idle /\ UNCHANGED <<latest, header, body, load, version, worker, history>>
  BY DEF RefreshRefused
<1> QED
  BY <1>1, ButtonTyped, ButtonKeeps

LEMMA ServeRefreshKeeps == PageInv /\ ServeRefresh => PageInv'
<1> SUFFICES ASSUME PageInv, ServeRefresh PROVE PageInv'
  OBVIOUS
<1>1. TypeOK /\ OnlyTypes
  BY TypesAre DEF PageInv, Typed
<1>2. /\ button.at = "posted" /\ button.ticker \in Tickers
      /\ UNCHANGED <<latest, header, body, load, worker, history>>
  BY DEF ServeRefresh, PageInv, Typed
<1>3. CASE /\ button.ticker \in Known /\ version[button.ticker] < MaxVersion
           /\ version' = [version EXCEPT ![button.ticker] = @ + 1]
           /\ button' = [button EXCEPT !.at = "ok", !.wrote = version[button.ticker] + 1]
  <2>1. version[button.ticker] + 1 \in 0..MaxVersion
    BY <1>1, <1>3, Constants DEF OnlyTypes
  <2>2. /\ button' \in Buttons
        /\ button'.at = "ok" /\ button'.ticker = button.ticker
        /\ button'.wrote = version[button.ticker] + 1
    BY <1>1, <1>3, <2>1 DEF OnlyTypes, Buttons
  <2>3. version'[button.ticker] = version[button.ticker] + 1
    BY <1>1, <1>3 DEF OnlyTypes
  <2>4. button'.wrote <= version'[button'.ticker]
    BY <2>1, <2>2, <2>3, Constants
  <2> QED
    BY <1>2, <1>3, <2>2, <2>4, NewerKeeps
<1>4. CASE button' = [button EXCEPT !.at = "refused"] /\ UNCHANGED version
  <2>1. /\ button' \in Buttons
        /\ button'.at = "refused" /\ button'.ticker = button.ticker
    BY <1>1, <1>4 DEF OnlyTypes, Buttons
  <2> QED
    BY <1>2, <1>4, <2>1, ButtonKeeps
<1> QED
  BY <1>3, <1>4 DEF ServeRefresh

LEMMA ClaimKeeps == PageInv /\ Claim => PageInv'
<1> SUFFICES ASSUME PageInv, Claim PROVE PageInv'
  OBVIOUS
<1>1. TypeOK /\ OnlyTypes
  BY TypesAre DEF PageInv, Typed
<1>2. /\ controlled' = TRUE /\ InFlight' = InFlight
      /\ UNCHANGED <<latest, header, body, load, button, version, cached, storing,
                     broken, crossed, unkept, promised>>
  BY DEF Claim, page, history, InFlight
<1>3. OnlyTypes'
  BY <1>1, <1>2 DEF OnlyTypes
<1>4. Typed'
  BY <1>2, <1>3, TypesAreNext DEF PageInv, Typed
<1>5. LatestComes' /\ Promised' /\ Apart'
  BY <1>2 DEF PageInv, LatestComes, Promised, Coming, Apart
<1>6. Forward' /\ Kept'
  BY <1>2 DEF PageInv, Forward, Kept, Has
<1> QED
  BY <1>4, <1>5, <1>6 DEF PageInv

LEMMA StutterKeeps == PageInv /\ UNCHANGED vars => PageInv'
<1> SUFFICES ASSUME PageInv, UNCHANGED vars PROVE PageInv'
  OBVIOUS
<1>1. UNCHANGED <<latest, header, body, load, version, worker, history>> /\ button' = button
  BY DEF vars, page
<1>2. OnlyTypes /\ (button.at # "idle" => button.ticker \in Tickers)
  BY TypesAre DEF PageInv, Typed
<1> QED
  BY <1>1, <1>2, ButtonKeeps DEF OnlyTypes

LEMMA StartsRight == Init => PageInv
<1> SUFFICES ASSUME Init PROVE PageInv
  OBVIOUS
<1>1. First \in Tickers /\ First \in Known /\ First # None
  BY Constants DEF Tickers
<1>2. 1 \in Loads /\ 0 \in 0..MaxVersion /\ 1 \in 0..MaxVersion /\ 1 \in 1..MaxVersion
      /\ "fetch" \in Froms
  BY Constants DEF Loads, Froms
<1>3. /\ Sent(First) \in Records /\ Sent(First).ticker = First /\ Sent(First).at = "sent"
      /\ Sent(First).worker = controlled /\ Sent(First).from = "fetch"
  <2>1. "sent" \in Ats /\ controlled \in BOOLEAN /\ Unused \in Records /\ Unused.from = "fetch"
    BY DoneTyped DEF Ats, Init, Unused
  <2> QED
    BY <1>1, <2>1 DEF Sent, Records
<1>4. load = [i \in Loads |-> IF i = 1 THEN Sent(First) ELSE Unused]
  BY DEF Init
<1>5. load \in [Loads -> Records] /\ load[1] = Sent(First) /\ InFlight = {1}
  BY <1>2, <1>3, <1>4, DoneTyped DEF InFlight
<1>6. Typed
  <2>1. Blank \in [ticker : Known \cup {None}, version : 0..MaxVersion, from : Froms]
    BY <1>2 DEF Blank
  <2>2. OnlyTypes
    BY <1>1, <1>2, <1>5, <2>1, ButtonTyped DEF OnlyTypes, Init
  <2>3. Sensible(load[1])
    BY <1>1, <1>3, <1>5 DEF Sensible
  <2> QED
    BY <1>5, <2>2, <2>3, TypesAre, ButtonTyped DEF Typed, Init
<1>7. Coming
  BY <1>3, <1>5 DEF Coming, Init
<1>8. LatestComes
  BY <1>7 DEF LatestComes
<1>9. Promised
  BY <1>2, <1>3, <1>5, <1>7, ButtonTyped DEF Promised, Init
<1>10. Apart
  BY <1>5 DEF Apart, Init
<1>11. Forward
  BY <1>3, <1>5 DEF Forward, Init
<1>12. Kept
  BY <1>3, <1>5 DEF Kept, Init, Blank
<1> QED
  BY <1>6, <1>8, <1>9, <1>10, <1>11, <1>12 DEF PageInv

------------------------------------------------------------------------------
(* The results.                                                            *)

(* The invariant holds of every behaviour: StockPage.tla.                  *)
THEOREM PageInvAlways == Spec => []PageInv
<1>1. PageInv /\ [Next]_vars => PageInv'
  <2> SUFFICES ASSUME PageInv, [Next]_vars PROVE PageInv'
    OBVIOUS
  <2>1. CASE Search
    BY <2>1, SearchKeeps
  <2>2. CASE Click
    BY <2>2, ClickKeeps
  <2>3. CASE Update
    BY <2>3, UpdateKeeps
  <2>4. CASE Claim
    BY <2>4, ClaimKeeps
  <2>5. CASE Store
    BY <2>5, StoreKeeps
  <2>6. CASE \E i \in Loads : ServeLoad(i) \/ Answered(i) \/ Render(i)
    BY <2>6, ServeLoadKeeps, AnsweredKeeps, RenderKeeps
  <2>7. CASE ServeRefresh
    BY <2>7, ServeRefreshKeeps
  <2>8. CASE RefreshDone
    BY <2>8, RefreshDoneKeeps
  <2>9. CASE RefreshRefused
    BY <2>9, RefreshRefusedKeeps
  <2>10. CASE \E i \in Loads : FallsBack(i) \/ LoadFails(i)
    BY <2>10, FallsBackKeeps, LoadFailsKeeps
  <2>11. CASE UNCHANGED vars
    BY <2>11, StutterKeeps
  <2> QED
    BY <2>1, <2>2, <2>3, <2>4, <2>5, <2>6, <2>7, <2>8, <2>9, <2>10, <2>11 DEF Next, Answers
<1> QED
  BY <1>1, StartsRight, PTL DEF Spec

(* The types of all variables, whatever the bounds.                        *)
THEOREM PageTypeCorrect == Spec => []TypeOK
<1>1. PageInv => TypeOK
  BY DEF PageInv, Typed
<1> QED
  BY <1>1, PageInvAlways, PTL

(* The guards of loadTicker suffice: once nothing is under way, the page   *)
(* shows the ticker asked for last.                                        *)
THEOREM ShowsLatestAlways == Spec => []ShowsLatestAtRest
<1>1. PageInv => ShowsLatestAtRest
  BY DEF PageInv, LatestComes, Coming, ShowsLatestAtRest
<1> QED
  BY <1>1, PageInvAlways, PTL

(* networkFirst keeps what a refresh has promised: what the page then      *)
(* shows from the network is no older.                                     *)
THEOREM RefreshedIsShownAlways == Spec => []RefreshedIsShown
<1>1. PageInv => RefreshedIsShown
  BY DEF PageInv, Promised, Coming, RefreshedIsShown
<1> QED
  BY <1>1, PageInvAlways, PTL

(* What the page shows, the cache of the service worker has.               *)
THEOREM OfflineShowsSameAlways == Spec => []OfflineShowsSame
<1>1. PageInv => OfflineShowsSame
  BY DEF PageInv, Kept, Has, OfflineShowsSame
<1> QED
  BY <1>1, PageInvAlways, PTL

------------------------------------------------------------------------------
(* The budget of the page's "Refresh Data" button, shared by the tabs of a *)
(* browser.                                                                *)

(* Timestamps are in the past and in the order of the refreshes.           *)
Past ==
  /\ \A i \in 1..Len(granted) : granted[i] <= now
  /\ \A i, j \in 1..Len(granted) : i <= j => granted[i] <= granted[j]
  /\ \A d \in denied : d <= now

(* The list has every refresh of the rolling window.                       *)
Complete(ids) == \A i \in 1..Len(granted) : now - granted[i] < Window => i \in ids

(* Without overlapping requests the newest copy of the list is complete:   *)
(* the browser's, or that of the one request under way.                    *)
InTurn ==
  ~overlapped =>
    /\ \A t, u \in Tabs : pc[t] # "ready" /\ pc[u] # "ready" => t = u
    /\ (\A t \in Tabs : pc[t] = "ready") => Complete(cookie)
    /\ \A t \in Tabs : pc[t] # "ready" => Complete(carried[t])

(* Lists stay within the limit.                                            *)
Short == \A t \in Tabs : Cardinality(carried[t]) <= Limit

BudgetInv ==
  /\ BudgetTypeOK /\ Past /\ Short /\ InTurn
  /\ WithinBudgetInTurn /\ RefusedOnlyWhenSpent

------------------------------------------------------------------------------
LEMMA BudgetStarts == ASSUME BudgetAssumption, BudgetInit PROVE BudgetInv
  <1>1. /\ now = Window /\ cookie = {} /\ pc = [t \in Tabs |-> "ready"]
        /\ carried = [t \in Tabs |-> {}] /\ granted = << >> /\ denied = {} /\ overlapped = FALSE
    BY DEF BudgetInit
  <1>2. Limit \in Nat /\ Window \in Nat
    BY DEF BudgetAssumption
  <1>3. granted \in Seq(Nat) /\ Len(granted) = 0 /\ 1..Len(granted) = {}
    <2>1. granted \in Seq(Nat) /\ Len(granted) = 0
      BY <1>1
    <2>2. 1..0 = {}
      OBVIOUS
    <2> QED
      BY <2>1, <2>2
  <1>4. BudgetTypeOK /\ Short
    <2>1. Cardinality({}) = 0
      BY FS_EmptySet
    <2>2. Cardinality(cookie) <= Limit /\ \A t \in Tabs : Cardinality(carried[t]) <= Limit
      BY <1>1, <1>2, <2>1
    <2>3. now \in Nat /\ cookie \subseteq 1..Len(granted) /\ denied \subseteq Nat
          /\ pc \in [Tabs -> {"ready", "posted", "answered"}]
          /\ carried \in [Tabs -> SUBSET (1..Len(granted))] /\ overlapped \in BOOLEAN
      BY <1>1, <1>2
    <2> QED
      BY <1>3, <2>2, <2>3 DEF BudgetTypeOK, Short
  <1>5. Past /\ InTurn
    BY <1>1, <1>3 DEF Past, InTurn, Complete
  <1>6. WithinBudgetInTurn /\ RefusedOnlyWhenSpent
    BY <1>1, <1>3 DEF WithinBudgetInTurn, Within, RefusedOnlyWhenSpent
  <1> QED
    BY <1>4, <1>5, <1>6 DEF BudgetInv

(* The refreshes of the window among those of a list.                      *)
LEMMA RecentOnes ==
  ASSUME BudgetAssumption, BudgetTypeOK, Past, NEW ids \in SUBSET (1..Len(granted))
  PROVE  /\ Recent(ids) \subseteq ids /\ IsFiniteSet(ids) /\ IsFiniteSet(Recent(ids))
         /\ Cardinality(ids) \in Nat /\ Cardinality(Recent(ids)) \in Nat
         /\ Cardinality(Recent(ids)) <= Cardinality(ids)
         /\ Complete(ids) => Complete(Recent(ids))
  <1>1. IsFiniteSet(1..Len(granted))
    BY FS_Interval DEF BudgetTypeOK
  <1>2. Recent(ids) \in SUBSET ids
    BY DEF Recent
  <1>3. IsFiniteSet(ids)
    BY <1>1, FS_Subset
  <1>4. IsFiniteSet(Recent(ids)) /\ Cardinality(Recent(ids)) <= Cardinality(ids)
    BY <1>2, <1>3, FS_Subset
  <1>5. Complete(ids) => Complete(Recent(ids))
    BY DEF Complete, Recent
  <1> QED
    BY <1>2, <1>3, <1>4, <1>5, FS_CardinalityType

(* What a refused or aged list had is still spent when time goes on or     *)
(* refreshes are added.                                                    *)
SpentAt(d) == {i \in 1..Len(granted) : granted[i] <= d /\ d < granted[i] + Window}

LEMMA SpentStays ==
  ASSUME BudgetTypeOK, granted' = granted \/ granted' = Append(granted, now), BudgetTypeOK',
         NEW d \in Nat
  PROVE  /\ IsFiniteSet(SpentAt(d)) /\ Cardinality(SpentAt(d)) \in Nat
         /\ Cardinality(SpentAt(d)') \in Nat
         /\ Cardinality(SpentAt(d)) <= Cardinality(SpentAt(d)')
  <1>1. Len(granted) \in Nat /\ Len(granted') \in Nat /\ Len(granted) <= Len(granted')
        /\ \A i \in 1..Len(granted) : granted'[i] = granted[i]
    <2>1. granted \in Seq(Nat) /\ now \in Nat
      BY DEF BudgetTypeOK
    <2>2. CASE granted' = Append(granted, now)
      BY <2>1, <2>2
    <2>3. CASE granted' = granted
      BY <2>1, <2>3
    <2> QED
      BY <2>2, <2>3
  <1>2. SpentAt(d)' \in SUBSET (1..Len(granted')) /\ SpentAt(d) \in SUBSET (1..Len(granted))
    BY DEF SpentAt
  <1>3. SpentAt(d) \in SUBSET (SpentAt(d)')
    BY <1>1 DEF SpentAt
  <1>4. IsFiniteSet(1..Len(granted))  /\ IsFiniteSet(1..Len(granted'))
    BY <1>1, FS_Interval
  <1>5. IsFiniteSet(SpentAt(d)) /\ IsFiniteSet(SpentAt(d)')
    BY <1>2, <1>4, FS_Subset
  <1>6. Cardinality(SpentAt(d)) <= Cardinality(SpentAt(d)')
    BY <1>3, <1>5, FS_Subset
  <1> QED
    BY <1>5, <1>6, FS_CardinalityType

LEMMA RefusedStays ==
  ASSUME BudgetAssumption, BudgetTypeOK, BudgetTypeOK', RefusedOnlyWhenSpent,
         UNCHANGED denied,
         granted' = granted \/ granted' = Append(granted, now)
  PROVE  RefusedOnlyWhenSpent'
  <1>1. SUFFICES ASSUME NEW d \in denied PROVE Cardinality(SpentAt(d)') >= Limit
    BY DEF RefusedOnlyWhenSpent, SpentAt
  <1>2. Cardinality(SpentAt(d)) >= Limit
    BY DEF RefusedOnlyWhenSpent, SpentAt
  <1>3. d \in Nat /\ Limit \in Nat
    BY DEF BudgetTypeOK, BudgetAssumption
  <1>4. /\ Cardinality(SpentAt(d)) \in Nat /\ Cardinality(SpentAt(d)') \in Nat
        /\ Cardinality(SpentAt(d)) <= Cardinality(SpentAt(d)')
    BY <1>3, SpentStays
  <1> QED
    BY <1>2, <1>3, <1>4

(* The refresh that is allowed comes a window after the Limit-th before    *)
(* it, when the list has every refresh of the window.                      *)
LEMMA AWindowApart ==
  ASSUME BudgetAssumption, BudgetTypeOK, Past, NEW ids \in SUBSET (1..Len(granted)),
         Complete(ids), Cardinality(Recent(ids)) < Limit,
         NEW i \in 1..Len(granted), i + Limit = Len(granted) + 1
  PROVE  now >= granted[i] + Window
  <1>1. /\ Len(granted) \in Nat /\ now \in Nat /\ Limit \in Nat /\ Window \in Nat
        /\ \A j \in 1..Len(granted) : granted[j] \in Nat
    BY DEF BudgetTypeOK, BudgetAssumption
  <1>2. SUFFICES ASSUME now < granted[i] + Window PROVE FALSE
    BY <1>1
  <1>3. \A j \in i..Len(granted) : j \in 1..Len(granted) /\ granted[i] <= granted[j]
    BY <1>1 DEF Past
  <1>4. \A j \in i..Len(granted) : now - granted[j] < Window
    BY <1>1, <1>2, <1>3
  <1>5. i..Len(granted) \in SUBSET Recent(ids)
    BY <1>3, <1>4 DEF Complete, Recent
  <1>6. IsFiniteSet(Recent(ids)) /\ Cardinality(Recent(ids)) \in Nat
    BY RecentOnes
  <1>7. Cardinality(i..Len(granted)) = Len(granted) - i + 1
    BY <1>1, FS_Interval
  <1>8. Cardinality(i..Len(granted)) <= Cardinality(Recent(ids))
    BY <1>5, <1>6, FS_Subset
  <1> QED
    BY <1>1, <1>6, <1>7, <1>8

------------------------------------------------------------------------------
LEMMA BudgetSteps ==
  ASSUME BudgetAssumption, BudgetInv, [BudgetNext]_budgetVars
  PROVE  BudgetInv'
  <1>0. /\ BudgetTypeOK /\ Past /\ Short /\ InTurn
        /\ WithinBudgetInTurn /\ RefusedOnlyWhenSpent
    BY DEF BudgetInv
  <1>a. /\ Limit \in Nat /\ Limit >= 1 /\ Window \in Nat /\ Window >= 1 /\ now \in Nat
        /\ granted \in Seq(Nat) /\ Len(granted) \in Nat
        /\ cookie \in SUBSET (1..Len(granted)) /\ denied \subseteq Nat
        /\ pc \in [Tabs -> {"ready", "posted", "answered"}]
        /\ carried \in [Tabs -> SUBSET (1..Len(granted))]
    BY <1>0 DEF BudgetAssumption, BudgetTypeOK
  <1>c. Limit \in Nat /\ Window \in Nat /\ now \in Nat
    BY <1>a
  <1>b. overlapped \in BOOLEAN
    BY <1>0 DEF BudgetTypeOK
  <1>1. ASSUME NEW t \in Tabs, Post(t) PROVE BudgetInv'
    <2>1. /\ pc[t] = "ready" /\ UNCHANGED <<now, cookie, granted, denied>>
          /\ \A u \in Tabs : /\ pc'[u] = IF u = t THEN "posted" ELSE pc[u]
                             /\ carried'[u] = IF u = t THEN cookie ELSE carried[u]
          /\ pc' \in [Tabs -> {"ready", "posted", "answered"}]
          /\ carried' \in [Tabs -> SUBSET (1..Len(granted))]
      BY <1>a, <1>1 DEF Post
    <2>2. overlapped' \in BOOLEAN /\ (~overlapped' => ~overlapped /\ \A u \in Tabs : pc[u] = "ready")
      BY <1>1, Zenon DEF Post
    <2>3. BudgetTypeOK' /\ Past' /\ Short'
      BY <1>0, <1>a, <2>1, <2>2 DEF BudgetTypeOK, Past, Short
    <2>4. InTurn'
      <3>1. ~overlapped' => Complete(cookie)
        BY <1>0, <2>2 DEF InTurn
      <3>2. \A ids : Complete(ids)' <=> Complete(ids)
        BY <2>1 DEF Complete
      <3> QED
        BY <2>1, <2>2, <3>1, <3>2 DEF InTurn
    <2>5. WithinBudgetInTurn'
      BY <1>0, <2>1, <2>2 DEF WithinBudgetInTurn
    <2> QED
      BY <1>0, <2>1, <2>3, <2>4, <2>5, RefusedStays DEF BudgetInv
  <1>2. ASSUME NEW t \in Tabs, Allow(t) PROVE BudgetInv'
    <2> DEFINE n == Len(granted)
    <2>1. /\ pc[t] = "posted" /\ Cardinality(Recent(carried[t])) < Limit
          /\ granted' = Append(granted, now) /\ UNCHANGED <<now, cookie, denied>>
          /\ \A u \in Tabs : /\ pc'[u] = IF u = t THEN "answered" ELSE pc[u]
                             /\ carried'[u] = IF u = t THEN Recent(carried[t]) \cup {n + 1}
                                                       ELSE carried[u]
          /\ pc' \in [Tabs -> {"ready", "posted", "answered"}]
      BY <1>a, <1>2 DEF Allow
    <2>2. overlapped' = overlapped
      BY <1>2 DEF Allow
    <2>3. /\ granted' \in Seq(Nat) /\ Len(granted') = n + 1 /\ granted'[n + 1] = now
          /\ \A i \in 1..n : granted'[i] = granted[i] /\ granted[i] \in Nat
          /\ \A i \in 1..n + 1 : i \in 1..n \/ i = n + 1
          /\ 1..n \subseteq 1..n + 1
      BY <1>a, <2>1
    <2>4. /\ Recent(carried[t]) \in SUBSET (1..n) /\ IsFiniteSet(Recent(carried[t]))
          /\ Cardinality(Recent(carried[t])) \in Nat
          /\ Complete(carried[t]) => Complete(Recent(carried[t]))
      <3>1. carried[t] \in SUBSET (1..n)
        BY <1>a
      <3> QED
        BY <1>0, <3>1, RecentOnes
    <2>5. Cardinality(Recent(carried[t]) \cup {n + 1}) <= Limit
      <3>1. n + 1 \notin Recent(carried[t])
        BY <1>a, <2>4
      <3>2. Cardinality(Recent(carried[t]) \cup {n + 1}) = Cardinality(Recent(carried[t])) + 1
        BY <2>4, <3>1, FS_AddElement
      <3> DEFINE c == Cardinality(Recent(carried[t]))
      <3>3. c \in Nat /\ c < Limit /\ Cardinality(Recent(carried[t]) \cup {n + 1}) = c + 1
        BY <2>1, <2>4, <3>2
      <3> HIDE DEF c
      <3> QED
        BY <1>c, <3>3
    <2> HIDE DEF n
    <2>6. n \in Nat /\ n = Len(granted)
      BY <1>a DEF n
    <2>7. carried' \in [Tabs -> SUBSET (1..n + 1)]
      <3>1. Recent(carried[t]) \cup {n + 1} \in SUBSET (1..n + 1)
        BY <2>3, <2>4, <2>6
      <3>2. \A u \in Tabs : carried[u] \in SUBSET (1..n + 1)
        BY <1>a, <2>3, <2>6
      <3>3. carried' = [carried EXCEPT ![t] = Recent(@) \cup {n + 1}]
        BY <1>2, <2>6 DEF Allow
      <3> QED
        BY <1>a, <3>1, <3>2, <3>3
    <2>8. BudgetTypeOK'
      BY <1>0, <1>a, <1>b, <2>1, <2>2, <2>3, <2>6, <2>7 DEF BudgetTypeOK
    <2>9. Short'
      BY <1>0, <2>1, <2>5 DEF Short
    <2>10. Past'
      BY <1>0, <1>a, <2>1, <2>3, <2>6 DEF Past
    <2>11. InTurn'
      <3>1. ASSUME Complete(carried[t]) PROVE Complete(carried[t])'
        <4>1. \A i \in 1..n : now - granted[i] < Window => i \in Recent(carried[t])
          BY <2>4, <2>6, <3>1 DEF Complete
        <4>2. \A i \in 1..n + 1 : now - granted'[i] < Window => i \in carried'[t]
          BY <2>1, <2>3, <4>1
        <4> QED
          BY <2>1, <2>3, <4>2 DEF Complete
      <3>2. ~overlapped => \A u \in Tabs : pc[u] # "ready" => u = t
        BY <1>0, <2>1 DEF InTurn
      <3>3. ~overlapped => Complete(carried[t])
        BY <1>0, <2>1 DEF InTurn
      <3>4. \A u \in Tabs : pc'[u] # "ready" <=> pc[u] # "ready"
        BY <2>1
      <3>5. ~overlapped => /\ \A u \in Tabs : pc'[u] # "ready" => u = t
                           /\ Complete(carried[t])' /\ pc'[t] # "ready"
        BY <2>1, <3>1, <3>2, <3>3, <3>4
      <3> QED
        BY <2>2, <3>5 DEF InTurn
    <2>12. WithinBudgetInTurn'
      <3>1. ASSUME ~overlapped, NEW i \in 1..n + 1, i + Limit <= n + 1
            PROVE  granted'[i + Limit] >= granted'[i] + Window
        <4>1. i \in 1..n
          BY <1>a, <2>6, <3>1
        <4>2. CASE i + Limit <= n
          <5>1. granted[i + Limit] >= granted[i] + Window
            BY <1>0, <2>6, <3>1, <4>1, <4>2 DEF WithinBudgetInTurn, Within
          <5>2. i + Limit \in 1..n
            BY <1>a, <2>6, <4>1, <4>2
          <5> QED
            BY <2>3, <4>1, <5>1, <5>2
        <4>3. CASE i + Limit = n + 1
          <5>1. Complete(carried[t]) /\ carried[t] \in SUBSET (1..Len(granted))
            BY <1>0, <1>a, <2>1, <3>1 DEF InTurn
          <5>2. now >= granted[i] + Window
            BY <1>0, <2>1, <2>6, <4>1, <4>3, <5>1, AWindowApart
          <5> QED
            BY <2>3, <4>1, <4>3, <5>2
        <4> QED
          BY <1>a, <2>6, <3>1, <4>2, <4>3
      <3> QED
        BY <2>2, <2>3, <3>1 DEF WithinBudgetInTurn, Within
    <2>13. RefusedOnlyWhenSpent'
      BY <1>0, <2>1, <2>8, RefusedStays
    <2> QED
      BY <2>8, <2>9, <2>10, <2>11, <2>12, <2>13 DEF BudgetInv
  <1>3. ASSUME NEW t \in Tabs, Refuse(t) PROVE BudgetInv'
    <2>1. /\ pc[t] = "posted" /\ Cardinality(Recent(carried[t])) >= Limit
          /\ denied' = denied \cup {now} /\ UNCHANGED <<now, cookie, granted>>
          /\ \A u \in Tabs : /\ pc'[u] = IF u = t THEN "answered" ELSE pc[u]
                             /\ carried'[u] = IF u = t THEN Recent(carried[t]) ELSE carried[u]
          /\ pc' \in [Tabs -> {"ready", "posted", "answered"}]
      BY <1>a, <1>3 DEF Refuse
    <2>2. overlapped' = overlapped
      BY <1>3 DEF Refuse
    <2>3. /\ Recent(carried[t]) \in SUBSET (1..Len(granted)) /\ IsFiniteSet(carried[t])
          /\ Cardinality(Recent(carried[t])) \in Nat /\ Cardinality(carried[t]) \in Nat
          /\ Cardinality(Recent(carried[t])) <= Cardinality(carried[t])
          /\ Complete(carried[t]) => Complete(Recent(carried[t]))
      <3>1. carried[t] \in SUBSET (1..Len(granted))
        BY <1>a
      <3> QED
        BY <1>0, <3>1, RecentOnes
    <2>4. carried' \in [Tabs -> SUBSET (1..Len(granted))]
      <3>1. carried' = [carried EXCEPT ![t] = Recent(@)]
        BY <1>3 DEF Refuse
      <3> QED
        BY <1>a, <2>3, <3>1
    <2>5. BudgetTypeOK'
      BY <1>0, <1>a, <1>b, <2>1, <2>2, <2>4 DEF BudgetTypeOK
    <2>6. Short'
      <3>1. Cardinality(carried[t]) <= Limit
        BY <1>0 DEF Short
      <3>2. Cardinality(Recent(carried[t])) <= Limit
        BY <1>a, <2>3, <3>1
      <3> QED
        BY <1>0, <2>1, <3>2 DEF Short
    <2>7. Past'
      BY <1>0, <1>a, <2>1 DEF Past
    <2>8. InTurn'
      <3>1. \A ids : Complete(ids)' <=> Complete(ids)
        BY <2>1 DEF Complete
      <3>2. \A u \in Tabs : pc'[u] # "ready" <=> pc[u] # "ready"
        BY <2>1
      <3> QED
        BY <1>0, <2>1, <2>2, <2>3, <3>1, <3>2 DEF InTurn
    <2>9. WithinBudgetInTurn'
      BY <1>0, <2>1, <2>2 DEF WithinBudgetInTurn
    <2>10. RefusedOnlyWhenSpent'
      <3>1. \A d \in denied : Cardinality(SpentAt(d)) >= Limit
        BY <1>0 DEF RefusedOnlyWhenSpent, SpentAt
      <3>2. Cardinality(SpentAt(now)) >= Limit
        <4>1. Recent(carried[t]) \in SUBSET SpentAt(now)
          <5>1. ASSUME NEW i \in Recent(carried[t]) PROVE i \in SpentAt(now)
            <6>1. i \in 1..Len(granted) /\ now - granted[i] < Window
              BY <2>3 DEF Recent
            <6>2. granted[i] <= now /\ granted[i] \in Nat
              BY <1>0, <1>a, <6>1 DEF Past
            <6> QED
              BY <1>a, <6>1, <6>2 DEF SpentAt
          <5> QED
            BY <5>1
        <4>2. IsFiniteSet(SpentAt(now)) /\ Cardinality(SpentAt(now)) \in Nat
          <5>1. IsFiniteSet(1..Len(granted)) /\ SpentAt(now) \in SUBSET (1..Len(granted))
            BY <1>a, FS_Interval DEF SpentAt
          <5> QED
            BY <5>1, FS_Subset, FS_CardinalityType
        <4>3. Cardinality(Recent(carried[t])) <= Cardinality(SpentAt(now))
          BY <4>1, <4>2, FS_Subset
        <4> QED
          BY <1>a, <2>1, <2>3, <4>2, <4>3
      <3>3. SUFFICES ASSUME NEW d \in denied \cup {now} PROVE Cardinality(SpentAt(d)') >= Limit
        BY <2>1 DEF RefusedOnlyWhenSpent, SpentAt
      <3>4. SpentAt(d)' = SpentAt(d)
        BY <2>1 DEF SpentAt
      <3> QED
        BY <3>1, <3>2, <3>4
    <2> QED
      BY <2>5, <2>6, <2>7, <2>8, <2>9, <2>10 DEF BudgetInv
  <1>4. ASSUME NEW t \in Tabs, Receive(t) PROVE BudgetInv'
    <2>1. /\ pc[t] = "answered" /\ cookie' = carried[t]
          /\ UNCHANGED <<now, granted, denied, carried>>
          /\ \A u \in Tabs : pc'[u] = IF u = t THEN "ready" ELSE pc[u]
          /\ pc' \in [Tabs -> {"ready", "posted", "answered"}]
      BY <1>a, <1>4 DEF Receive, histories
    <2>2. overlapped' = overlapped
      BY <1>4 DEF Receive, histories
    <2>3. BudgetTypeOK' /\ Short' /\ Past'
      BY <1>0, <1>a, <1>b, <2>1, <2>2 DEF BudgetTypeOK, Short, Past
    <2>4. InTurn'
      <3>1. \A ids : Complete(ids)' <=> Complete(ids)
        BY <2>1 DEF Complete
      <3>2. ~overlapped => Complete(carried[t]) /\ \A u \in Tabs : u # t => pc[u] = "ready"
        BY <1>0, <2>1 DEF InTurn
      <3> QED
        BY <2>1, <2>2, <3>1, <3>2 DEF InTurn
    <2>5. WithinBudgetInTurn'
      BY <1>0, <2>1, <2>2 DEF WithinBudgetInTurn
    <2> QED
      BY <1>0, <2>1, <2>3, <2>4, <2>5, RefusedStays DEF BudgetInv
  <1>5. CASE Tick
    <2>1. now' = now + 1 /\ UNCHANGED <<cookie, pc, carried, granted, denied>>
      BY <1>5 DEF Tick, histories
    <2>2. overlapped' = overlapped
      BY <1>5 DEF Tick, histories
    <2>3. BudgetTypeOK' /\ Short'
      BY <1>0, <1>a, <1>b, <2>1, <2>2 DEF BudgetTypeOK, Short
    <2>4. Past'
      <3>1. \A i \in 1..Len(granted) : granted[i] \in Nat
        BY <1>a
      <3> QED
        BY <1>0, <1>a, <2>1, <3>1 DEF Past
    <2>5. InTurn'
      <3>1. \A ids : Complete(ids) => Complete(ids)'
        BY <1>a, <2>1 DEF Complete
      <3> QED
        BY <1>0, <2>1, <2>2, <3>1 DEF InTurn
    <2>6. WithinBudgetInTurn'
      BY <1>0, <2>1, <2>2 DEF WithinBudgetInTurn
    <2> QED
      BY <1>0, <2>1, <2>3, <2>4, <2>5, <2>6, RefusedStays DEF BudgetInv
  <1>6. CASE UNCHANGED budgetVars
    <2>1. UNCHANGED <<now, cookie, pc, carried, granted, denied>>
      BY <1>6 DEF budgetVars, histories
    <2>2. overlapped' = overlapped
      BY <1>6 DEF budgetVars, histories
    <2>3. BudgetTypeOK' /\ Short' /\ Past'
      BY <1>0, <1>b, <2>1, <2>2 DEF BudgetTypeOK, Short, Past
    <2>4. InTurn'
      BY <1>0, <2>1, <2>2 DEF InTurn, Complete
    <2>5. WithinBudgetInTurn'
      BY <1>0, <2>1, <2>2 DEF WithinBudgetInTurn
    <2> QED
      BY <1>0, <2>1, <2>3, <2>4, <2>5, RefusedStays DEF BudgetInv
  <1> QED
    BY <1>1, <1>2, <1>3, <1>4, <1>5, <1>6 DEF BudgetNext

LEMMA BudgetInvariant == BudgetSpec => []BudgetInv
  <1>1. BudgetInit => BudgetInv
    BY BudgetStarts, BudgetAssumption
  <1>2. BudgetInv /\ [BudgetNext]_budgetVars => BudgetInv'
    BY BudgetSteps, BudgetAssumption
  <1> QED
    BY <1>1, <1>2, PTL DEF BudgetSpec

(* A browser's session never holds more refreshes than the limit, of any   *)
(* size, in its cookie, and only such that were made.                      *)
THEOREM BudgetTypeCorrect == BudgetSpec => []BudgetTypeOK
  <1>1. BudgetInv => BudgetTypeOK
    BY DEF BudgetInv
  <1> QED
    BY <1>1, BudgetInvariant, PTL

(* As long as requests follow one another no rolling window has more than  *)
(* Limit refreshes, from however many tabs: the list in the cookie, from   *)
(* which only what has aged out is dropped, is complete.                   *)
THEOREM BudgetKept == BudgetSpec => []WithinBudgetInTurn
  <1>1. BudgetInv => WithinBudgetInTurn
    BY DEF BudgetInv
  <1> QED
    BY <1>1, BudgetInvariant, PTL

(* Even when requests overlap and their answers cross, nobody is refused a *)
(* refresh the budget allows: a list never has a refresh that was not made.*)
THEOREM RefusalsEarned == BudgetSpec => []RefusedOnlyWhenSpent
  <1>1. BudgetInv => RefusedOnlyWhenSpent
    BY DEF BudgetInv
  <1> QED
    BY <1>1, BudgetInvariant, PTL
==============================================================================
