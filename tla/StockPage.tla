------------------------------ MODULE StockPage ------------------------------
(***************************************************************************)
(* The stock page (webapp/static/js/stock_detail.js): loadTicker, called   *)
(* by the search box and by a finished refresh, and the "Refresh Data"     *)
(* button; the service worker through which its requests go once it        *)
(* controls the page (sw.js); and the server, whose data the scheduled     *)
(* update rewrites too.  An action is what runs between two awaits, or     *)
(* what the server does with a request; answers arrive in any order, and   *)
(* the network comes and goes.                                             *)
(***************************************************************************)
EXTENDS Naturals

CONSTANTS
  Known,          \* tickers the server has
  Unknown,        \* tickers a user may type that it has not
  First,          \* the ticker the page is opened for
  Visited,        \* tickers an earlier visit has left in the cache
  MaxLoads,       \* bound: loadTicker calls
  MaxVersion      \* bound: versions of a ticker's data, from 1

Tickers == Known \cup Unknown
Loads == 1..MaxLoads
None == "none"    \* no ticker: nothing has been shown yet

ASSUME PageAssumption ==
  /\ MaxVersion \in Nat \ {0} /\ MaxLoads \in Nat \ {0}
  /\ None \notin Tickers /\ First \in Known /\ Visited \subseteq Known

VARIABLES
  latest,         \* latestRequestedTicker
  header,         \* the ticker in the heading
  body,           \* the panels: [ticker, version, from]
  load,           \* load[i]: the i-th loadTicker call
  button,         \* [at, ticker, load, wrote]: the refresh click being handled
  version,        \* the server: version of a ticker's data
  controlled,     \* the service worker controls the page
  cached,         \* API_CACHE: the version of a ticker's answer, 0 if it has none
  storing,        \* answers on their way into the cache: [ticker, version]
  broken,         \* history: some load has failed
  crossed,        \* history: two loads of one ticker were under way at once
  unkept,         \* history: that, or an answer did not get into the cache
  promised        \* history: the version the page was told of as refreshed

page == <<latest, header, body, load, button>>
worker == <<controlled, cached, storing>>
history == <<broken, crossed, unkept, promised>>
vars == <<page, version, worker, history>>

(* at      : what loadTicker awaits                                        *)
(* worker  : the request goes through the service worker                   *)
(* version : that of the data in the answer                                *)
(* from    : the network, or the cache because that failed                 *)
Idle == [at |-> "idle", ticker |-> None, load |-> 0, wrote |-> 0]
Unused == [ticker |-> None, at |-> "unused", version |-> 0, worker |-> FALSE, from |-> "fetch"]
Blank == [ticker |-> None, version |-> 0, from |-> "fetch"]
Done == [Unused EXCEPT !.at = "done"]
Sent(t) == [Unused EXCEPT !.ticker = t, !.at = "sent", !.worker = controlled]

(* The first load is the page's own.  A first visit has neither service    *)
(* worker nor cache.                                                       *)
Init ==
  /\ controlled \in BOOLEAN
  /\ cached = [t \in Known |-> IF controlled /\ t \in Visited THEN 1 ELSE 0]
  /\ version = [t \in Known |-> 1]
  /\ latest = First
  /\ load = [i \in Loads |-> IF i = 1 THEN Sent(First) ELSE Unused]
  /\ header = None
  /\ body = Blank
  /\ button = Idle
  /\ storing = {}
  /\ broken = FALSE /\ crossed = FALSE
  /\ unkept = ~controlled
  /\ promised = [t \in Known |-> 0]

------------------------------------------------------------------------------
InFlight == {i \in Loads : load[i].at \in {"sent", "read", "body"}}
UnderWay == {load[i].ticker : i \in InFlight} \cup {answer.ticker : answer \in storing}

(* loadTicker up to its first await, as call i.                            *)
StartLoad(i, t) ==
  /\ load[i].at = "unused" /\ \A j \in Loads : j < i => load[j].at # "unused"
  /\ latest' = t
  /\ load' = [load EXCEPT ![i] = Sent(t)]
  /\ crossed' = (crossed \/ t \in UnderWay)
  /\ unkept' = (unkept \/ crossed' \/ ~controlled)

Search ==
  /\ \E i \in Loads, t \in Tickers : StartLoad(i, t)
  /\ UNCHANGED <<header, body, button, version, worker, broken, promised>>

------------------------------------------------------------------------------
(* The server.                                                             *)

ServeLoadCacheFirst(i) ==                   \* mutant: staleWhileRevalidate for /api/
  /\ load[i].at = "sent"
  /\ load' = [load EXCEPT ![i].at = "read",
                          ![i].version = IF load[i].ticker \in Known
                                           THEN IF load[i].worker /\ cached[load[i].ticker] # 0
                                                  THEN cached[load[i].ticker]
                                                  ELSE version[load[i].ticker]
                                           ELSE 0]
  /\ UNCHANGED <<latest, header, body, button, version, worker, history>>

(* api_stock reads the database.                                           *)
ServeLoad(i) ==
  /\ load[i].at = "sent"
  /\ load' = [load EXCEPT ![i].at = "read",
                          ![i].version = IF load[i].ticker \in Known THEN version[load[i].ticker]
                                                                     ELSE 0]
  /\ UNCHANGED <<latest, header, body, button, version, worker, history>>

------------------------------------------------------------------------------
(* loadTicker, and networkFirst between it and the server.                 *)

(* When call i returns, the click that awaits it puts the button back.     *)
LoadReturns(i) ==
  /\ load' = [load EXCEPT ![i] = Done]
  /\ button' = IF button.load = i THEN Idle ELSE button

NeverSuperseded(i) == FALSE                 \* mutant: the guard is left out

(* The guard after each await.                                             *)
Superseded(i) == load[i].ticker # latest

AnswerOf(i) == [ticker |-> load[i].ticker, version |-> load[i].version]

KeepsFirst(i) ==                            \* mutant: only what is not cached yet is put
  storing' = IF load[i].worker /\ load[i].from = "fetch" /\ cached[load[i].ticker] = 0
               THEN storing \cup {AnswerOf(i)} ELSE storing

(* if (response.ok) cache.put(request, response.clone()), not awaited.     *)
Keeps(i) ==
  storing' = IF load[i].worker /\ load[i].from = "fetch" THEN storing \cup {AnswerOf(i)} ELSE storing

(* The status line arrives: of an answer, good or superseded; of a 404; or *)
(* of any other error, which is shown like a 404.                          *)
Answered(i) ==
  /\ load[i].at = "read"
  /\ \/ /\ load[i].ticker \in Known
        /\ IF Superseded(i) THEN LoadReturns(i)
           ELSE load' = [load EXCEPT ![i].at = "body"] /\ UNCHANGED button
        /\ Keeps(i)
        /\ UNCHANGED <<header, broken>>
     \/ /\ load[i].from = "fetch"
        /\ header' = IF Superseded(i) THEN header ELSE load[i].ticker
        /\ broken' = (broken \/ load[i].ticker \in Known)
        /\ LoadReturns(i)
        /\ UNCHANGED storing
  /\ UNCHANGED <<latest, body, version, controlled, cached, crossed, unkept, promised>>

(* The JSON body arrives: every panel is drawn.                            *)
Render(i) ==
  /\ load[i].at = "body"
  /\ IF Superseded(i)
       THEN UNCHANGED <<header, body>>
       ELSE /\ header' = load[i].ticker
            /\ body' = [ticker |-> load[i].ticker, version |-> load[i].version,
                        from |-> load[i].from]
  /\ LoadReturns(i)
  /\ UNCHANGED <<latest, version, worker, history>>

(* The answer that was cloned is complete, or is not and is not kept.      *)
Store ==
  /\ \E answer \in storing :
       /\ storing' = storing \ {answer}
       /\ \/ cached' = [cached EXCEPT ![answer.ticker] = answer.version] /\ UNCHANGED unkept
          \/ unkept' = TRUE /\ UNCHANGED cached
  /\ UNCHANGED <<page, version, controlled, broken, crossed, promised>>

FallbackOf(i) ==
  IF load[i].worker /\ load[i].ticker \in Known THEN cached[load[i].ticker] ELSE 0

(* fetch() fails in the service worker, which has a cached answer.         *)
FallsBack(i) ==
  /\ load[i].at \in {"sent", "read"} /\ load[i].from = "fetch"
  /\ FallbackOf(i) # 0
  /\ load' = [load EXCEPT ![i].at = "read", ![i].version = FallbackOf(i), ![i].from = "fallback"]
  /\ UNCHANGED <<latest, header, body, button, version, worker, history>>

(* The connection fails and there is none, or fails amid the body:         *)
(* loadTicker throws, and a click catches it.                              *)
LoadFails(i) ==
  /\ load[i].from = "fetch"
  /\ \/ load[i].at \in {"sent", "read"} /\ FallbackOf(i) = 0
     \/ load[i].at = "body"
  /\ broken' = TRUE
  /\ LoadReturns(i)
  /\ UNCHANGED <<latest, header, body, version, worker, crossed, unkept, promised>>

(* The service worker is installed and claims the page.                    *)
Claim ==
  /\ ~controlled
  /\ controlled' = TRUE
  /\ UNCHANGED <<page, version, cached, storing, history>>

------------------------------------------------------------------------------
(* The button.                                                             *)

Click ==
  /\ button = Idle
  /\ button' = [Idle EXCEPT !.at = "posted", !.ticker = latest]
  /\ UNCHANGED <<latest, header, body, load, version, worker, history>>

(* refresh_ticker rewrites the stock's data, or fails.                     *)
ServeRefresh ==
  /\ button.at = "posted"
  /\ \/ /\ button.ticker \in Known /\ version[button.ticker] < MaxVersion
        /\ version' = [version EXCEPT ![button.ticker] = @ + 1]
        /\ button' = [button EXCEPT !.at = "ok", !.wrote = version[button.ticker] + 1]
     \/ /\ button' = [button EXCEPT !.at = "refused"]
        /\ UNCHANGED version
  /\ UNCHANGED <<latest, header, body, load, worker, history>>

(* A refresh that worked loads its ticker, whatever the page shows by now. *)
RefreshDone ==
  /\ button.at = "ok"
  /\ \E i \in Loads :
       /\ StartLoad(i, button.ticker)
       /\ button' = [button EXCEPT !.at = "loading", !.load = i]
  /\ promised' = [promised EXCEPT ![button.ticker] = button.wrote]
  /\ UNCHANGED <<header, body, version, worker, broken>>

RefreshRefusedStays ==              \* mutant: only a refresh that worked enables the button
  /\ button.at = "refused"
  /\ UNCHANGED vars

(* 429, a failed refresh or a network error: a message, and the button.    *)
RefreshRefused ==
  /\ button.at = "refused"
  /\ button' = Idle
  /\ UNCHANGED <<latest, header, body, load, version, worker, history>>

(* The scheduled update rewrites a stock.                                  *)
Update ==
  /\ \E t \in Known :
       /\ version[t] < MaxVersion
       /\ version' = [version EXCEPT ![t] = @ + 1]
  /\ UNCHANGED <<page, worker, history>>

Answers ==
  \/ \E i \in Loads : ServeLoad(i) \/ Answered(i) \/ Render(i)
  \/ ServeRefresh \/ RefreshDone \/ RefreshRefused

Next ==
  \/ Search \/ Click \/ Update \/ Claim \/ Store
  \/ Answers
  \/ \E i \in Loads : FallsBack(i) \/ LoadFails(i)

Spec == Init /\ [][Next]_vars

(* Every request is answered or fails.  A refresh that worked can load     *)
(* only while the bound leaves a call to make.                             *)
FairSpec == Spec /\ WF_vars(Answers)

------------------------------------------------------------------------------
Froms == {"fetch", "fallback"}

TypeOK ==
  /\ latest \in Tickers /\ header \in Tickers \cup {None}
  /\ body \in [ticker : Known \cup {None}, version : 0..MaxVersion, from : Froms]
  /\ load \in [Loads -> [ticker : Tickers \cup {None},
                         at : {"unused", "sent", "read", "body", "done"},
                         version : 0..MaxVersion, worker : BOOLEAN, from : Froms]]
  /\ button \in [at : {"idle", "posted", "ok", "refused", "loading"},
                 ticker : Tickers \cup {None}, load : Loads \cup {0}, wrote : 0..MaxVersion]
  /\ version \in [Known -> 1..MaxVersion]
  /\ controlled \in BOOLEAN
  /\ cached \in [Known -> 0..MaxVersion] /\ storing \subseteq [ticker : Known, version : 1..MaxVersion]
  /\ broken \in BOOLEAN /\ crossed \in BOOLEAN /\ unkept \in BOOLEAN
  /\ promised \in [Known -> 0..MaxVersion]

(* When no load is under way and none has failed (one that the service     *)
(* worker answered has not), the page shows the ticker asked for last,     *)
(* whatever order the answers came in: its own data if the server knows    *)
(* it, "not found" if it does not.                                         *)
ShowsLatestAtRest ==
  (InFlight = {} /\ ~broken) =>
    header = latest /\ (latest \in Known => body.ticker = latest)

(* What the visitor was told is refreshed is what the page then shows: at  *)
(* rest, unless loads of one ticker have crossed, one has failed, or the   *)
(* network is down and the answer is from the cache, the data is at least  *)
(* that of the last refresh of this ticker (networkFirst: "financial data  *)
(* should never silently look live when it's stale").                      *)
RefreshedIsShown ==
  /\ InFlight = {} /\ ~broken /\ ~crossed
  /\ body.ticker = latest /\ body.from = "fetch"
  => body.version >= promised[latest]

(* With the network down a reload shows what was shown: at rest the cache  *)
(* has the data on the page, or newer, unless loads of one ticker have     *)
(* crossed, or an answer was not kept (the page was not controlled yet, or *)
(* the connection broke).                                                  *)
OfflineShowsSame ==
  /\ InFlight = {} /\ storing = {} /\ ~unkept
  /\ body.ticker # None
  => cached[body.ticker] >= body.version

(* The button always comes back (unless the bound on loads is used up).    *)
ButtonComesBack ==
  (button # Idle) ~> (button = Idle \/ \A i \in Loads : load[i].at # "unused")
==============================================================================
