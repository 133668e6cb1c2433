---------------------------- MODULE RefreshBudget ----------------------------
(***************************************************************************)
(* The budget of the "Refresh Data" button (webapp/rate_limit.py, called   *)
(* by api_stock_refresh of webapp/app.py): a list of timestamps kept in    *)
(* the session cookie.  The server reads the cookie a request carries and  *)
(* the browser stores the one its answer sets; the tabs of one browser     *)
(* share it, and each disables its own button while it waits.              *)
(*                                                                         *)
(* A cookie is the set of the refreshes whose timestamps it lists; they    *)
(* are numbered in the order in which they were allowed.                   *)
(***************************************************************************)
EXTENDS Integers, Sequences, FiniteSets

CONSTANTS
  Tabs,
  Limit,          \* REFRESH_LIMIT
  Window,         \* REFRESH_WINDOW_SECONDS
  MaxTime         \* bound: the clock

ASSUME BudgetAssumption ==
  /\ Limit \in Nat \ {0} /\ Window \in Nat \ {0} /\ MaxTime \in Nat

VARIABLES
  now,            \* time.time()
  cookie,         \* refresh_history, as the browser holds it
  pc,             \* of a tab: "ready", "posted", "answered"
  carried,        \* the cookie a posted request carries, or its answer sets
  granted,        \* when refreshes were allowed: their timestamps
  denied,         \* histories: when requests were refused
  overlapped      \* histories: a request was posted while another had no answer yet

histories == <<denied, overlapped>>
budgetVars == <<now, cookie, pc, carried, granted, histories>>

BudgetInit ==
  /\ now = Window
  /\ cookie = {}
  /\ pc = [t \in Tabs |-> "ready"]
  /\ carried = [t \in Tabs |-> {}]
  /\ granted = << >>
  /\ denied = {}
  /\ overlapped = FALSE

------------------------------------------------------------------------------
Post(t) ==
  /\ pc[t] = "ready"
  /\ pc' = [pc EXCEPT ![t] = "posted"]
  /\ carried' = [carried EXCEPT ![t] = cookie]
  /\ overlapped' = (overlapped \/ \E u \in Tabs : pc[u] # "ready")
  /\ UNCHANGED <<now, cookie, granted, denied>>

RecentKept(ids) == ids              \* mutant: nothing ages out

RecentTooShort(ids) ==              \* mutant: the window is a moment too short
  {i \in ids : now - granted[i] + 1 < Window}

(* The refreshes of the rolling window.                                    *)
Recent(ids) == {i \in ids : now - granted[i] < Window}

AllowOneMore(t) ==                  \* mutant: > instead of >=
  /\ pc[t] = "posted"
  /\ Cardinality(Recent(carried[t])) <= Limit
  /\ carried' = [carried EXCEPT ![t] = Recent(@) \cup {Len(granted) + 1}]
  /\ granted' = Append(granted, now)
  /\ pc' = [pc EXCEPT ![t] = "answered"]
  /\ UNCHANGED <<now, cookie, denied, overlapped>>

(* check_and_record_refresh: an allowed request is recorded, a refused one *)
(* only drops what has aged out.                                           *)
Allow(t) ==
  /\ pc[t] = "posted"
  /\ Cardinality(Recent(carried[t])) < Limit
  /\ carried' = [carried EXCEPT ![t] = Recent(@) \cup {Len(granted) + 1}]
  /\ granted' = Append(granted, now)
  /\ pc' = [pc EXCEPT ![t] = "answered"]
  /\ UNCHANGED <<now, cookie, denied, overlapped>>

Refuse(t) ==
  /\ pc[t] = "posted"
  /\ Cardinality(Recent(carried[t])) >= Limit
  /\ carried' = [carried EXCEPT ![t] = Recent(@)]
  /\ denied' = denied \cup {now}
  /\ pc' = [pc EXCEPT ![t] = "answered"]
  /\ UNCHANGED <<now, cookie, granted, overlapped>>

(* Set-Cookie replaces whatever the browser holds by then.                 *)
Receive(t) ==
  /\ pc[t] = "answered"
  /\ cookie' = carried[t]
  /\ pc' = [pc EXCEPT ![t] = "ready"]
  /\ UNCHANGED <<now, carried, granted, histories>>

Tick ==
  /\ now < MaxTime
  /\ now' = now + 1
  /\ UNCHANGED <<cookie, pc, carried, granted, histories>>

BudgetNext == Tick \/ \E t \in Tabs : Post(t) \/ Allow(t) \/ Refuse(t) \/ Receive(t)

BudgetSpec == BudgetInit /\ [][BudgetNext]_budgetVars

------------------------------------------------------------------------------
BudgetTypeOK ==
  /\ now \in Nat
  /\ granted \in Seq(Nat)
  /\ cookie \subseteq 1..Len(granted) /\ Cardinality(cookie) <= Limit
  /\ pc \in [Tabs -> {"ready", "posted", "answered"}]
  /\ carried \in [Tabs -> SUBSET (1..Len(granted))]
  /\ denied \subseteq Nat /\ overlapped \in BOOLEAN

Within(times) ==
  \A i \in 1..Len(times) :
    i + Limit <= Len(times) => times[i + Limit] >= times[i] + Window

(* As long as each request of the session is posted after the answer to    *)
(* the one before it, from whichever tab, any rolling window holds at most *)
(* Limit refreshes: between one and the Limit-th after it a window passes. *)
WithinBudgetInTurn == ~overlapped => Within(granted)

(* Nobody is refused a refresh the budget allows: a refusal means that     *)
(* Limit refreshes really were made within the window before it, however   *)
(* many tabs there are and in whatever order their answers come back.      *)
RefusedOnlyWhenSpent ==
  \A d \in denied :
    Cardinality({i \in 1..Len(granted) : granted[i] <= d /\ d < granted[i] + Window}) >= Limit
==============================================================================
