----------------------------- MODULE PriceFetch ------------------------------
(***************************************************************************)
(* fetch_prices (src/marketpulse/extract/prices.py): a thread pool works   *)
(* through the tickers in order; each task makes up to MaxAttempts         *)
(* requests, every one of them through the shared limiter, and ends in a   *)
(* history or in a failed ticker.  Time is a clock; a thread wakes up at   *)
(* most Jitter late, and a request is answered within Timeout.             *)
(***************************************************************************)
EXTENDS RateLimiter, FiniteSets

CONSTANTS
  N,              \* tickers, numbered in the order pool.map submits them
  MaxWorkers,     \* settings.price_max_workers
  MaxAttempts,    \* stop_after_attempt
  RetryUnit,      \* wait_exponential's multiplier: one second
  RetryMax,       \* wait_exponential's max
  Timeout,        \* history(timeout=...)
  Jitter          \* how late the operating system may wake a sleeping thread

ASSUME FetchAssumption ==
  /\ N \in Nat
  /\ MaxWorkers \in Nat \ {0} /\ MaxAttempts \in 1..4
  /\ RetryUnit \in Nat /\ RetryMax \in Nat /\ Timeout \in Nat /\ Jitter \in Nat

(* The requests of one burst are over before its pause is: 8 slots of      *)
(* 0.25 s and a 10 s timeout against 30 s.                                 *)
ASSUME BurstAssumption == MaxWorkers * Interval + Jitter + Timeout <= BackoffStart

Tickers == 1..N

VARIABLES
  task,           \* "queued", "ready" to reserve, "asleep" until its slot, "sent", "ok", "failed"
  slot,           \* the slot the task reserved last
  due,            \* ready: when its retry delay ends; sent: when the request times out
  attempts        \* attempts begun

tasks == <<task, slot, due, attempts>>
vars == <<now, limiter, tasks>>

Init ==
  /\ InitLimiter
  /\ task = [t \in Tickers |-> "queued"]
  /\ slot = [t \in Tickers |-> 0]
  /\ due = [t \in Tickers |-> 0]
  /\ attempts = [t \in Tickers |-> 0]

------------------------------------------------------------------------------
(* The tasks that hold a worker thread.                                    *)
Active == {t \in Tickers : task[t] \in {"ready", "asleep", "sent"}}

CanStartUnlessFailed(t) ==      \* mutant: a task that gives up takes its worker with it
  /\ task[t] = "queued"
  /\ \A u \in Tickers : u < t => task[u] # "queued"
  /\ Cardinality(Active \cup {u \in Tickers : task[u] = "failed"}) < MaxWorkers

CanStart(t) ==
  /\ task[t] = "queued"
  /\ \A u \in Tickers : u < t => task[u] # "queued"
  /\ Cardinality(Active) < MaxWorkers

StartTask(t) ==
  /\ CanStart(t)
  /\ task' = [task EXCEPT ![t] = "ready"]
  /\ due' = [due EXCEPT ![t] = now]
  /\ UNCHANGED <<now, limiter, slot, attempts>>

(* OUTBOUND_LIMITER.wait() up to its sleep.                                *)
Reserve(t) ==
  /\ task[t] = "ready" /\ now >= due[t]
  /\ Wait
  /\ task' = [task EXCEPT ![t] = "asleep"]
  /\ slot' = [slot EXCEPT ![t] = Slot]
  /\ attempts' = [attempts EXCEPT ![t] = attempts[t] + 1]
  /\ UNCHANGED <<now, due>>

Send(t) ==
  /\ task[t] = "asleep" /\ now >= slot[t]
  /\ task' = [task EXCEPT ![t] = "sent"]
  /\ due' = [due EXCEPT ![t] = now + Timeout]
  /\ UNCHANGED <<now, limiter, slot, attempts>>

Succeeds(t) ==
  /\ task[t] = "sent"
  /\ OnSuccess
  /\ task' = [task EXCEPT ![t] = "ok"]
  /\ UNCHANGED <<now, slot, due, attempts>>

(* wait_exponential after attempt n, of four at most: 1, 2, 4 units.       *)
RetryDelay(n) == Earlier(RetryUnit * <<1, 2, 4>>[n], RetryMax)

RetryOffByOne(t) ==             \* mutant: one attempt too many
  /\ UNCHANGED <<now, slot, attempts>>
  /\ IF attempts[t] <= MaxAttempts
       THEN /\ task' = [task EXCEPT ![t] = "ready"]
            /\ due' = [due EXCEPT ![t] = now + RetryDelay(attempts[t])]
       ELSE /\ task' = [task EXCEPT ![t] = "failed"]
            /\ UNCHANGED due

(* TickerFetchError: tenacity sleeps and calls again, or gives up.         *)
Retry(t) ==
  /\ UNCHANGED <<now, slot, attempts>>
  /\ IF attempts[t] < MaxAttempts
       THEN /\ task' = [task EXCEPT ![t] = "ready"]
            /\ due' = [due EXCEPT ![t] = now + RetryDelay(attempts[t])]
       ELSE /\ task' = [task EXCEPT ![t] = "failed"]
            /\ UNCHANGED due

(* A network error, a timeout or an empty answer.                          *)
Fails(t) ==
  /\ task[t] = "sent"
  /\ Retry(t)
  /\ UNCHANGED limiter

(* The provider answers 429.                                               *)
Throttled(t) ==
  /\ task[t] = "sent"
  /\ OnRateLimit
  /\ Retry(t)

(* Time passes while some thread is waiting for it, and never beyond the   *)
(* moment at which a thread must have moved.                               *)
Tick ==
  /\ Active # {}
  /\ \A t \in Tickers :
       /\ ~CanStart(t)
       /\ task[t] = "ready" => now < due[t] + Jitter
       /\ task[t] = "asleep" => now < slot[t] + Jitter
       /\ task[t] = "sent" => now < due[t]
  /\ now' = now + 1
  /\ UNCHANGED <<limiter, tasks>>

Work(t) == StartTask(t) \/ Reserve(t) \/ Send(t) \/ Succeeds(t) \/ Fails(t) \/ Throttled(t)

Next == Tick \/ \E t \in Tickers : Work(t)

Spec == Init /\ [][Next]_vars

(* Threads are scheduled, and a request is answered or times out.          *)
FairSpec == Spec /\ WF_vars(Next)

------------------------------------------------------------------------------
TypeOK ==
  /\ now \in Nat /\ nextSlot \in Nat /\ pauseUntil \in Nat
  /\ pause \in {0} \cup BackoffStart..BackoffMax
  /\ task \in [Tickers -> {"queued", "ready", "asleep", "sent", "ok", "failed"}]
  /\ slot \in [Tickers -> Nat]
  /\ due \in [Tickers -> Nat]
  /\ attempts \in [Tickers -> 0..MaxAttempts]

(* Concurrent callers get evenly spaced slots: no two requests of the      *)
(* process are due less than the minimum interval apart, whichever threads *)
(* they come from and however many were throttled (ratelimit.py).          *)
SlotsSpaced ==
  \A t, u \in Tickers :
    t # u /\ attempts[t] > 0 /\ attempts[u] > 0 =>
      slot[t] + Interval <= slot[u] \/ slot[u] + Interval <= slot[t]

(* While a pause lasts the limiter knows its length: a success that comes  *)
(* in late, from before the throttle, does not reset the escalation.       *)
PauseInForce ==
  now < pauseUntil => pause \in BackoffStart..BackoffMax /\ pauseUntil <= now + pause

(* A request asked for after the throttle waits out the pause.             *)
NoSlotInsidePause ==
  [][\A t \in Tickers : attempts'[t] # attempts[t] => slot'[t] >= pauseUntil']_vars

(* Several workers reporting one burst count once, and only a request made *)
(* after the pause can end the escalation or carry it on: an answer that   *)
(* changes the pause was asked for after the previous pause was over.      *)
OnlyFreshAnswersCount ==
  [][\A t \in Tickers :
       pause' # pause /\ task[t] = "sent" /\ task'[t] # "sent" => slot[t] >= pauseUntil]_vars

(* Waiting callers are not serialised beyond their own slots: nobody is    *)
(* made to wait longer than the pause and one interval for each worker.    *)
WaitBounded ==
  \A t \in Tickers :
    task[t] = "asleep" => slot[t] <= Later(now, pauseUntil) + MaxWorkers * Interval

(* pool.map returns: every ticker ends in a history or in the failed list. *)
Terminates == <>(\A t \in Tickers : task[t] \in {"ok", "failed"})
==============================================================================
