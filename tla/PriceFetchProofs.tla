--------------------------- MODULE PriceFetchProofs --------------------------
(***************************************************************************)
(* Proofs about the shared rate limiter as fetch_prices uses it, for any   *)
(* number of tickers and workers, any interval and any pause.              *)
(***************************************************************************)
EXTENDS PriceFetch, FiniteSetTheorems, TLAPS

(* Every slot handed out lies one interval below the next one.             *)
SlotsBehind == \A t \in Tickers : attempts[t] > 0 => slot[t] + Interval <= nextSlot

(* The next slot is never inside the pause.                                *)
PauseBehind == pauseUntil <= nextSlot

(* A task that may still make a request has an attempt left; one that made *)
(* a request has begun one.                                                *)
AttemptsLeft ==
  \A t \in Tickers : /\ task[t] \in {"queued", "ready"} => attempts[t] < MaxAttempts
                     /\ task[t] \in {"asleep", "sent"} => attempts[t] > 0

IInv == TypeOK /\ AttemptsLeft /\ SlotsBehind /\ SlotsSpaced /\ PauseBehind /\ PauseInForce

------------------------------------------------------------------------------
(* The limiter's critical sections.                                        *)
LEMMA EscalatedBounds ==
  ASSUME LimiterAssumption, pause \in {0} \cup BackoffStart..BackoffMax
  PROVE  Escalated \in BackoffStart..BackoffMax
  BY DEF LimiterAssumption, Escalated, Earlier, Later

LEMMA OnRateLimitBounds ==
  ASSUME LimiterAssumption, TypeOK, PauseInForce, PauseBehind, OnRateLimit, UNCHANGED now
  PROVE  /\ nextSlot' \in Nat /\ pauseUntil' \in Nat
         /\ pause' \in {0} \cup BackoffStart..BackoffMax
         /\ nextSlot <= nextSlot'
         /\ PauseBehind' /\ PauseInForce'
  <1>1. Escalated \in BackoffStart..BackoffMax /\ Escalated \in Nat
    BY EscalatedBounds DEF TypeOK, LimiterAssumption
  <1>2. CASE now < pauseUntil
    BY <1>2 DEF OnRateLimit, limiter, TypeOK, PauseInForce, PauseBehind
  <1>3. CASE ~(now < pauseUntil)
    BY <1>1, <1>3 DEF OnRateLimit, Later, TypeOK, PauseInForce, PauseBehind
  <1> QED
    BY <1>2, <1>3

LEMMA OnSuccessBounds ==
  ASSUME TypeOK, PauseInForce, PauseBehind, OnSuccess, UNCHANGED now
  PROVE  /\ UNCHANGED <<nextSlot, pauseUntil>>
         /\ pause' \in {0} \cup BackoffStart..BackoffMax
         /\ PauseBehind' /\ PauseInForce'
  BY DEF TypeOK, OnSuccess, PauseInForce, PauseBehind

LEMMA RetryBounds ==
  ASSUME FetchAssumption, TypeOK, NEW t \in Tickers, attempts[t] > 0, Retry(t)
  PROVE  /\ task' \in [Tickers -> {"queued", "ready", "asleep", "sent", "ok", "failed"}]
         /\ \A u \in Tickers : \/ u # t /\ task'[u] = task[u]
                               \/ u = t /\ task'[u] = "ready" /\ attempts[u] < MaxAttempts
                               \/ u = t /\ task'[u] = "failed"
         /\ due' \in [Tickers -> Nat]
         /\ UNCHANGED <<now, slot, attempts>>
  <1>1. attempts[t] < MaxAttempts => RetryDelay(attempts[t]) \in Nat
    BY DEF FetchAssumption, TypeOK, RetryDelay, Earlier
  <1> QED
    BY <1>1 DEF Retry, TypeOK

------------------------------------------------------------------------------
LEMMA InitInv == ASSUME LimiterAssumption, FetchAssumption, Init PROVE IInv
  BY DEF LimiterAssumption, FetchAssumption, Init, InitLimiter, IInv, TypeOK, AttemptsLeft,
         SlotsBehind, SlotsSpaced, PauseBehind, PauseInForce

LEMMA ReserveInv ==
  ASSUME LimiterAssumption, FetchAssumption, IInv, NEW t \in Tickers, Reserve(t)
  PROVE  IInv' /\ slot'[t] >= pauseUntil' /\ \A u \in Tickers \ {t} : attempts'[u] = attempts[u]
  <1>0. TypeOK /\ AttemptsLeft /\ SlotsBehind /\ SlotsSpaced /\ PauseBehind /\ PauseInForce
    BY DEF IInv
  <1>1. Slot \in Nat /\ Slot >= now /\ Slot >= nextSlot /\ nextSlot' = Slot + Interval
        /\ Interval \in Nat /\ Interval > 0
    BY <1>0 DEF TypeOK, Slot, Later, Reserve, Wait, LimiterAssumption
  <1>2. /\ slot' = [slot EXCEPT ![t] = Slot]
        /\ attempts' = [attempts EXCEPT ![t] = attempts[t] + 1]
        /\ task' = [task EXCEPT ![t] = "asleep"]
        /\ UNCHANGED <<now, due, pause, pauseUntil>>
    BY DEF Reserve, Wait
  <1>3. attempts[t] + 1 \in 0..MaxAttempts /\ attempts[t] \in Nat
    BY <1>0 DEF TypeOK, AttemptsLeft, Reserve, FetchAssumption
  <1>4. /\ \A u \in Tickers : slot'[u] = IF u = t THEN Slot ELSE slot[u]
        /\ \A u \in Tickers : attempts'[u] = IF u = t THEN attempts[u] + 1 ELSE attempts[u]
        /\ \A u \in Tickers : task'[u] = IF u = t THEN "asleep" ELSE task[u]
    BY <1>0, <1>2 DEF TypeOK
  <1>5. TypeOK'
    <2>1. nextSlot' \in Nat /\ slot' \in [Tickers -> Nat]
      BY <1>0, <1>1, <1>2 DEF TypeOK
    <2>2. attempts' \in [Tickers -> 0..MaxAttempts]
      BY <1>0, <1>2, <1>3 DEF TypeOK
    <2>3. task' \in [Tickers -> {"queued", "ready", "asleep", "sent", "ok", "failed"}]
      BY <1>0, <1>2 DEF TypeOK
    <2> QED
      BY <1>0, <1>2, <2>1, <2>2, <2>3 DEF TypeOK
  <1>6. AttemptsLeft'
    BY <1>0, <1>3, <1>4 DEF AttemptsLeft
  <1>7. \A u \in Tickers : slot[u] \in Nat /\ nextSlot \in Nat /\ attempts[u] \in Nat
    BY <1>0 DEF TypeOK
  <1>8. SlotsBehind'
    BY <1>0, <1>1, <1>4, <1>7 DEF SlotsBehind
  <1>9. SlotsSpaced'
    <2> SUFFICES ASSUME NEW u \in Tickers, NEW v \in Tickers, u # v,
                        attempts'[u] > 0, attempts'[v] > 0
                 PROVE  slot'[u] + Interval <= slot'[v] \/ slot'[v] + Interval <= slot'[u]
      BY DEF SlotsSpaced
    <2>1. CASE u = t
      BY <1>0, <1>1, <1>4, <1>7, <2>1 DEF SlotsBehind
    <2>2. CASE v = t
      BY <1>0, <1>1, <1>4, <1>7, <2>2 DEF SlotsBehind
    <2>3. CASE u # t /\ v # t
      BY <1>0, <1>4, <2>3 DEF SlotsSpaced
    <2> QED
      BY <2>1, <2>2, <2>3
  <1>10. PauseBehind' /\ PauseInForce' /\ slot'[t] >= pauseUntil'
    BY <1>0, <1>1, <1>2, <1>4 DEF PauseBehind, PauseInForce, TypeOK
  <1> QED
    BY <1>4, <1>5, <1>6, <1>8, <1>9, <1>10 DEF IInv

(* A step that reserves nothing keeps the slots where they are, and may    *)
(* only move the next one later.                                           *)
LEMMA OtherInv ==
  ASSUME LimiterAssumption, IInv, UNCHANGED <<slot, attempts>>, nextSlot' \in Nat,
         nextSlot <= nextSlot', TypeOK', AttemptsLeft', PauseBehind', PauseInForce'
  PROVE  IInv'
  <1>1. SlotsBehind'
    BY DEF IInv, TypeOK, SlotsBehind, LimiterAssumption
  <1>2. SlotsSpaced'
    BY DEF IInv, SlotsSpaced
  <1> QED
    BY <1>1, <1>2 DEF IInv

LEMMA AnswerInv ==
  ASSUME LimiterAssumption, FetchAssumption, IInv, NEW t \in Tickers,
         Succeeds(t) \/ Fails(t) \/ Throttled(t)
  PROVE  IInv' /\ UNCHANGED attempts
  <1>0. TypeOK /\ AttemptsLeft /\ PauseBehind /\ PauseInForce /\ attempts[t] > 0
    BY DEF IInv, AttemptsLeft, Succeeds, Fails, Throttled
  <1>1. CASE Succeeds(t)
    <2>1. /\ UNCHANGED <<nextSlot, pauseUntil>> /\ PauseBehind' /\ PauseInForce'
          /\ pause' \in {0} \cup BackoffStart..BackoffMax
      BY <1>0, <1>1, OnSuccessBounds DEF Succeeds
    <2>2. task' = [task EXCEPT ![t] = "ok"] /\ UNCHANGED <<now, slot, due, attempts>>
      BY <1>1 DEF Succeeds
    <2>3. TypeOK'
      BY <1>0, <2>1, <2>2 DEF TypeOK
    <2>4. AttemptsLeft'
      BY <1>0, <2>2 DEF TypeOK, AttemptsLeft
    <2> QED
      BY <1>0, <2>1, <2>2, <2>3, <2>4, OtherInv DEF TypeOK
  <1>2. CASE Fails(t)
    <2>1. UNCHANGED limiter /\ Retry(t)
      BY <1>2 DEF Fails
    <2>2. TypeOK' /\ AttemptsLeft' /\ UNCHANGED <<now, slot, attempts>>
      BY <1>0, <2>1, RetryBounds DEF limiter, TypeOK, AttemptsLeft
    <2>3. PauseBehind' /\ PauseInForce'
      BY <1>0, <2>1, <2>2 DEF limiter, PauseBehind, PauseInForce
    <2> QED
      BY <1>0, <2>1, <2>2, <2>3, OtherInv DEF limiter, TypeOK
  <1>3. CASE Throttled(t)
    <2>1. Retry(t) /\ OnRateLimit
      BY <1>3 DEF Throttled
    <2>2. UNCHANGED <<now, slot, attempts>>
      BY <2>1 DEF Retry
    <2>3. /\ nextSlot' \in Nat /\ pauseUntil' \in Nat /\ nextSlot <= nextSlot'
          /\ pause' \in {0} \cup BackoffStart..BackoffMax /\ PauseBehind' /\ PauseInForce'
      BY <1>0, <2>1, <2>2, OnRateLimitBounds
    <2>4. TypeOK' /\ AttemptsLeft'
      BY <1>0, <2>1, <2>2, <2>3, RetryBounds DEF TypeOK, AttemptsLeft
    <2> QED
      BY <2>2, <2>3, <2>4, OtherInv
  <1> QED
    BY <1>1, <1>2, <1>3

LEMMA MoveInv ==
  ASSUME LimiterAssumption, FetchAssumption, IInv, NEW t \in Tickers,
         StartTask(t) \/ Send(t)
  PROVE  IInv' /\ UNCHANGED attempts
  <1>0. TypeOK /\ AttemptsLeft /\ PauseBehind /\ PauseInForce /\ now + Timeout \in Nat
    BY DEF IInv, TypeOK, FetchAssumption
  <1>1. UNCHANGED <<now, nextSlot, pause, pauseUntil, slot, attempts>>
    BY DEF StartTask, Send, limiter
  <1>2. TypeOK'
    BY <1>0, <1>1 DEF StartTask, Send, TypeOK
  <1>3. AttemptsLeft'
    BY <1>0, <1>1 DEF StartTask, CanStart, Send, TypeOK, AttemptsLeft
  <1>4. PauseBehind' /\ PauseInForce'
    BY <1>0, <1>1 DEF PauseBehind, PauseInForce
  <1> QED
    BY <1>0, <1>1, <1>2, <1>3, <1>4, OtherInv DEF TypeOK

LEMMA LaterStill ==
  ASSUME NEW a \in Nat, NEW b \in Nat, NEW c \in Nat, NEW d \in Nat, a <= b, d <= a + c
  PROVE  d <= b + c
  OBVIOUS

LEMMA TickInv ==
  ASSUME LimiterAssumption, IInv, Tick \/ UNCHANGED vars PROVE IInv' /\ UNCHANGED attempts
  <1>1. /\ now' \in Nat /\ now <= now'
        /\ UNCHANGED <<nextSlot, pause, pauseUntil, task, slot, due, attempts>>
    BY DEF IInv, TypeOK, Tick, vars, limiter, tasks
  <1>2. TypeOK' /\ AttemptsLeft' /\ PauseBehind'
    BY <1>1 DEF IInv, TypeOK, AttemptsLeft, PauseBehind
  <1>3. PauseInForce'
    <2>1. now \in Nat /\ pauseUntil \in Nat /\ pause \in Nat
      BY DEF IInv, TypeOK, LimiterAssumption
    <2>2. now' < pauseUntil' => now < pauseUntil
      BY <1>1, <2>1
    <2>3. now < pauseUntil => pause \in BackoffStart..BackoffMax
      BY DEF IInv, PauseInForce
    <2>4. now < pauseUntil => pauseUntil <= now' + pause
      <3>1. now < pauseUntil => pauseUntil <= now + pause
        BY DEF IInv, PauseInForce
      <3>2. now' \in Nat /\ now <= now'
        BY <1>1
      <3> QED
        BY <2>1, <3>1, <3>2, LaterStill
    <2>5. UNCHANGED <<pause, pauseUntil>>
      BY <1>1
    <2> QED
      BY <2>2, <2>3, <2>4, <2>5 DEF PauseInForce
  <1> QED
    BY <1>1, <1>2, <1>3, OtherInv DEF IInv, TypeOK

LEMMA NextInv ==
  ASSUME LimiterAssumption, FetchAssumption, IInv, [Next]_vars
  PROVE  /\ IInv'
         /\ \A t \in Tickers : attempts'[t] # attempts[t] => slot'[t] >= pauseUntil'
  <1>1. CASE Tick \/ UNCHANGED vars
    BY <1>1, TickInv
  <1>2. ASSUME NEW t \in Tickers, Reserve(t)
        PROVE  /\ IInv'
               /\ \A u \in Tickers : attempts'[u] # attempts[u] => slot'[u] >= pauseUntil'
    BY <1>2, ReserveInv
  <1>3. ASSUME NEW t \in Tickers, Work(t), ~Reserve(t)
        PROVE  IInv' /\ UNCHANGED attempts
    BY <1>3, AnswerInv, MoveInv DEF Work
  <1> QED
    BY <1>1, <1>2, <1>3 DEF Next

------------------------------------------------------------------------------
LEMMA Invariant == Spec => []IInv
  <1>1. Init => IInv
    BY InitInv, LimiterAssumption, FetchAssumption
  <1>2. IInv /\ [Next]_vars => IInv'
    BY NextInv, LimiterAssumption, FetchAssumption
  <1> QED
    BY <1>1, <1>2, PTL DEF Spec

(* The variables keep their types, whatever the provider answers.          *)
THEOREM FetchTypeCorrect == Spec => []TypeOK
  <1>1. IInv => TypeOK
    BY DEF IInv
  <1> QED
    BY <1>1, Invariant, PTL

(* Slots are spaced for any number of threads, with throttles, retries and *)
(* late wake-ups in any order.                                             *)
THEOREM SpacingCorrect == Spec => []SlotsSpaced
  <1>1. IInv => SlotsSpaced
    BY DEF IInv
  <1> QED
    BY <1>1, Invariant, PTL

(* The pause in force is known for as long as it lasts.                    *)
THEOREM PauseCorrect == Spec => []PauseInForce
  <1>1. IInv => PauseInForce
    BY DEF IInv
  <1> QED
    BY <1>1, Invariant, PTL

(* Nobody who asks after a throttle is given a slot inside the pause.      *)
THEOREM SlotsOutsidePause == Spec => NoSlotInsidePause
  <1>1. IInv /\ [Next]_vars =>
          [\A t \in Tickers : attempts'[t] # attempts[t] => slot'[t] >= pauseUntil']_vars
    BY NextInv, LimiterAssumption, FetchAssumption
  <1> QED
    BY <1>1, Invariant, PTL DEF Spec, NoSlotInsidePause
------------------------------------------------------------------------------
(* How long a caller waits, and whose answer it is that changes the pause. *)

(* The callers whose slot is later than x.                                 *)
Behind(x) == {t \in Tickers : task[t] = "asleep" /\ slot[t] > x}

WorkersEnough == Cardinality(Active) <= MaxWorkers

(* Beyond any moment x that is neither past nor inside the pause, the      *)
(* queue is made of callers still waiting: an interval for each.           *)
QueueShort ==
  \A x \in Nat : x >= now /\ x >= pauseUntil =>
    nextSlot <= x + Interval * (1 + Cardinality(Behind(x)))

(* A thread wakes at most Jitter late, a request is answered in time.      *)
OnTime ==
  \A t \in Tickers :
    /\ task[t] = "asleep" => now <= slot[t] + Jitter
    /\ task[t] = "sent" => now <= due[t] /\ due[t] <= now + Timeout

(* What was asked for before the pause is answered before it ends.         *)
OldAnswersEarly ==
  \A t \in Tickers : slot[t] < pauseUntil =>
    /\ task[t] = "asleep" => slot[t] + Jitter + Timeout < pauseUntil
    /\ task[t] = "sent" => due[t] < pauseUntil

QInv == IInv /\ WorkersEnough /\ QueueShort /\ OnTime

LEMMA FiniteTickers ==
  ASSUME FetchAssumption
  PROVE  \A S \in SUBSET Tickers : IsFiniteSet(S) /\ Cardinality(S) \in Nat
  <1>1. N \in Nat /\ IsFiniteSet(Tickers)
    BY FS_Interval DEF FetchAssumption, Tickers
  <1> QED
    BY <1>1, FS_Subset, FS_CardinalityType

LEMMA FewerCallers ==
  ASSUME FetchAssumption, NEW S \in SUBSET Tickers, NEW T \in SUBSET S
  PROVE  Cardinality(T) <= Cardinality(S)
  BY FiniteTickers, FS_Subset

(* A step after which no task is newly active keeps the workers enough.    *)
LEMMA WorkersKept ==
  ASSUME FetchAssumption, WorkersEnough, Active' \subseteq Active
  PROVE  WorkersEnough'
  <1>1. Active \in SUBSET Tickers /\ Active' \in SUBSET Active
    BY DEF Active
  <1>2. Cardinality(Active') <= Cardinality(Active)
    BY <1>1, FewerCallers
  <1>3. Cardinality(Active) \in Nat /\ Cardinality(Active') \in Nat /\ MaxWorkers \in Nat
    BY <1>1, FiniteTickers DEF FetchAssumption
  <1> QED
    BY <1>2, <1>3 DEF WorkersEnough

LEMMA MoreCallersMoreTime ==
  ASSUME NEW i \in Nat, NEW m \in Nat, NEW n \in Nat, m <= n
  PROVE  i * m <= i * n /\ i * m \in Nat /\ i * n \in Nat
  OBVIOUS

LEMMA OneMoreInterval ==
  ASSUME NEW i \in Nat, NEW m \in Nat
  PROVE  i * (1 + (m + 1)) = i * (1 + m) + i /\ i * (1 + m) \in Nat /\ i <= i * (1 + m)
  <1>1. i * m \in Nat
    OBVIOUS
  <1>2. i * (1 + m) = i + i * m /\ i * (1 + (m + 1)) = i + i * m + i
    OBVIOUS
  <1> QED
    BY <1>1, <1>2

(* A caller waits its own slot out: this is where WaitBounded comes from.  *)
LEMMA SlotBounded ==
  ASSUME LimiterAssumption, FetchAssumption, QInv, NEW x \in Nat, x >= now, x >= pauseUntil
  PROVE  \A t \in Tickers :
           task[t] = "asleep" =>
             /\ slot[t] <= x + Interval * MaxWorkers
             /\ \A u \in Tickers : task[u] = "sent" =>
                  slot[t] <= x + Interval * MaxWorkers - Interval
  <1>0. /\ TypeOK /\ SlotsBehind /\ AttemptsLeft /\ WorkersEnough /\ QueueShort
        /\ Interval \in Nat /\ Interval > 0 /\ MaxWorkers \in Nat /\ nextSlot \in Nat
    BY DEF QInv, IInv, TypeOK, LimiterAssumption, FetchAssumption
  <1> DEFINE B == Behind(x)
  <1>1. /\ B \in SUBSET Tickers /\ B \subseteq Active /\ Active \in SUBSET Tickers
    BY DEF Behind, Active
  <1>2. /\ Cardinality(B) \in Nat /\ Cardinality(Active) \in Nat
        /\ IsFiniteSet(B) /\ Cardinality(B) <= Cardinality(Active)
    BY <1>1, FiniteTickers, FewerCallers
  <1>3. nextSlot <= x + Interval * (1 + Cardinality(B))
    BY <1>0 DEF QueueShort
  <1> HIDE DEF B
  <1>4. /\ Interval * (1 + Cardinality(B)) = Interval * Cardinality(B) + Interval
        /\ Interval * Cardinality(B) \in Nat /\ Interval * MaxWorkers \in Nat
    BY <1>0, <1>2
  <1>5. TAKE t \in Tickers
  <1>6. HAVE task[t] = "asleep"
  <1>7. slot[t] + Interval <= nextSlot /\ slot[t] \in Nat
    BY <1>0, <1>6 DEF SlotsBehind, AttemptsLeft, TypeOK
  <1>8. slot[t] <= x + Interval * Cardinality(B)
    BY <1>0, <1>3, <1>4, <1>7
  <1>9. slot[t] <= x + Interval * MaxWorkers
    <2>1. Cardinality(B) <= MaxWorkers
      BY <1>0, <1>2 DEF WorkersEnough
    <2>2. Interval * Cardinality(B) <= Interval * MaxWorkers
      BY <1>0, <1>2, <2>1, MoreCallersMoreTime
    <2> QED
      BY <1>4, <1>7, <1>8, <2>2
  <1>10. ASSUME NEW u \in Tickers, task[u] = "sent"
         PROVE  slot[t] <= x + Interval * MaxWorkers - Interval
    <2>1. u \notin B /\ u \in Active
      BY <1>10 DEF B, Behind, Active
    <2>2. B \in SUBSET (Active \ {u}) /\ Active \ {u} \in SUBSET Tickers
      BY <1>1, <2>1
    <2>3. Cardinality(Active \ {u}) = Cardinality(Active) - 1
      BY <1>1, <2>1, FiniteTickers, FS_RemoveElement
    <2>4. Cardinality(B) <= Cardinality(Active \ {u})
      BY <2>2, FewerCallers
    <2>5. Cardinality(B) + 1 <= MaxWorkers
      BY <1>0, <1>2, <2>3, <2>4 DEF WorkersEnough
    <2>6. Interval * (Cardinality(B) + 1) <= Interval * MaxWorkers
      BY <1>0, <1>2, <2>5, MoreCallersMoreTime
    <2>7. Interval * Cardinality(B) + Interval <= Interval * MaxWorkers
      BY <1>0, <1>2, <2>6
    <2> QED
      BY <1>0, <1>4, <1>7, <1>8, <2>7
  <1> QED
    BY <1>9, <1>10

(* What a step must do to the tasks and the limiter to keep the queue      *)
(* short: nobody new is behind, and the next slot moves to the end of a    *)
(* new pause at most.                                                      *)
LEMMA QueueKept ==
  ASSUME FetchAssumption, LimiterAssumption, TypeOK, TypeOK', QueueShort,
         now <= now', pauseUntil <= pauseUntil',
         nextSlot' = nextSlot \/ nextSlot' <= pauseUntil',
         \A t \in Tickers : task'[t] = "asleep" /\ slot'[t] > now =>
                              task[t] = "asleep" /\ slot'[t] = slot[t],
         \A t \in Tickers : task[t] = "asleep" /\ slot[t] > now =>
                              task'[t] = "asleep" /\ slot'[t] = slot[t]
  PROVE  QueueShort'
  <1>1. SUFFICES ASSUME NEW x \in Nat, x >= now', x >= pauseUntil'
                 PROVE  nextSlot' <= x + Interval * (1 + Cardinality(Behind(x)'))
    BY DEF QueueShort, Behind
  <1>2. /\ now \in Nat /\ now' \in Nat /\ pauseUntil \in Nat /\ pauseUntil' \in Nat
        /\ nextSlot \in Nat /\ nextSlot' \in Nat /\ Interval \in Nat
        /\ \A t \in Tickers : slot[t] \in Nat /\ slot'[t] \in Nat
    BY DEF TypeOK, LimiterAssumption
  <1>3. x >= now /\ x >= pauseUntil
    BY <1>1, <1>2
  <1>4. Behind(x)' = Behind(x)
    BY <1>1, <1>2, <1>3 DEF Behind
  <1>5. Behind(x) \in SUBSET Tickers
    BY DEF Behind
  <1>6. Cardinality(Behind(x)) \in Nat
    BY <1>5, FiniteTickers
  <1>7. Interval * (1 + Cardinality(Behind(x))) \in Nat
    BY <1>2, <1>6
  <1>8. nextSlot <= x + Interval * (1 + Cardinality(Behind(x)))
    BY <1>3 DEF QueueShort
  <1> QED
    BY <1>1, <1>2, <1>4, <1>7, <1>8

LEMMA ReserveQueue ==
  ASSUME LimiterAssumption, FetchAssumption, QInv, IInv', NEW t \in Tickers, Reserve(t)
  PROVE  WorkersEnough' /\ QueueShort' /\ OnTime'
  <1>0. /\ TypeOK /\ TypeOK' /\ PauseBehind /\ QueueShort /\ WorkersEnough /\ OnTime
        /\ Interval \in Nat /\ Interval > 0 /\ Jitter \in Nat
    BY DEF QInv, IInv, LimiterAssumption, FetchAssumption
  <1>1. /\ now \in Nat /\ nextSlot \in Nat /\ pauseUntil \in Nat /\ pauseUntil <= nextSlot
        /\ \A u \in Tickers : slot[u] \in Nat
    BY <1>0 DEF TypeOK, PauseBehind
  <1>2. /\ UNCHANGED <<now, pauseUntil, due>> /\ nextSlot' = Slot + Interval /\ task[t] = "ready"
        /\ \A u \in Tickers : slot'[u] = IF u = t THEN Slot ELSE slot[u]
        /\ \A u \in Tickers : task'[u] = IF u = t THEN "asleep" ELSE task[u]
    BY <1>0 DEF Reserve, Wait, TypeOK
  <1>3. Slot \in Nat /\ Slot >= now /\ Slot >= nextSlot /\ Slot \in {now, nextSlot}
    BY <1>1 DEF Slot, Later
  <1>4. WorkersEnough'
    <2>1. Active' \subseteq Active
      BY <1>2 DEF Active
    <2> QED
      BY <1>0, <2>1, WorkersKept
  <1>5. OnTime'
    BY <1>0, <1>1, <1>2, <1>3 DEF OnTime
  <1>6. QueueShort'
    <2>1. SUFFICES ASSUME NEW x \in Nat, x >= now, x >= pauseUntil
                   PROVE  Slot + Interval <= x + Interval * (1 + Cardinality(Behind(x)'))
      BY <1>2 DEF QueueShort, Behind
    <2>2. Behind(x) \in SUBSET Tickers /\ Behind(x)' \in SUBSET Tickers
      BY DEF Behind
    <2>3. Cardinality(Behind(x)) \in Nat /\ Cardinality(Behind(x)') \in Nat /\ IsFiniteSet(Behind(x))
      BY <2>2, FiniteTickers
    <2>4. CASE x >= Slot
      <3>1. Interval <= Interval * (1 + Cardinality(Behind(x)'))
            /\ Interval * (1 + Cardinality(Behind(x)')) \in Nat
        BY <1>0, <2>3, OneMoreInterval
      <3> QED
        BY <1>0, <1>3, <2>4, <3>1
    <2>5. CASE x < Slot
      <3>1. Slot = nextSlot
        BY <1>1, <1>3, <2>1, <2>5
      <3>2. t \notin Behind(x)
        BY <1>2 DEF Behind
      <3>3. Behind(x)' = Behind(x) \cup {t}
        BY <1>2, <2>5 DEF Behind
      <3>4. Cardinality(Behind(x)') = Cardinality(Behind(x)) + 1
        BY <2>3, <3>2, <3>3, FS_AddElement
      <3>5. nextSlot <= x + Interval * (1 + Cardinality(Behind(x)))
        BY <1>0, <2>1 DEF QueueShort
      <3>6. Interval * (1 + (Cardinality(Behind(x)) + 1))
              = Interval * (1 + Cardinality(Behind(x))) + Interval
            /\ Interval * (1 + Cardinality(Behind(x))) \in Nat
        BY <1>0, <2>3, OneMoreInterval
      <3>7. 1 + Cardinality(Behind(x)') = 1 + (Cardinality(Behind(x)) + 1)
        BY <3>4
      <3> HIDE DEF Behind
      <3> QED
        BY <1>0, <1>1, <3>1, <3>5, <3>6, <3>7
    <2> QED
      BY <1>3, <2>4, <2>5
  <1> QED
    BY <1>4, <1>5, <1>6

LEMMA StartQueue ==
  ASSUME LimiterAssumption, FetchAssumption, QInv, IInv', NEW t \in Tickers, StartTask(t)
  PROVE  WorkersEnough' /\ QueueShort' /\ OnTime'
  <1>0. /\ TypeOK /\ TypeOK' /\ QueueShort /\ WorkersEnough /\ OnTime
        /\ now \in Nat /\ pauseUntil \in Nat
    BY DEF QInv, IInv, TypeOK
  <1>1. /\ UNCHANGED <<now, nextSlot, pauseUntil, slot>> /\ task[t] = "queued"
        /\ \A u \in Tickers : task'[u] = IF u = t THEN "ready" ELSE task[u]
        /\ \A u \in Tickers : u # t => due'[u] = due[u]
        /\ Cardinality(Active) < MaxWorkers
    BY <1>0 DEF StartTask, CanStart, TypeOK, limiter
  <1>2. WorkersEnough'
    <2>1. Active' = Active \cup {t} /\ t \notin Active /\ Active \in SUBSET Tickers
      BY <1>1 DEF Active
    <2>2. Cardinality(Active') = Cardinality(Active) + 1 /\ Cardinality(Active) \in Nat
      BY <2>1, FiniteTickers, FS_AddElement
    <2> QED
      BY <1>1, <2>2 DEF WorkersEnough, FetchAssumption
  <1>3. OnTime'
    BY <1>0, <1>1 DEF OnTime
  <1>4. QueueShort'
    BY <1>0, <1>1, QueueKept
  <1> QED
    BY <1>2, <1>3, <1>4

LEMMA SendQueue ==
  ASSUME LimiterAssumption, FetchAssumption, QInv, IInv', NEW t \in Tickers, Send(t)
  PROVE  WorkersEnough' /\ QueueShort' /\ OnTime'
  <1>0. /\ TypeOK /\ TypeOK' /\ QueueShort /\ WorkersEnough /\ OnTime
        /\ now \in Nat /\ pauseUntil \in Nat /\ Timeout \in Nat /\ Jitter \in Nat
        /\ \A u \in Tickers : slot[u] \in Nat /\ due[u] \in Nat
    BY DEF QInv, IInv, TypeOK, FetchAssumption
  <1>1. /\ UNCHANGED <<now, nextSlot, pauseUntil, slot>> /\ task[t] = "asleep" /\ now >= slot[t]
        /\ \A u \in Tickers : task'[u] = IF u = t THEN "sent" ELSE task[u]
        /\ \A u \in Tickers : due'[u] = IF u = t THEN now + Timeout ELSE due[u]
    BY <1>0 DEF Send, TypeOK, limiter
  <1>2. WorkersEnough'
    <2>1. Active' \subseteq Active
      BY <1>1 DEF Active
    <2> QED
      BY <1>0, <2>1, WorkersKept
  <1>3. OnTime'
    BY <1>0, <1>1 DEF OnTime
  <1>4. QueueShort'
    BY <1>0, <1>1, QueueKept
  <1> QED
    BY <1>2, <1>3, <1>4

(* An answer: the task goes back to the queue's end or is done, and only a *)
(* throttle outside a pause moves the limiter.                             *)
LEMMA AnswerStep ==
  ASSUME LimiterAssumption, FetchAssumption, IInv, IInv', NEW t \in Tickers,
         Succeeds(t) \/ Fails(t) \/ Throttled(t)
  PROVE  /\ UNCHANGED <<now, slot, attempts>> /\ task[t] = "sent"
         /\ task'[t] \in {"ready", "ok", "failed"}
         /\ \A u \in Tickers \ {t} : task'[u] = task[u] /\ due'[u] = due[u]
         /\ pauseUntil <= pauseUntil'
         /\ nextSlot' = nextSlot \/ nextSlot' <= pauseUntil'
         /\ pause' # pause => now >= pauseUntil
         /\ \/ pauseUntil' = pauseUntil
            \/ now >= pauseUntil /\ pauseUntil' >= now + BackoffStart
  <1>0. /\ TypeOK /\ TypeOK' /\ AttemptsLeft /\ PauseBehind /\ PauseInForce
        /\ now \in Nat /\ nextSlot \in Nat /\ pauseUntil \in Nat
        /\ BackoffStart \in Nat /\ BackoffMax \in Nat
    BY DEF IInv, TypeOK, LimiterAssumption
  <1>1. task[t] = "sent" /\ attempts[t] > 0
    BY <1>0 DEF Succeeds, Fails, Throttled, AttemptsLeft
  <1>2. CASE Succeeds(t)
    BY <1>0, <1>1, <1>2 DEF Succeeds, OnSuccess, TypeOK
  <1>3. ASSUME Retry(t)
        PROVE  /\ UNCHANGED <<now, slot, attempts>> /\ task'[t] \in {"ready", "failed"}
               /\ \A u \in Tickers \ {t} : task'[u] = task[u] /\ due'[u] = due[u]
    <2>1. task \in [Tickers -> {"queued", "ready", "asleep", "sent", "ok", "failed"}]
          /\ due \in [Tickers -> Nat]
      BY <1>0 DEF TypeOK
    <2> QED
      BY <1>3, <2>1 DEF Retry
  <1>4. CASE Fails(t)
    <2>1. Retry(t) /\ UNCHANGED limiter
      BY <1>4 DEF Fails
    <2>2. UNCHANGED <<nextSlot, pause, pauseUntil>>
      BY <2>1 DEF limiter
    <2> QED
      BY <1>0, <1>1, <1>3, <2>1, <2>2
  <1>5. CASE Throttled(t)
    <2>1. Retry(t) /\ OnRateLimit
      BY <1>5 DEF Throttled
    <2>2. Escalated \in Nat /\ Escalated >= BackoffStart
      BY <1>0, EscalatedBounds DEF TypeOK
    <2>3. /\ pauseUntil <= pauseUntil'
          /\ nextSlot' = nextSlot \/ nextSlot' <= pauseUntil'
          /\ pause' # pause => now >= pauseUntil
          /\ \/ pauseUntil' = pauseUntil
             \/ now >= pauseUntil /\ pauseUntil' >= now + BackoffStart
      <3>1. CASE now < pauseUntil
        BY <1>0, <2>1, <3>1 DEF OnRateLimit, limiter
      <3>2. CASE ~(now < pauseUntil)
        BY <1>0, <2>1, <2>2, <3>2 DEF OnRateLimit, Later
      <3> QED
        BY <3>1, <3>2
    <2> QED
      BY <1>1, <1>3, <2>1, <2>3
  <1> QED
    BY <1>2, <1>4, <1>5


LEMMA AnswerQueue ==
  ASSUME LimiterAssumption, FetchAssumption, QInv, IInv', NEW t \in Tickers,
         Succeeds(t) \/ Fails(t) \/ Throttled(t)
  PROVE  WorkersEnough' /\ QueueShort' /\ OnTime'
  <1>0. /\ IInv /\ TypeOK /\ TypeOK' /\ QueueShort /\ WorkersEnough /\ OnTime
        /\ now \in Nat /\ pauseUntil \in Nat
    BY DEF QInv, IInv, TypeOK
  <1>1. /\ UNCHANGED <<now, slot>> /\ task[t] = "sent" /\ task'[t] \in {"ready", "ok", "failed"}
        /\ \A u \in Tickers \ {t} : task'[u] = task[u] /\ due'[u] = due[u]
        /\ pauseUntil <= pauseUntil' /\ (nextSlot' = nextSlot \/ nextSlot' <= pauseUntil')
    BY <1>0, AnswerStep
  <1>2. WorkersEnough'
    <2>1. Active' \subseteq Active
      BY <1>1 DEF Active
    <2> QED
      BY <1>0, <2>1, WorkersKept
  <1>3. OnTime'
    BY <1>0, <1>1 DEF OnTime
  <1>4. QueueShort'
    <2>1. \A u \in Tickers : task[u] = "asleep" <=> task'[u] = "asleep"
      BY <1>1
    <2> QED
      BY <1>0, <1>1, <2>1, QueueKept
  <1> QED
    BY <1>2, <1>3, <1>4

LEMMA TickQueue ==
  ASSUME LimiterAssumption, FetchAssumption, QInv, IInv', Tick \/ UNCHANGED vars
  PROVE  WorkersEnough' /\ QueueShort' /\ OnTime'
  <1>0. /\ TypeOK /\ TypeOK' /\ QueueShort /\ WorkersEnough /\ OnTime
        /\ now \in Nat /\ pauseUntil \in Nat /\ Timeout \in Nat /\ Jitter \in Nat
        /\ \A u \in Tickers : slot[u] \in Nat /\ due[u] \in Nat
    BY DEF QInv, IInv, TypeOK, FetchAssumption
  <1>1. UNCHANGED <<nextSlot, pauseUntil, task, slot, due>> /\ now <= now'
    BY <1>0 DEF Tick, vars, limiter, tasks
  <1>2. \/ now' = now
        \/ /\ now' = now + 1
           /\ \A t \in Tickers : /\ task[t] = "asleep" => now < slot[t] + Jitter
                                 /\ task[t] = "sent" => now < due[t]
    BY DEF Tick, vars
  <1>3. WorkersEnough'
    <2>1. Active' \subseteq Active
      BY <1>1 DEF Active
    <2> QED
      BY <1>0, <2>1, WorkersKept
  <1>4. OnTime'
    BY <1>0, <1>1, <1>2 DEF OnTime
  <1>5. QueueShort'
    BY <1>0, <1>1, QueueKept
  <1> QED
    BY <1>3, <1>4, <1>5

LEMMA QueueInit ==
  ASSUME LimiterAssumption, FetchAssumption, Init
  PROVE  WorkersEnough /\ QueueShort /\ OnTime /\ OldAnswersEarly
  <1>1. /\ now = 0 /\ nextSlot = 0 /\ pauseUntil = 0
        /\ \A t \in Tickers : task[t] = "queued" /\ slot[t] = 0
    BY DEF Init, InitLimiter
  <1>2. WorkersEnough
    <2>1. Active = {}
      BY <1>1 DEF Active
    <2> QED
      BY <2>1, FS_EmptySet DEF WorkersEnough, FetchAssumption
  <1>3. QueueShort
    <2>1. SUFFICES ASSUME NEW x \in Nat PROVE 0 <= x + Interval * (1 + Cardinality(Behind(x)))
      BY <1>1 DEF QueueShort
    <2>2. Behind(x) = {}
      BY <1>1 DEF Behind
    <2>3. Cardinality(Behind(x)) = 0
      BY <2>2, FS_EmptySet
    <2> QED
      BY <2>3 DEF LimiterAssumption
  <1>4. OnTime /\ OldAnswersEarly
    BY <1>1 DEF OnTime, OldAnswersEarly
  <1> QED
    BY <1>2, <1>3, <1>4

LEMMA QueueNext ==
  ASSUME LimiterAssumption, FetchAssumption, QInv, [Next]_vars PROVE QInv'
  <1>1. IInv'
    BY NextInv DEF QInv
  <1>2. CASE Tick \/ UNCHANGED vars
    BY <1>1, <1>2, TickQueue DEF QInv
  <1>3. ASSUME NEW t \in Tickers, Work(t) PROVE QInv'
    BY <1>1, <1>3, StartQueue, ReserveQueue, SendQueue, AnswerQueue DEF QInv, Work
  <1> QED
    BY <1>2, <1>3 DEF Next

------------------------------------------------------------------------------
(* No answer is taken for news of a pause that it did not see.             *)

LEMMA TimeOfBurst ==
  ASSUME LimiterAssumption, FetchAssumption, BurstAssumption
  PROVE  /\ Interval * MaxWorkers \in Nat /\ Interval \in Nat /\ Interval > 0
         /\ Interval <= Interval * MaxWorkers
         /\ Timeout \in Nat /\ Jitter \in Nat /\ BackoffStart \in Nat
         /\ Interval * MaxWorkers + Jitter + Timeout <= BackoffStart
  <1>1. Interval \in Nat /\ Interval > 0 /\ MaxWorkers \in Nat /\ 1 <= MaxWorkers
    BY DEF LimiterAssumption, FetchAssumption
  <1>2. Interval * 1 <= Interval * MaxWorkers /\ Interval * MaxWorkers \in Nat
    BY <1>1, MoreCallersMoreTime
  <1>3. Interval * MaxWorkers = MaxWorkers * Interval
    BY <1>1
  <1> QED
    BY <1>1, <1>2, <1>3 DEF BurstAssumption, LimiterAssumption, FetchAssumption

(* A request that was asked for before the pause in force is not answered  *)
(* after it.                                                               *)
LEMMA AnswerFresh ==
  ASSUME IInv, OnTime, OldAnswersEarly, NEW t \in Tickers, task[t] = "sent", now >= pauseUntil
  PROVE  slot[t] >= pauseUntil
  <1>1. now \in Nat /\ pauseUntil \in Nat /\ slot[t] \in Nat /\ due[t] \in Nat
    BY DEF IInv, TypeOK
  <1> QED
    BY <1>1 DEF OnTime, OldAnswersEarly

LEMMA BurstOver ==
  ASSUME LimiterAssumption, FetchAssumption, BurstAssumption, QInv, OldAnswersEarly, IInv',
         NEW t \in Tickers, Succeeds(t) \/ Fails(t) \/ Throttled(t)
  PROVE  OldAnswersEarly'
  <1>0. /\ IInv /\ TypeOK /\ OnTime /\ now \in Nat /\ pauseUntil \in Nat /\ pauseUntil' \in Nat
        /\ \A u \in Tickers : slot[u] \in Nat /\ due[u] \in Nat
    BY DEF QInv, IInv, TypeOK
  <1>1. /\ UNCHANGED <<now, slot>> /\ task[t] = "sent" /\ task'[t] \in {"ready", "ok", "failed"}
        /\ \A u \in Tickers \ {t} : task'[u] = task[u] /\ due'[u] = due[u]
        /\ \/ pauseUntil' = pauseUntil
           \/ now >= pauseUntil /\ pauseUntil' >= now + BackoffStart
    BY <1>0, AnswerStep
  <1>2. CASE pauseUntil' = pauseUntil
    BY <1>1, <1>2 DEF OldAnswersEarly
  <1>3. CASE now >= pauseUntil /\ pauseUntil' >= now + BackoffStart
    <2>1. \A u \in Tickers :
            task[u] = "asleep" => slot[u] <= now + Interval * MaxWorkers - Interval
      <3>1. now \in Nat /\ now >= now /\ now >= pauseUntil
        BY <1>0, <1>3
      <3> QED
        BY <1>1, <3>1, SlotBounded, Zenon
    <2> DEFINE M == Interval * MaxWorkers
    <2>2. /\ M \in Nat /\ Interval \in Nat /\ Interval > 0 /\ Interval <= M
          /\ Timeout \in Nat /\ Jitter \in Nat /\ BackoffStart \in Nat
          /\ M + Jitter + Timeout <= BackoffStart
      BY TimeOfBurst
    <2>3. \A u \in Tickers : task[u] = "asleep" => slot[u] <= now + M - Interval
      BY <2>1
    <2> HIDE DEF M
    <2>4. \A u \in Tickers : task[u] = "asleep" => slot[u] + Jitter + Timeout < pauseUntil'
      BY <1>0, <1>3, <2>2, <2>3
    <2>5. \A u \in Tickers : task[u] = "sent" => due[u] < pauseUntil'
      BY <1>0, <1>3, <2>2 DEF OnTime
    <2> QED
      BY <1>1, <2>4, <2>5 DEF OldAnswersEarly
  <1> QED
    BY <1>1, <1>2, <1>3

LEMMA BurstKept ==
  ASSUME LimiterAssumption, FetchAssumption, QInv, OldAnswersEarly, IInv',
         \/ Tick \/ UNCHANGED vars
         \/ \E t \in Tickers : StartTask(t) \/ Reserve(t) \/ Send(t)
  PROVE  OldAnswersEarly' /\ UNCHANGED pause
  <1>0. /\ TypeOK /\ PauseBehind /\ OnTime /\ now \in Nat /\ pauseUntil \in Nat
        /\ nextSlot \in Nat /\ Timeout \in Nat /\ Jitter \in Nat
        /\ \A u \in Tickers : slot[u] \in Nat /\ due[u] \in Nat
    BY DEF QInv, IInv, TypeOK, FetchAssumption
  <1>1. UNCHANGED <<pause, pauseUntil>>
    BY DEF Tick, vars, StartTask, Reserve, Send, Wait, limiter
  <1>2. CASE Tick \/ UNCHANGED vars
    <2>1. UNCHANGED <<task, slot, due>>
      BY <1>2 DEF Tick, vars, tasks
    <2> QED
      BY <1>1, <2>1 DEF OldAnswersEarly
  <1>3. ASSUME NEW t \in Tickers, StartTask(t) PROVE OldAnswersEarly'
    <2>1. /\ UNCHANGED slot
          /\ \A u \in Tickers : task'[u] = IF u = t THEN "ready" ELSE task[u]
          /\ \A u \in Tickers : u # t => due'[u] = due[u]
      BY <1>0, <1>3 DEF StartTask, TypeOK
    <2> QED
      BY <1>1, <2>1 DEF OldAnswersEarly
  <1>4. ASSUME NEW t \in Tickers, Reserve(t) PROVE OldAnswersEarly'
    <2>1. /\ UNCHANGED due
          /\ \A u \in Tickers : slot'[u] = IF u = t THEN Slot ELSE slot[u]
          /\ \A u \in Tickers : task'[u] = IF u = t THEN "asleep" ELSE task[u]
      BY <1>0, <1>4 DEF Reserve, TypeOK
    <2>2. pauseUntil <= Slot /\ Slot \in Nat
      BY <1>0 DEF Slot, Later, PauseBehind
    <2> QED
      BY <1>0, <1>1, <2>1, <2>2 DEF OldAnswersEarly
  <1>5. ASSUME NEW t \in Tickers, Send(t) PROVE OldAnswersEarly'
    <2>1. /\ UNCHANGED slot /\ task[t] = "asleep"
          /\ \A u \in Tickers : task'[u] = IF u = t THEN "sent" ELSE task[u]
          /\ \A u \in Tickers : due'[u] = IF u = t THEN now + Timeout ELSE due[u]
      BY <1>0, <1>5 DEF Send, TypeOK
    <2>2. now <= slot[t] + Jitter
      BY <1>0, <2>1 DEF OnTime
    <2> QED
      BY <1>0, <1>1, <2>1, <2>2 DEF OldAnswersEarly
  <1> QED
    BY <1>1, <1>2, <1>3, <1>4, <1>5

LEMMA BurstNext ==
  ASSUME LimiterAssumption, FetchAssumption, BurstAssumption, QInv, OldAnswersEarly, [Next]_vars
  PROVE  /\ OldAnswersEarly'
         /\ \A t \in Tickers : pause' # pause /\ task[t] = "sent" /\ task'[t] # "sent" =>
                                 slot[t] >= pauseUntil
  <1>1. IInv /\ IInv' /\ OnTime
    BY NextInv DEF QInv
  <1>2. ASSUME \/ Tick \/ UNCHANGED vars
               \/ \E t \in Tickers : StartTask(t) \/ Reserve(t) \/ Send(t)
        PROVE  OldAnswersEarly' /\ pause' = pause
    BY <1>1, <1>2, BurstKept
  <1>3. ASSUME NEW t \in Tickers, Succeeds(t) \/ Fails(t) \/ Throttled(t)
        PROVE  /\ OldAnswersEarly'
               /\ \A u \in Tickers : pause' # pause /\ task[u] = "sent" /\ task'[u] # "sent" =>
                                       slot[u] >= pauseUntil
    <2>1. OldAnswersEarly'
      BY <1>1, <1>3, BurstOver
    <2>2. pause' # pause => now >= pauseUntil
      BY <1>1, <1>3, AnswerStep
    <2> QED
      BY <1>1, <2>1, <2>2, AnswerFresh
  <1> QED
    BY <1>2, <1>3 DEF Next, Work

------------------------------------------------------------------------------
LEMMA QueueInvariant == Spec => []QInv
  <1>1. Init => QInv
    BY InitInv, QueueInit, LimiterAssumption, FetchAssumption DEF QInv
  <1>2. QInv /\ [Next]_vars => QInv'
    BY QueueNext, LimiterAssumption, FetchAssumption
  <1> QED
    BY <1>1, <1>2, PTL DEF Spec

(* No caller is made to wait longer than the pause and one interval for    *)
(* each worker, however many callers, throttles and retries there are.     *)
THEOREM WaitCorrect == Spec => []WaitBounded
  <1>1. QInv => WaitBounded
    <2>1. SUFFICES ASSUME QInv PROVE WaitBounded
      OBVIOUS
    <2>2. now \in Nat /\ pauseUntil \in Nat
      BY <2>1 DEF QInv, IInv, TypeOK
    <2>3. /\ Later(now, pauseUntil) \in Nat
          /\ Later(now, pauseUntil) >= now /\ Later(now, pauseUntil) >= pauseUntil
      BY <2>2 DEF Later
    <2>4. Interval * MaxWorkers = MaxWorkers * Interval
      BY LimiterAssumption, FetchAssumption DEF LimiterAssumption, FetchAssumption
    <2> QED
      BY <2>1, <2>3, <2>4, SlotBounded, LimiterAssumption, FetchAssumption DEF WaitBounded
  <1> QED
    BY <1>1, QueueInvariant, PTL

(* Given that a burst is over before its pause is, an answer that changes  *)
(* the pause was asked for after the previous pause: late reports of one   *)
(* burst neither escalate it nor end it.                                   *)
THEOREM FreshAnswersCorrect == Spec => OnlyFreshAnswersCount
  <1>1. Init => OldAnswersEarly
    BY QueueInit, LimiterAssumption, FetchAssumption
  <1>2. QInv /\ OldAnswersEarly /\ [Next]_vars => OldAnswersEarly'
    BY BurstNext, LimiterAssumption, FetchAssumption, BurstAssumption
  <1>3. QInv /\ OldAnswersEarly /\ [Next]_vars =>
          [\A t \in Tickers :
             pause' # pause /\ task[t] = "sent" /\ task'[t] # "sent" => slot[t] >= pauseUntil]_vars
    BY BurstNext, LimiterAssumption, FetchAssumption, BurstAssumption
  <1> QED
    BY <1>1, <1>2, <1>3, QueueInvariant, PTL DEF Spec, OnlyFreshAnswersCount
==============================================================================
