----------------------------- MODULE RateLimiter -----------------------------
(***************************************************************************)
(* SharedRateLimiter (src/marketpulse/extract/ratelimit.py): the slots and *)
(* the shared pause that space every outbound request of a process.  Each  *)
(* operator is one critical section of the lock.                           *)
(***************************************************************************)
EXTENDS Naturals

CONSTANTS
  Interval,       \* _min_interval (0 switches the limiter off and is not modelled)
  BackoffStart,   \* BACKOFF_START_SECONDS
  BackoffMax      \* BACKOFF_MAX_SECONDS

ASSUME LimiterAssumption ==
  /\ Interval \in Nat \ {0}
  /\ BackoffStart \in Nat \ {0}
  /\ BackoffMax \in Nat /\ BackoffStart <= BackoffMax

VARIABLES
  now,            \* time.monotonic()
  nextSlot,       \* the first slot nobody has reserved
  pause,          \* length of the last pause, 0 once a call has succeeded after it
  pauseUntil      \* when the last pause ends

limiter == <<nextSlot, pause, pauseUntil>>

Later(a, b) == IF a >= b THEN a ELSE b
Earlier(a, b) == IF a <= b THEN a ELSE b

InitLimiter == now = 0 /\ nextSlot = 0 /\ pause = 0 /\ pauseUntil = 0

(* The slot a caller of wait() gets.                                       *)
Slot == Later(now, nextSlot)

WaitFromNow ==                  \* mutant: the next slot forgets the queue
  /\ nextSlot' = now + Interval
  /\ UNCHANGED <<pause, pauseUntil>>

Wait ==
  /\ nextSlot' = Slot + Interval
  /\ UNCHANGED <<pause, pauseUntil>>

Escalated == Earlier(Later(2 * pause, BackoffStart), BackoffMax)

OnRateLimitAlways ==            \* mutant: every report of one burst escalates
  /\ pause' = Escalated
  /\ pauseUntil' = now + Escalated
  /\ nextSlot' = Later(nextSlot, now + Escalated)

OnRateLimitAdds ==              \* mutant: the pause is added to the queue
  IF now < pauseUntil
    THEN UNCHANGED limiter
    ELSE /\ pause' = Escalated
         /\ pauseUntil' = now + Escalated
         /\ nextSlot' = Slot + Escalated

OnRateLimitKeepsSlots ==        \* mutant: the next slot stays inside the pause
  IF now < pauseUntil
    THEN UNCHANGED limiter
    ELSE /\ pause' = Escalated
         /\ pauseUntil' = now + Escalated
         /\ UNCHANGED nextSlot

(* A throttle reported during a pause belongs to the burst that caused it. *)
OnRateLimit ==
  IF now < pauseUntil
    THEN UNCHANGED limiter
    ELSE /\ pause' = Escalated
         /\ pauseUntil' = now + Escalated
         /\ nextSlot' = Later(nextSlot, now + Escalated)

OnSuccessAlways ==              \* mutant: a late success ends the escalation
  /\ pause' = 0
  /\ UNCHANGED <<nextSlot, pauseUntil>>

OnSuccess ==
  /\ pause' = IF now >= pauseUntil THEN 0 ELSE pause
  /\ UNCHANGED <<nextSlot, pauseUntil>>
==============================================================================
