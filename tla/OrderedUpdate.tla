---------------------------- MODULE OrderedUpdate ----------------------------
(***************************************************************************)
(* What scripts/run_daily_update.py promises, with everything else left    *)
(* out: N steps, each producing one body of data from the output of the    *)
(* steps before it.  A run goes through the steps in order, may be         *)
(* abandoned anywhere, and may record itself as successful only at the     *)
(* end.                                                                    *)
(***************************************************************************)
EXTENDS Naturals

CONSTANT N                     \* number of steps

VARIABLES
  run,                         \* runs started so far; identifies the current run
  busy,                        \* a run is in progress
  done,                        \* how many steps it has completed
  made,                        \* made[i]: the run that last produced the output of step i
  stamp                        \* the last run recorded as fully successful

vars == <<run, busy, done, made, stamp>>

Init ==
  /\ run = 0
  /\ busy = FALSE
  /\ done = 0
  /\ made = [i \in 1..N |-> 0]
  /\ stamp = 0

Begin ==
  /\ ~busy
  /\ run' = run + 1
  /\ busy' = TRUE
  /\ done' = 0
  /\ UNCHANGED <<made, stamp>>

Produce ==
  /\ busy
  /\ done < N
  /\ done' = done + 1
  /\ made' = [made EXCEPT ![done + 1] = run]
  /\ UNCHANGED <<run, busy, stamp>>

Abandon ==
  /\ busy
  /\ busy' = FALSE
  /\ done' = 0
  /\ UNCHANGED <<run, made, stamp>>

\* The stamp may fail to be written: the run has still succeeded.
Finish ==
  /\ busy
  /\ done = N
  /\ busy' = FALSE
  /\ done' = 0
  /\ stamp' \in {stamp, run}
  /\ UNCHANGED <<run, made>>

Next == Begin \/ Produce \/ Abandon \/ Finish

Spec == Init /\ [][Next]_vars

------------------------------------------------------------------------------
TypeOK ==
  /\ run \in Nat
  /\ busy \in BOOLEAN
  /\ done \in 0..N
  /\ made \in [1..N -> 0..run]
  /\ stamp \in 0..run

(* What a step produced is never newer than what the steps before it       *)
(* produced: nothing downstream was computed in a run whose upstream steps *)
(* had not run (run_daily_update.py, module docstring).                    *)
UpstreamNeverOlder == \A i, j \in 1..N : i <= j => made[j] <= made[i]

(* The run shown as the last fully successful one produced every output,   *)
(* or a later run has replaced it (_record_success).                       *)
StampEarned == \A i \in 1..N : stamp <= made[i]
==============================================================================
