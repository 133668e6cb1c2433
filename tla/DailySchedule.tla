---------------------------- MODULE DailySchedule ----------------------------
(***************************************************************************)
(* The three slots a day (src/marketpulse/schedule.py), the daemon that    *)
(* runs the update at them (scripts/scheduler.py) and the "overdue" flag   *)
(* every screen derives from the slots and a freshness stamp.              *)
(*                                                                         *)
(* Time is Israel wall-clock time in some unit, counted from midnight of   *)
(* day 0; clock changes are left out (datetimes of one zone are compared   *)
(* by wall clock).                                                         *)
(***************************************************************************)
EXTENDS Naturals, FiniteSetsExt

CONSTANTS
  Day,            \* units in a day
  RunTimes,       \* RUN_TIMES, in units after midnight
  Grace,          \* RUN_GRACE
  Poll,           \* POLL_SECONDS, rounded up to a unit
  UsualRun,       \* longest update that counts as healthy
  LastDay         \* bound: the last day modelled

ASSUME ScheduleAssumption ==
  /\ Day \in Nat \ {0} /\ Grace \in Nat /\ Poll \in Nat \ {0} /\ LastDay \in Nat \ {0}
  /\ RunTimes # {} /\ RunTimes \subseteq 0..Day - 1

(* RUN_GRACE: "a full run takes ~25-45 min; headroom before data is called *)
(* overdue".                                                               *)
ASSUME HeadroomAssumption == UsualRun \in Nat /\ UsualRun + Poll <= Grace

(* A healthy run is over before the next slot, also overnight.             *)
ASSUME SpacingAssumption ==
  \A g, h \in RunTimes : /\ g < h => g + UsualRun + Poll <= h
                         /\ h + UsualRun + Poll <= g + Day

VARIABLES
  now,
  pc,             \* the daemon: "down", "plan", "sleep", "running"
  due,            \* the slot it is waiting for, or running
  wake,           \* when the current time.sleep ends
  started,        \* when the current run started
  stamp,          \* the freshness stamp of what an update refreshes, 0 if there is none
  ran,            \* history: the slots at which a run was started
  healthy         \* history: every run since an up-to-date start succeeded in UsualRun

vars == <<now, pc, due, wake, started, stamp, ran, healthy>>

------------------------------------------------------------------------------
(* schedule.py                                                             *)

RunsAround(t) ==
  {(t \div Day) * Day + h : h \in RunTimes}
    \cup {(t \div Day + 1) * Day + h : h \in RunTimes}
    \cup (IF t < Day THEN {} ELSE {(t \div Day - 1) * Day + h : h \in RunTimes})

LastRun(t) == Max({r \in RunsAround(t) : r <= t})

NextRunFromNow(t) == t + Min(RunTimes)                      \* mutant: counted from now
NextRunOrNow(t) == Min({r \in RunsAround(t) : r >= t})      \* mutant: not strictly after

NextRunToday(t) ==                                          \* mutant: tomorrow's first slot
  LET later == {h \in RunTimes : h > t % Day} IN            \* is passed over
    IF later = {} THEN (t \div Day + 1) * Day + Max(RunTimes)
    ELSE (t \div Day) * Day + Min(later)

NextRun(t) == Min({r \in RunsAround(t) : r > t})

OverdueAtOnce(refreshed, t) == refreshed = 0 \/ refreshed < LastRun(t)   \* mutant: no grace

IsOverdue(refreshed, t) ==
  \/ refreshed = 0
  \/ t > LastRun(t) + Grace /\ refreshed < LastRun(t)

------------------------------------------------------------------------------
(* The daemon is started at any time of day 1, with data of the last slot  *)
(* or with none.                                                           *)
Init ==
  /\ now \in Day..2 * Day - 1
  /\ pc = "plan"
  /\ due = 0 /\ wake = 0 /\ started = 0
  /\ stamp \in {0, LastRun(now)}
  /\ ran = {}
  /\ healthy = (stamp # 0)

(* due = next_scheduled_run(now)                                           *)
Plan ==
  /\ pc = "plan"
  /\ due' = NextRun(now)
  /\ wake' = now
  /\ pc' = "sleep"
  /\ UNCHANGED <<now, started, stamp, ran, healthy>>

SleepOn ==
  /\ pc = "sleep" /\ now >= wake
  /\ now < due
  /\ wake' = now + Poll
  /\ UNCHANGED <<now, pc, due, started, stamp, ran, healthy>>

Trigger ==
  /\ pc = "sleep" /\ now >= wake
  /\ now >= due
  /\ pc' = "running"
  /\ started' = now
  /\ ran' = ran \cup {due}
  /\ UNCHANGED <<now, due, wake, stamp, healthy>>

(* subprocess.run returns 0: the update stamped what it refreshed at some  *)
(* moment after it started.                                                *)
Succeeds ==
  /\ pc = "running"
  /\ stamp' \in started..now
  /\ healthy' = (healthy /\ now <= started + UsualRun)
  /\ pc' = "plan"
  /\ UNCHANGED <<now, due, wake, started, ran>>

(* It exits non-zero, cannot be started, or is killed: the daemon goes on. *)
Fails ==
  /\ pc = "running"
  /\ healthy' = FALSE
  /\ pc' = "plan"
  /\ UNCHANGED <<now, due, wake, started, stamp, ran>>

(* Ctrl+C, or the machine is switched off.                                 *)
Stopped ==
  /\ pc # "down"
  /\ pc' = "down"
  /\ healthy' = FALSE
  /\ UNCHANGED <<now, due, wake, started, stamp, ran>>

Restarted ==
  /\ pc = "down"
  /\ pc' = "plan"
  /\ UNCHANGED <<now, due, wake, started, stamp, ran, healthy>>

(* Only a run, a sleep and a stopped daemon take time.  A healthy run is   *)
(* over in time; any other takes as long as it likes (there is no timeout).*)
Tick ==
  /\ now < (LastDay + 1) * Day - 1
  /\ \/ pc = "down"
     \/ pc = "running"
     \/ pc = "sleep" /\ now < wake
  /\ now' = now + 1
  /\ healthy' = (healthy /\ (pc = "running" => now' <= started + UsualRun))
  /\ UNCHANGED <<pc, due, wake, started, stamp, ran>>

Next == Plan \/ SleepOn \/ Trigger \/ Succeeds \/ Fails \/ Stopped \/ Restarted \/ Tick

Spec == Init /\ [][Next]_vars

------------------------------------------------------------------------------
(* Every slot of the days modelled, whatever schedule.py computes.         *)
Slots == {d * Day + h : d \in 0..LastDay + 1, h \in RunTimes}

TypeOK ==
  /\ now \in Nat /\ wake \in Nat /\ started \in Nat /\ stamp \in 0..now
  /\ pc \in {"down", "plan", "sleep", "running"}
  /\ due \in Slots \cup {0}
  /\ ran \subseteq Slots
  /\ healthy \in BOOLEAN

(* The daemon waits for the very next slot, and no slot passes unused      *)
(* while it sleeps: a slot is skipped only because a run was in progress   *)
(* or the daemon was down (scheduler.py, "simply skips it").               *)
WaitsForNextSlot ==
  pc = "sleep" => /\ now <= due + Poll
                  /\ now < due => \A s \in Slots : s > now => s >= due
                  /\ now >= due => \A s \in Slots : s <= now => s <= due

(* A slot is run once, and at its time: never early, at most one poll      *)
(* late, and never again when its run ends at once or the daemon is        *)
(* restarted.                                                              *)
OneRunPerSlot ==
  [][pc = "sleep" /\ pc' = "running" => due \notin ran /\ now \in due..due + Poll]_vars

(* No false alarm: as long as updates succeed in the usual time, nothing   *)
(* they refresh is ever called overdue, while one is running included.     *)
HealthyNeverOverdue == healthy => ~IsOverdue(stamp, now)
==============================================================================
