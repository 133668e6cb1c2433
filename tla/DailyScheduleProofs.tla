------------------------ MODULE DailyScheduleProofs --------------------------
(***************************************************************************)
(* Proofs about DailySchedule, for any slots of the day that leave room    *)
(* for a usual run, any poll and grace, and any number of days, and about  *)
(* OrderedUpdate, what the daemon starts at a slot.                        *)
(***************************************************************************)
EXTENDS DailySchedule, FiniteSetTheorems, WellFoundedInduction, TLAPS

------------------------------------------------------------------------------
(* Least and greatest elements.                                            *)

LEMMA LeastNat ==
  ASSUME NEW S \in SUBSET Nat, S # {}
  PROVE  \E m \in S : \A k \in S : m <= k
  <1> DEFINE T == {0..k : k \in S}
  <1>1. T \subseteq FiniteSubsetsOf(Nat) /\ T # {}
    <2>1. ASSUME NEW k \in S PROVE 0..k \in SUBSET Nat /\ IsFiniteSet(0..k)
      BY FS_Interval
    <2> QED
      BY <2>1 DEF FiniteSubsetsOf
  <1> HIDE DEF T
  <1>2. PICK x \in T : \A y \in T : ~(<<y, x>> \in StrictSubsetOrdering(Nat))
    BY <1>1, FS_StrictSubsetOrderingWellFounded, WFMin
  <1>3. PICK m \in S : x = 0..m
    BY <1>2 DEF T
  <1>4. ASSUME NEW k \in S, k < m PROVE FALSE
    <2>1. 0..k \in T
      BY DEF T
    <2>2. 0..k \subseteq 0..m /\ m \in 0..m /\ m \notin 0..k
      BY <1>4
    <2>3. <<0..k, 0..m>> \in StrictSubsetOrdering(Nat)
      <3>1. 0..k \in SUBSET Nat /\ 0..m \in SUBSET Nat
        OBVIOUS
      <3> QED
        BY <2>2, <3>1, Zenon DEF StrictSubsetOrdering
    <2> QED
      BY <1>2, <1>3, <2>1, <2>3
  <1> QED
    BY <1>4

LEMMA GreatestNat ==
  ASSUME NEW S \in SUBSET Nat, S # {}, NEW n \in Nat, \A k \in S : k <= n
  PROVE  \E m \in S : \A k \in S : k <= m
  <1> DEFINE T == {n - k : k \in S}
  <1>1. T \in SUBSET Nat /\ T # {}
    <2>1. ASSUME NEW k \in S PROVE n - k \in Nat
      OBVIOUS
    <2>2. PICK k \in S : TRUE
      OBVIOUS
    <2> QED
      BY <2>1, <2>2
  <1> HIDE DEF T
  <1>2. PICK x \in T : \A y \in T : x <= y
    BY <1>1, LeastNat
  <1>3. PICK m \in S : x = n - m
    BY <1>2 DEF T
  <1>4. ASSUME NEW k \in S PROVE k <= m
    <2>1. n - k \in T
      BY DEF T
    <2> QED
      BY <1>2, <1>3, <2>1
  <1> QED
    BY <1>4

LEMMA LeastOf ==
  ASSUME NEW S \in SUBSET Nat, S # {} PROVE Min(S) \in S /\ \A k \in S : Min(S) <= k
  BY LeastNat DEF Min

LEMMA GreatestOf ==
  ASSUME NEW S \in SUBSET Nat, S # {}, NEW n \in Nat, \A k \in S : k <= n
  PROVE  Max(S) \in S /\ \A k \in S : k <= Max(S)
  <1>1. PICK m \in S : \A k \in S : k <= m
    BY GreatestNat
  <1>2. \A k \in S : m >= k
    BY <1>1
  <1>3. Max(S) \in S /\ \A k \in S : Max(S) >= k
    BY <1>2 DEF Max
  <1> QED
    BY <1>3

------------------------------------------------------------------------------
(* Days and slots.                                                         *)

LEMMA Multiples ==
  ASSUME NEW D \in Nat, NEW a \in Nat, NEW b \in Nat
  PROVE  /\ a * D \in Nat /\ (a + 1) * D = a * D + D /\ (a + 2) * D = a * D + D + D
         /\ a <= b => a * D <= b * D
  <1>1. a * D \in Nat /\ (a + 1) * D = a * D + D /\ (a + 2) * D = a * D + D + D
    OBVIOUS
  <1>2. ASSUME a <= b PROVE a * D <= b * D
    <2>1. PICK c \in Nat : b = a + c
      BY <1>2
    <2>2. b * D = a * D + c * D /\ c * D \in Nat /\ a * D \in Nat
      BY <2>1
    <2> QED
      BY <2>2
  <1> QED
    BY <1>1, <1>2

LEMMA DayOf ==
  ASSUME ScheduleAssumption, NEW t \in Nat
  PROVE  /\ t \div Day \in Nat
         /\ (t \div Day) * Day <= t /\ t < (t \div Day) * Day + Day
  BY DEF ScheduleAssumption


LEMMA Hours ==
  ASSUME ScheduleAssumption
  PROVE  /\ Day \in Nat /\ Day >= 1
         /\ \A h \in RunTimes : h \in Nat /\ h < Day
         /\ \E h \in RunTimes : TRUE
  <1>1. Day \in Nat /\ Day >= 1
    BY DEF ScheduleAssumption
  <1>2. ASSUME NEW h \in RunTimes PROVE h \in Nat /\ h < Day
    <2>1. h \in 0..Day - 1
      BY DEF ScheduleAssumption
    <2> QED
      BY <1>1, <2>1
  <1>3. \E h \in RunTimes : TRUE
    BY DEF ScheduleAssumption
  <1> QED
    BY <1>1, <1>2, <1>3

(* A slot of day d lies between the midnights of d and of d + 1.           *)
LEMMA SlotOfDay ==
  ASSUME ScheduleAssumption, NEW t \in Nat, NEW d \in Nat, NEW h \in RunTimes
  PROVE  /\ d * Day + h \in Nat
         /\ d * Day + h > t => d >= t \div Day
         /\ d * Day + h <= t => d <= t \div Day
  <1> DEFINE q == t \div Day
             D == d * Day
             Q == q * Day
  <1>1. Day \in Nat /\ Day >= 1 /\ h \in Nat /\ h < Day
    BY Hours
  <1>2. q \in Nat /\ Q <= t /\ t < Q + Day
    BY DayOf
  <1>3. D \in Nat /\ Q \in Nat
    BY <1>1, <1>2, Multiples
  <1>4. ASSUME d < q PROVE D + Day <= Q
    <2>1. d + 1 \in Nat /\ d + 1 <= q
      BY <1>2, <1>4
    <2>2. (d + 1) * Day <= Q /\ (d + 1) * Day = D + Day
      BY <1>1, <1>2, <2>1, Multiples
    <2> QED
      BY <2>2
  <1>5. ASSUME q < d PROVE Q + Day <= D
    <2>1. q + 1 \in Nat /\ q + 1 <= d
      BY <1>2, <1>5
    <2>2. (q + 1) * Day <= D /\ (q + 1) * Day = Q + Day
      BY <1>1, <1>2, <2>1, Multiples
    <2> QED
      BY <2>2
  <1> HIDE DEF q, D, Q
  <1>6. /\ D + h \in Nat
        /\ D + h > t => d >= q
        /\ D + h <= t => d <= q
    BY <1>1, <1>2, <1>3, <1>4, <1>5
  <1> QED
    BY <1>6 DEF q, D, Q

(* The runs around a moment are slots of the days around it.               *)
LEMMA AroundSlots ==
  ASSUME ScheduleAssumption, NEW t \in Nat
  PROVE  /\ RunsAround(t) \subseteq Nat
         /\ \A r \in RunsAround(t) :
              \E d \in Nat, h \in RunTimes : d <= t \div Day + 1 /\ r = d * Day + h
         /\ \A h \in RunTimes : /\ (t \div Day) * Day + h \in RunsAround(t)
                                /\ (t \div Day + 1) * Day + h \in RunsAround(t)
                                /\ t >= Day => (t \div Day - 1) * Day + h \in RunsAround(t)
  <1> DEFINE q == t \div Day
  <1>1. Day \in Nat /\ Day >= 1 /\ q \in Nat
    BY Hours, DayOf
  <1>2. t >= Day => q >= 1
    <2>1. q = 0 => t < Day
      BY <1>1, DayOf, Multiples
    <2> HIDE DEF q
    <2> QED
      BY <1>1, <2>1
  <1>3. RunsAround(t) = {q * Day + h : h \in RunTimes} \cup {(q + 1) * Day + h : h \in RunTimes}
                          \cup (IF t < Day THEN {} ELSE {(q - 1) * Day + h : h \in RunTimes})
    BY DEF RunsAround
  <1> HIDE DEF q
  <1>4. ASSUME NEW r \in RunsAround(t)
        PROVE  \E d \in Nat, h \in RunTimes : d <= q + 1 /\ r = d * Day + h
    <2>1. CASE \E h \in RunTimes : r = q * Day + h
      BY <1>1, <2>1
    <2>2. CASE \E h \in RunTimes : r = (q + 1) * Day + h
      BY <1>1, <2>2
    <2>3. CASE t >= Day /\ \E h \in RunTimes : r = (q - 1) * Day + h
      <3>1. q - 1 \in Nat /\ q - 1 <= q + 1
        BY <1>1, <1>2, <2>3
      <3> QED
        BY <2>3, <3>1
    <2>4. \/ \E h \in RunTimes : r = q * Day + h
          \/ \E h \in RunTimes : r = (q + 1) * Day + h
          \/ ~(t < Day) /\ \E h \in RunTimes : r = (q - 1) * Day + h
      BY <1>3, Zenon
    <2>5. ~(t < Day) => t >= Day
      BY <1>1
    <2> QED
      BY <2>1, <2>2, <2>3, <2>4, <2>5
  <1>5. RunsAround(t) \subseteq Nat
    BY <1>4, SlotOfDay
  <1>6. \A h \in RunTimes : /\ q * Day + h \in RunsAround(t)
                            /\ (q + 1) * Day + h \in RunsAround(t)
                            /\ t >= Day => (q - 1) * Day + h \in RunsAround(t)
    BY <1>1, <1>3
  <1> QED
    BY <1>4, <1>5, <1>6 DEF q

LEMMA SlotsType ==
  ASSUME ScheduleAssumption
  PROVE  /\ Slots \subseteq Nat
         /\ \A s \in Slots : \E d \in Nat, h \in RunTimes : d <= LastDay + 1 /\ s = d * Day + h
         /\ \A d \in Nat, h \in RunTimes : d <= LastDay + 1 => d * Day + h \in Slots
  <1>1. LastDay + 1 \in Nat
    BY DEF ScheduleAssumption
  <1>2. ASSUME NEW s \in Slots
        PROVE  \E d \in Nat, h \in RunTimes : d <= LastDay + 1 /\ s = d * Day + h
    <2>1. PICK d \in 0..LastDay + 1, h \in RunTimes : s = d * Day + h
      BY DEF Slots
    <2>2. d \in Nat /\ d <= LastDay + 1
      BY <1>1
    <2> QED
      BY <2>1, <2>2
  <1>3. ASSUME NEW d \in Nat, NEW h \in RunTimes, d <= LastDay + 1 PROVE d * Day + h \in Slots
    <2>1. d \in 0..LastDay + 1
      BY <1>1, <1>3
    <2> QED
      BY <2>1 DEF Slots
  <1>4. Slots \subseteq Nat
    <2>1. \A d \in Nat, h \in RunTimes : d * Day + h \in Nat
      BY SlotOfDay
    <2> QED
      BY <1>2, <2>1
  <1> QED
    BY <1>2, <1>3, <1>4

(* The days modelled have days before and after them.                      *)
LEMMA DayModelled ==
  ASSUME ScheduleAssumption, NEW t \in Day..(LastDay + 1) * Day - 1
  PROVE  t \in Nat /\ t >= Day /\ t \div Day \in Nat /\ t \div Day <= LastDay /\ t \div Day >= 1
  <1> DEFINE q == t \div Day
             Q == q * Day
             B == (LastDay + 1) * Day
  <1>1. Day \in Nat /\ Day >= 1 /\ LastDay \in Nat /\ LastDay + 1 \in Nat
    BY Hours DEF ScheduleAssumption
  <1>2. B \in Nat
    BY <1>1, Multiples
  <1>3. t \in Nat /\ t >= Day /\ t < B
    <2> HIDE DEF B
    <2> QED
      BY <1>1, <1>2 DEF B
  <1>4. q \in Nat /\ Q <= t /\ t < Q + Day /\ Q \in Nat
    BY <1>1, <1>3, DayOf, Multiples
  <1>5. LastDay + 1 <= q => B <= Q
    BY <1>1, <1>4, Multiples
  <1>6. q = 0 => Q = 0
    BY <1>1, Multiples
  <1> HIDE DEF q, Q, B
  <1>7. q <= LastDay /\ q >= 1
    BY <1>1, <1>2, <1>3, <1>4, <1>5, <1>6
  <1> QED
    BY <1>3, <1>4, <1>7 DEF q

(* next_scheduled_run finds the first slot after a moment, and             *)
(* last_scheduled_run the last one that is not after it, though both look  *)
(* only at the days around it.                                             *)
LEMMA NextRunIs ==
  ASSUME ScheduleAssumption, NEW t \in Day..(LastDay + 1) * Day - 1
  PROVE  NextRun(t) \in Slots /\ NextRun(t) > t /\ \A s \in Slots : s > t => NextRun(t) <= s
  <1> DEFINE q == t \div Day
             X == {r \in RunsAround(t) : r > t}
             next == (q + 1) * Day
  <1>1. t \in Nat /\ q \in Nat /\ q + 1 \in Nat /\ q <= LastDay /\ Day \in Nat /\ Day >= 1
        /\ LastDay \in Nat
    BY DayModelled, Hours DEF ScheduleAssumption
  <1>2. next \in Nat /\ t < next
    BY <1>1, DayOf, Multiples
  <1>3. PICK g \in RunTimes : TRUE
    BY Hours
  <1>4. g \in Nat /\ g < Day
    BY Hours
  <1>5. next + g \in RunsAround(t)
    BY <1>1, AroundSlots
  <1> HIDE DEF next, q
  <1>6. next + g \in X
    BY <1>1, <1>2, <1>4, <1>5
  <1>7. X \in SUBSET Nat /\ X # {}
    BY <1>1, <1>6, AroundSlots
  <1>8. Min(X) \in X /\ \A k \in X : Min(X) <= k
    BY <1>7, LeastOf
  <1>9. NextRun(t) = Min(X)
    BY DEF NextRun
  <1>10. Min(X) \in Nat /\ Min(X) > t /\ Min(X) \in RunsAround(t)
    BY <1>7, <1>8
  <1> HIDE DEF X
  <1>11. NextRun(t) \in Slots
    <2>1. PICK d \in Nat, h \in RunTimes : d <= t \div Day + 1 /\ Min(X) = d * Day + h
      BY <1>1, <1>10, AroundSlots
    <2>2. d <= LastDay + 1
      BY <1>1, <2>1 DEF q
    <2> QED
      BY <1>9, <2>1, <2>2, SlotsType
  <1>12. ASSUME NEW s \in Slots, s > t PROVE Min(X) <= s
    <2>1. PICK d \in Nat, h \in RunTimes : d <= LastDay + 1 /\ s = d * Day + h
      BY SlotsType
    <2>2. d >= q
      BY <1>1, <1>12, <2>1, SlotOfDay DEF q
    <2>3. CASE d = q \/ d = q + 1
      <3>1. s \in RunsAround(t)
        BY <1>1, <2>1, <2>3, AroundSlots DEF q
      <3> QED
        BY <1>8, <1>12, <3>1 DEF X
    <2>4. CASE d >= q + 2
      <3>1. (q + 2) * Day <= d * Day /\ (q + 2) * Day = next + Day /\ d * Day \in Nat
        <4>1. q + 2 \in Nat /\ d \in Nat /\ q + 2 <= d
          BY <1>1, <2>4
        <4>2. (q + 2) * Day = q * Day + Day + Day /\ (q + 1) * Day = q * Day + Day
          BY <1>1, Multiples
        <4> QED
          BY <1>1, <4>1, <4>2, Multiples DEF next
      <3>2. h \in Nat
        BY Hours
      <3>3. next + g <= s
        BY <1>1, <1>2, <1>4, <2>1, <3>1, <3>2
      <3>4. Min(X) <= next + g
        BY <1>6, <1>8
      <3> QED
        BY <1>2, <1>4, <1>10, <3>2, <3>3, <3>4, <2>1, SlotsType
    <2> QED
      BY <1>1, <2>2, <2>3, <2>4
  <1> QED
    BY <1>9, <1>10, <1>11, <1>12

LEMMA LastRunIs ==
  ASSUME ScheduleAssumption, NEW t \in Day..(LastDay + 1) * Day - 1
  PROVE  LastRun(t) \in Slots /\ LastRun(t) <= t /\ \A s \in Slots : s <= t => s <= LastRun(t)
  <1> DEFINE q == t \div Day
             X == {r \in RunsAround(t) : r <= t}
             before == (q - 1) * Day
  <1>1. t \in Nat /\ q \in Nat /\ q - 1 \in Nat /\ q <= LastDay /\ Day \in Nat /\ Day >= 1
        /\ LastDay \in Nat /\ t >= Day
    BY DayModelled, Hours DEF ScheduleAssumption
  <1>2. before \in Nat /\ before + Day <= t
    <2>1. (q - 1 + 1) * Day = before + Day /\ before \in Nat
      BY <1>1, Multiples
    <2>2. q - 1 + 1 = q
      BY <1>1
    <2>3. q * Day <= t
      BY <1>1, DayOf
    <2> QED
      BY <2>1, <2>2, <2>3
  <1>3. PICK g \in RunTimes : TRUE
    BY Hours
  <1>4. g \in Nat /\ g < Day
    BY Hours
  <1>5. before + g \in RunsAround(t)
    BY <1>1, AroundSlots
  <1> HIDE DEF before, q
  <1>6. before + g \in X
    BY <1>1, <1>2, <1>4, <1>5
  <1>7. X \in SUBSET Nat /\ X # {} /\ \A k \in X : k <= t
    BY <1>1, <1>6, AroundSlots
  <1>8. Max(X) \in X /\ \A k \in X : k <= Max(X)
    BY <1>1, <1>7, GreatestOf
  <1>9. LastRun(t) = Max(X)
    BY DEF LastRun
  <1>10. Max(X) \in Nat /\ Max(X) <= t /\ Max(X) \in RunsAround(t)
    BY <1>7, <1>8
  <1> HIDE DEF X
  <1>11. LastRun(t) \in Slots
    <2>1. PICK d \in Nat, h \in RunTimes : d <= t \div Day + 1 /\ Max(X) = d * Day + h
      BY <1>1, <1>10, AroundSlots
    <2>2. d <= LastDay + 1
      BY <1>1, <2>1 DEF q
    <2> QED
      BY <1>9, <2>1, <2>2, SlotsType
  <1>12. ASSUME NEW s \in Slots, s <= t PROVE s <= Max(X)
    <2>1. PICK d \in Nat, h \in RunTimes : d <= LastDay + 1 /\ s = d * Day + h
      BY SlotsType
    <2>2. d <= q
      BY <1>1, <1>12, <2>1, SlotOfDay DEF q
    <2>3. CASE d = q \/ d = q - 1
      <3>1. s \in RunsAround(t)
        BY <1>1, <2>1, <2>3, AroundSlots DEF q
      <3> QED
        BY <1>8, <1>12, <3>1 DEF X
    <2>4. CASE d + 1 <= q - 1
      <3>1. (d + 1) * Day <= before /\ (d + 1) * Day = d * Day + Day /\ d * Day \in Nat
        BY <1>1, <2>4, Multiples DEF before
      <3>2. h \in Nat /\ h < Day
        BY Hours
      <3>3. s <= before + g
        BY <1>1, <1>2, <1>4, <2>1, <3>1, <3>2
      <3>4. before + g <= Max(X)
        BY <1>6, <1>8
      <3> QED
        BY <1>2, <1>4, <1>10, <3>2, <3>3, <3>4, <2>1, SlotsType
    <2> QED
      BY <1>1, <2>2, <2>3, <2>4
  <1> QED
    BY <1>9, <1>10, <1>11, <1>12

(* A poll and a usual run fit between two slots.                           *)
LEMMA Spaced ==
  ASSUME ScheduleAssumption, HeadroomAssumption, SpacingAssumption,
         NEW s \in Slots, NEW u \in Slots, s < u
  PROVE  s + UsualRun + Poll <= u
  <1>1. PICK d \in Nat, h \in RunTimes : s = d * Day + h
    BY SlotsType
  <1>2. PICK e \in Nat, g \in RunTimes : u = e * Day + g
    BY SlotsType
  <1> DEFINE D == d * Day
             E == e * Day
  <1>3. D \in Nat /\ E \in Nat /\ h \in Nat /\ g \in Nat /\ h < Day /\ g < Day /\ Day \in Nat
    BY Hours, Multiples
  <1>4. /\ h < g => h + UsualRun + Poll <= g
        /\ h + UsualRun + Poll <= g + Day
    BY DEF SpacingAssumption
  <1>5. UsualRun \in Nat /\ Poll \in Nat
    BY DEF ScheduleAssumption, HeadroomAssumption
  <1>6. d = e => D = E
    OBVIOUS
  <1>7. d + 1 <= e => D + Day <= E
    <2>1. (d + 1) * Day = D + Day /\ (d + 1 <= e => (d + 1) * Day <= E)
      BY <1>3, Multiples
    <2> HIDE DEF D, E
    <2> QED
      BY <2>1
  <1>8. e + 1 <= d => E + Day <= D
    <2>1. (e + 1) * Day = E + Day /\ (e + 1 <= d => (e + 1) * Day <= D)
      BY <1>3, Multiples
    <2> HIDE DEF D, E
    <2> QED
      BY <2>1
  <1>9. s = D + h /\ u = E + g
    BY <1>1, <1>2
  <1> HIDE DEF D, E
  <1> QED
    BY <1>3, <1>4, <1>5, <1>6, <1>7, <1>8, <1>9

------------------------------------------------------------------------------
(* The daemon.                                                             *)

Clock == now \in Day..(LastDay + 1) * Day - 1

(* It sleeps until the first slot after it planned, and wakes in time.     *)
Sleeping ==
  pc = "sleep" =>
    /\ due \in Slots /\ now <= wake /\ wake < due + Poll
    /\ now < due => \A s \in Slots : s > now => due <= s

(* A run is started at its slot.                                           *)
Running ==
  pc = "running" =>
    /\ due \in Slots /\ due <= started /\ started < due + Poll
    /\ Day <= started /\ started <= now

(* Slots were run before now, and before the one the daemon waits for.     *)
RanBefore == \A s \in ran : s <= now /\ (pc = "sleep" => s < due)

(* While all goes well, only the slot waited for, or running, is newer     *)
(* than the data.                                                          *)
Current ==
  /\ stamp # 0 /\ pc # "down"
  /\ pc = "plan" => \A s \in Slots : s <= now => s <= stamp
  /\ pc \in {"sleep", "running"} => \A s \in Slots : s < due => s <= stamp
  /\ pc = "running" => now <= started + UsualRun

UpToDate == healthy => Current

IInv == TypeOK /\ Clock /\ Sleeping /\ Running /\ RanBefore /\ UpToDate

LEMMA Numbers ==
  ASSUME ScheduleAssumption, HeadroomAssumption, TypeOK, Clock
  PROVE  /\ now \in Nat /\ wake \in Nat /\ started \in Nat /\ stamp \in Nat /\ stamp <= now
         /\ due \in Nat /\ now >= Day /\ now > 0
         /\ Day \in Nat /\ Day >= 1 /\ Poll \in Nat /\ Poll >= 1 /\ UsualRun \in Nat /\ Grace \in Nat
         /\ UsualRun + Poll <= Grace
         /\ Slots \subseteq Nat /\ ran \subseteq Nat
  <1>1. now \in Nat /\ now >= Day
    BY DayModelled DEF Clock
  <1>2. /\ Day \in Nat /\ Day >= 1 /\ Poll \in Nat /\ Poll >= 1
        /\ UsualRun \in Nat /\ Grace \in Nat /\ UsualRun + Poll <= Grace
    BY Hours DEF ScheduleAssumption, HeadroomAssumption
  <1>3. Slots \subseteq Nat
    BY SlotsType
  <1> QED
    BY <1>1, <1>2, <1>3 DEF TypeOK

LEMMA InitInv == ASSUME ScheduleAssumption, HeadroomAssumption, SpacingAssumption, Init PROVE IInv
  <1>1. now \in Day..2 * Day - 1 /\ pc = "plan" /\ due = 0 /\ wake = 0 /\ started = 0 /\ ran = {}
        /\ stamp \in {0, LastRun(now)}
    BY DEF Init
  <1>2. healthy \in BOOLEAN /\ (healthy => stamp # 0)
    BY Zenon DEF Init
  <1>3. Clock
    <2> DEFINE B == (LastDay + 1) * Day
               C == 2 * Day
    <2>1. LastDay + 1 \in Nat /\ 2 <= LastDay + 1 /\ Day \in Nat
      BY DEF ScheduleAssumption
    <2>2. C <= B /\ B \in Nat /\ C \in Nat
      BY <2>1, Multiples
    <2> HIDE DEF B, C
    <2>3. now \in Day..B - 1
      <3>1. now \in Day..C - 1
        BY <1>1 DEF C
      <3> QED
        BY <2>1, <2>2, <3>1
    <2> QED
      BY <2>3 DEF Clock, B
  <1>4. LastRun(now) \in Slots /\ LastRun(now) <= now /\ \A s \in Slots : s <= now => s <= LastRun(now)
    BY <1>3, LastRunIs DEF Clock
  <1>5. now \in Nat /\ Slots \subseteq Nat
    BY <1>3, DayModelled, SlotsType DEF Clock
  <1>6. TypeOK
    <2>1. stamp \in 0..now
      BY <1>1, <1>4, <1>5
    <2> QED
      BY <1>1, <1>2, <1>5, <2>1 DEF TypeOK
  <1>7. UpToDate
    <2>1. stamp # 0 => Current
      BY <1>1, <1>4 DEF Current
    <2> QED
      BY <1>2, <2>1 DEF UpToDate
  <1> QED
    BY <1>1, <1>3, <1>6, <1>7 DEF IInv, Sleeping, Running, RanBefore

(* The slot of a poll or a usual run is the last one.                      *)
LEMMA NoSlotBetween ==
  ASSUME ScheduleAssumption, HeadroomAssumption, SpacingAssumption,
         NEW d \in Slots, NEW t \in Nat, t < d + UsualRun + Poll, NEW s \in Slots, s <= t
  PROVE  s <= d
  <1>1. d \in Nat /\ s \in Nat
    BY SlotsType
  <1>2. d < s => d + UsualRun + Poll <= s
    BY Spaced
  <1>3. UsualRun \in Nat /\ Poll \in Nat
    BY DEF ScheduleAssumption, HeadroomAssumption
  <1> QED
    BY <1>1, <1>2, <1>3

LEMMA NextInv ==
  ASSUME ScheduleAssumption, HeadroomAssumption, SpacingAssumption, IInv, [Next]_vars
  PROVE  IInv'
  <1>0. TypeOK /\ Clock /\ Sleeping /\ Running /\ RanBefore /\ UpToDate
    BY DEF IInv
  <1>a. /\ now \in Nat /\ wake \in Nat /\ started \in Nat /\ stamp \in Nat /\ stamp <= now
        /\ due \in Nat /\ now >= Day /\ now > 0
        /\ Day \in Nat /\ Day >= 1 /\ Poll \in Nat /\ Poll >= 1 /\ UsualRun \in Nat /\ Grace \in Nat
        /\ Slots \subseteq Nat /\ ran \subseteq Slots /\ ran \subseteq Nat
        /\ pc \in {"down", "plan", "sleep", "running"} /\ due \in Slots \cup {0}
    BY <1>0, Numbers DEF TypeOK
  <1>b. healthy \in BOOLEAN
    BY <1>0 DEF TypeOK
  <1>1. CASE Plan
    <2>1. pc = "plan" /\ due' = NextRun(now) /\ wake' = now /\ pc' = "sleep"
          /\ UNCHANGED <<now, started, stamp, ran>>
      BY <1>1 DEF Plan
    <2>2. healthy' = healthy
      BY <1>1 DEF Plan
    <2>3. due' \in Slots /\ due' > now /\ \A s \in Slots : s > now => due' <= s
      BY <1>0, <2>1, NextRunIs DEF Clock
    <2>4. TypeOK'
      BY <1>0, <1>b, <2>1, <2>2, <2>3 DEF TypeOK
    <2>5. Clock' /\ Sleeping' /\ Running'
      BY <1>0, <1>a, <2>1, <2>3 DEF Clock, Sleeping, Running
    <2>6. RanBefore'
      BY <1>0, <1>a, <2>1, <2>3 DEF RanBefore
    <2>7. UpToDate'
      <3>1. \A s \in Slots : s < due' => s <= now
        BY <1>a, <2>3
      <3>2. Current => Current'
        BY <2>1, <3>1 DEF Current
      <3> QED
        BY <1>0, <2>2, <3>2 DEF UpToDate
    <2> QED
      BY <2>4, <2>5, <2>6, <2>7 DEF IInv
  <1>2. CASE SleepOn
    <2>1. pc = "sleep" /\ now < due /\ wake' = now + Poll
          /\ UNCHANGED <<now, pc, due, started, stamp, ran>>
      BY <1>2 DEF SleepOn
    <2>2. healthy' = healthy
      BY <1>2 DEF SleepOn
    <2>3. TypeOK'
      BY <1>0, <1>a, <1>b, <2>1, <2>2 DEF TypeOK
    <2>4. Clock' /\ Sleeping' /\ Running' /\ RanBefore'
      BY <1>0, <1>a, <2>1 DEF Clock, Sleeping, Running, RanBefore
    <2>5. UpToDate'
      BY <1>0, <2>1, <2>2 DEF UpToDate, Current
    <2> QED
      BY <2>3, <2>4, <2>5 DEF IInv
  <1>3. CASE Trigger
    <2>1. pc = "sleep" /\ now >= due /\ pc' = "running" /\ started' = now /\ ran' = ran \cup {due}
          /\ UNCHANGED <<now, due, wake, stamp>>
      BY <1>3 DEF Trigger
    <2>2. healthy' = healthy
      BY <1>3 DEF Trigger
    <2>3. due \in Slots /\ now <= wake /\ wake < due + Poll
      BY <1>0, <2>1 DEF Sleeping
    <2>4. TypeOK'
      BY <1>0, <1>a, <1>b, <2>1, <2>2, <2>3 DEF TypeOK
    <2>5. Clock' /\ Sleeping' /\ Running'
      BY <1>0, <1>a, <2>1, <2>3 DEF Clock, Sleeping, Running
    <2>6. RanBefore'
      BY <1>0, <1>a, <2>1 DEF RanBefore
    <2>7. UpToDate'
      <3>1. Current => Current'
        BY <1>a, <2>1 DEF Current
      <3> QED
        BY <1>0, <2>2, <3>1 DEF UpToDate
    <2> QED
      BY <2>4, <2>5, <2>6, <2>7 DEF IInv
  <1>4. CASE Succeeds
    <2>1. pc = "running" /\ stamp' \in started..now /\ pc' = "plan"
          /\ UNCHANGED <<now, due, wake, started, ran>>
      BY <1>4 DEF Succeeds
    <2>2. healthy' \in BOOLEAN /\ (healthy' => healthy /\ now <= started + UsualRun)
      BY <1>4, Zenon DEF Succeeds
    <2>3. due \in Slots /\ due <= started /\ started < due + Poll /\ Day <= started
      BY <1>0, <2>1 DEF Running
    <2>4. stamp' \in Nat /\ started <= stamp' /\ stamp' <= now
      BY <1>a, <2>1
    <2>5. TypeOK'
      BY <1>0, <1>a, <2>1, <2>2, <2>4 DEF TypeOK
    <2>6. Clock' /\ Sleeping' /\ Running' /\ RanBefore'
      BY <1>0, <2>1 DEF Clock, Sleeping, Running, RanBefore
    <2>7. UpToDate'
      <3>1. ASSUME healthy' PROVE stamp' # 0 /\ \A s \in Slots : s <= now => s <= stamp'
        <4>1. now < due + UsualRun + Poll
          BY <1>a, <2>2, <2>3, <3>1
        <4>2. \A s \in Slots : s <= now => s <= due
          BY <1>a, <2>3, <4>1, NoSlotBetween
        <4>3. stamp' # 0
          BY <1>a, <2>3, <2>4
        <4> QED
          BY <1>a, <2>3, <2>4, <4>2, <4>3
      <3>2. healthy' => Current'
        BY <2>1, <3>1 DEF Current
      <3> QED
        BY <3>2 DEF UpToDate
    <2> QED
      BY <2>5, <2>6, <2>7 DEF IInv
  <1>5. CASE Fails \/ Stopped
    <2>1. pc' \in {"plan", "down"} /\ UNCHANGED <<now, due, wake, started, stamp, ran>>
      BY <1>5 DEF Fails, Stopped
    <2>2. healthy' \in BOOLEAN /\ ~healthy'
      BY <1>5, Zenon DEF Fails, Stopped
    <2>3. TypeOK'
      BY <1>0, <2>1, <2>2 DEF TypeOK
    <2>4. Clock' /\ Sleeping' /\ Running' /\ RanBefore' /\ UpToDate'
      BY <1>0, <2>1, <2>2 DEF Clock, Sleeping, Running, RanBefore, UpToDate
    <2> QED
      BY <2>3, <2>4 DEF IInv
  <1>6. CASE Restarted
    <2>1. pc = "down" /\ pc' = "plan" /\ UNCHANGED <<now, due, wake, started, stamp, ran>>
      BY <1>6 DEF Restarted
    <2>2. healthy' = healthy
      BY <1>6 DEF Restarted
    <2>3. TypeOK'
      BY <1>0, <1>b, <2>1, <2>2 DEF TypeOK
    <2>4. Clock' /\ Sleeping' /\ Running' /\ RanBefore'
      BY <1>0, <2>1 DEF Clock, Sleeping, Running, RanBefore
    <2>5. UpToDate'
      <3>1. ~Current
        BY <2>1 DEF Current
      <3> QED
        BY <1>0, <2>2, <3>1 DEF UpToDate
    <2> QED
      BY <2>3, <2>4, <2>5 DEF IInv
  <1>7. CASE Tick
    <2>1. /\ now < (LastDay + 1) * Day - 1 /\ now' = now + 1
          /\ pc # "plan" /\ (pc = "sleep" => now < wake)
          /\ UNCHANGED <<pc, due, wake, started, stamp, ran>>
      BY <1>7 DEF Tick
    <2>2. healthy' \in BOOLEAN /\ (healthy' => healthy /\ (pc = "running" => now' <= started + UsualRun))
      BY <1>7, Zenon DEF Tick
    <2>3. TypeOK'
      BY <1>0, <1>a, <2>1, <2>2 DEF TypeOK
    <2>4. Clock'
      <3> DEFINE B == (LastDay + 1) * Day
      <3>1. B \in Nat
        BY <1>a, Multiples DEF ScheduleAssumption
      <3>2. now < B - 1
        BY <2>1
      <3> HIDE DEF B
      <3>3. now' \in Day..B - 1
        BY <1>a, <2>1, <3>1, <3>2
      <3> QED
        BY <3>3 DEF B, Clock
    <2>5. Sleeping' /\ Running' /\ RanBefore'
      BY <1>0, <1>a, <2>1 DEF Sleeping, Running, RanBefore
    <2>6. UpToDate'
      <3>1. Current /\ (pc = "running" => now' <= started + UsualRun) => Current'
        BY <2>1 DEF Current
      <3> QED
        BY <1>0, <2>2, <3>1 DEF UpToDate
    <2> QED
      BY <2>3, <2>4, <2>5, <2>6 DEF IInv
  <1>8. CASE UNCHANGED vars
    <2>1. UNCHANGED <<now, pc, due, wake, started, stamp, ran, healthy>>
      BY <1>8 DEF vars
    <2>2. TypeOK'
      BY <1>0, <1>b, <2>1 DEF TypeOK
    <2>3. Clock' /\ Sleeping' /\ Running' /\ RanBefore' /\ UpToDate'
      BY <1>0, <2>1 DEF Clock, Sleeping, Running, RanBefore, UpToDate, Current
    <2> QED
      BY <2>2, <2>3 DEF IInv
  <1> QED
    BY <1>1, <1>2, <1>3, <1>4, <1>5, <1>6, <1>7, <1>8 DEF Next

LEMMA Invariant == Spec => []IInv
  <1>1. Init => IInv
    BY InitInv, ScheduleAssumption, HeadroomAssumption, SpacingAssumption
  <1>2. IInv /\ [Next]_vars => IInv'
    BY NextInv, ScheduleAssumption, HeadroomAssumption, SpacingAssumption
  <1> QED
    BY <1>1, <1>2, PTL DEF Spec

------------------------------------------------------------------------------
(* What the daemon waits for and runs is a slot, and a stamp is never in   *)
(* the future, for any slots and any number of days.                       *)
THEOREM TypeCorrect == Spec => []TypeOK
  <1>1. IInv => TypeOK
    BY DEF IInv
  <1> QED
    BY <1>1, Invariant, PTL

LEMMA SleepsToNextSlot ==
  ASSUME ScheduleAssumption, HeadroomAssumption, SpacingAssumption, IInv PROVE WaitsForNextSlot
  <1>1. SUFFICES ASSUME pc = "sleep"
                 PROVE  /\ now <= due + Poll
                        /\ now < due => \A s \in Slots : s > now => s >= due
                        /\ now >= due => \A s \in Slots : s <= now => s <= due
    BY DEF WaitsForNextSlot
  <1>2. due \in Slots /\ now <= wake /\ wake < due + Poll
        /\ (now < due => \A s \in Slots : s > now => due <= s)
    BY <1>1 DEF IInv, Sleeping
  <1>3. now \in Nat /\ wake \in Nat /\ due \in Nat /\ Poll \in Nat /\ UsualRun \in Nat
        /\ Slots \subseteq Nat
    BY Numbers DEF IInv
  <1>4. now < due + UsualRun + Poll
    BY <1>2, <1>3
  <1>5. \A s \in Slots : s <= now => s <= due
    BY <1>2, <1>3, <1>4, NoSlotBetween
  <1> QED
    BY <1>2, <1>3, <1>5

(* No slot passes unused while the daemon sleeps: it waits for the very    *)
(* next one, whenever it was started or its last run ended.                *)
THEOREM WaitCorrect == Spec => []WaitsForNextSlot
  <1>1. IInv => WaitsForNextSlot
    BY SleepsToNextSlot, ScheduleAssumption, HeadroomAssumption, SpacingAssumption
  <1> QED
    BY <1>1, Invariant, PTL

(* A slot is run once and in time, however long runs take and however      *)
(* often the daemon is restarted.                                          *)
THEOREM SlotsRunOnce == Spec => OneRunPerSlot
  <1>1. ASSUME IInv, [Next]_vars, pc = "sleep", pc' = "running"
        PROVE  due \notin ran /\ now \in due..due + Poll
    <2>1. Trigger
      BY <1>1 DEF Next, Plan, SleepOn, Trigger, Succeeds, Fails, Stopped, Restarted, Tick, vars
    <2>2. now >= due
      BY <2>1 DEF Trigger
    <2>3. due \in Slots /\ now <= wake /\ wake < due + Poll /\ \A s \in ran : s < due
      BY <1>1 DEF IInv, Sleeping, RanBefore
    <2>4. now \in Nat /\ wake \in Nat /\ due \in Nat /\ Poll \in Nat
      BY <1>1, Numbers, ScheduleAssumption, HeadroomAssumption DEF IInv
    <2> QED
      BY <2>2, <2>3, <2>4
  <1>2. IInv /\ [Next]_vars =>
          [pc = "sleep" /\ pc' = "running" => due \notin ran /\ now \in due..due + Poll]_vars
    BY <1>1
  <1> QED
    BY <1>2, Invariant, PTL DEF Spec, OneRunPerSlot

LEMMA NotOverdue ==
  ASSUME ScheduleAssumption, HeadroomAssumption, SpacingAssumption, IInv, healthy
  PROVE  ~IsOverdue(stamp, now)
  <1> DEFINE last == LastRun(now)
  <1>0. TypeOK /\ Clock /\ Sleeping /\ Running /\ Current
    BY DEF IInv, UpToDate
  <1>1. last \in Slots /\ last <= now /\ \A s \in Slots : s <= now => s <= last
    BY <1>0, LastRunIs DEF Clock
  <1> HIDE DEF last
  <1>2. /\ now \in Nat /\ wake \in Nat /\ started \in Nat /\ stamp \in Nat /\ due \in Nat
        /\ Poll \in Nat /\ UsualRun \in Nat /\ Grace \in Nat /\ UsualRun + Poll <= Grace
        /\ last \in Nat
    BY <1>0, <1>1, Numbers
  <1>3. stamp # 0 /\ pc # "down" /\ pc \in {"down", "plan", "sleep", "running"}
    BY <1>0 DEF Current, TypeOK
  <1>4. pc = "plan" => last <= stamp
    BY <1>0, <1>1 DEF Current
  <1>5. pc = "sleep" /\ now < due => last <= stamp
    BY <1>0, <1>1, <1>2 DEF Current
  <1>6. ASSUME pc \in {"sleep", "running"}, now >= due PROVE now <= last + Grace
    <2>1. due \in Slots /\ now < due + UsualRun + Poll
      BY <1>0, <1>2, <1>6 DEF Sleeping, Running, Current
    <2>2. last <= due /\ due <= last
      BY <1>1, <1>2, <1>6, <2>1, NoSlotBetween
    <2> QED
      BY <1>2, <2>1, <2>2
  <1>7. stamp # 0 /\ (last <= stamp \/ now <= last + Grace)
    <2>1. pc = "running" => now >= due
      BY <1>0, <1>2 DEF Running
    <2>2. now >= due \/ now < due
      BY <1>2
    <2> QED
      BY <1>3, <1>4, <1>5, <1>6, <2>1, <2>2
  <1> QED
    BY <1>2, <1>7 DEF IsOverdue, last

(* As long as updates succeed in the usual time nothing they refresh is    *)
(* called overdue: RUN_GRACE covers a run and a poll.                      *)
THEOREM HealthyCorrect == Spec => []HealthyNeverOverdue
  <1>1. IInv => HealthyNeverOverdue
    BY NotOverdue, ScheduleAssumption, HeadroomAssumption, SpacingAssumption DEF HealthyNeverOverdue
  <1> QED
    BY <1>1, Invariant, PTL

------------------------------------------------------------------------------
(* The update a slot starts, as OrderedUpdate promises it, for any number  *)
(* of steps.                                                               *)
CONSTANT N
VARIABLES run, busy, done, made, recorded

Ordered == INSTANCE OrderedUpdate WITH stamp <- recorded

(* While a run is in progress it has produced the output of its first      *)
(* steps, and of no other.                                                 *)
InProgress ==
  /\ busy => run > 0
  /\ busy => \A i \in 1..N : i <= done => made[i] = run
  /\ busy => recorded < run
  /\ ~busy => done = 0

OrderedInv == Ordered!TypeOK /\ InProgress /\ Ordered!UpstreamNeverOlder /\ Ordered!StampEarned

LEMMA OrderedInit == ASSUME N \in Nat \ {0}, Ordered!Init PROVE OrderedInv
  <1>1. ~busy /\ busy \in BOOLEAN
    BY Zenon DEF Ordered!Init
  <1>2. /\ run \in Nat /\ done \in 0..N /\ recorded \in 0..run /\ made \in [1..N -> 0..run]
        /\ done = 0 /\ recorded = 0 /\ \A i \in 1..N : made[i] = 0
    BY DEF Ordered!Init
  <1>3. Ordered!UpstreamNeverOlder /\ Ordered!StampEarned
    BY <1>2 DEF Ordered!UpstreamNeverOlder, Ordered!StampEarned
  <1> QED
    BY <1>1, <1>2, <1>3 DEF OrderedInv, Ordered!TypeOK, InProgress

LEMMA OrderedNext ==
  ASSUME N \in Nat \ {0}, OrderedInv, [Ordered!Next]_(Ordered!vars)
  PROVE  OrderedInv'
  <1>0. /\ N \in Nat \ {0} /\ run \in Nat /\ done \in 0..N /\ recorded \in 0..run
        /\ made \in [1..N -> 0..run]
    BY DEF OrderedInv, Ordered!TypeOK
  <1> USE DEF Ordered!UpstreamNeverOlder, Ordered!StampEarned
  <1>1. CASE Ordered!Begin
    <2>1. /\ ~busy /\ busy' /\ busy' \in BOOLEAN
      BY <1>1, Zenon DEF Ordered!Begin
    <2>2. run' = run + 1 /\ done' = 0 /\ UNCHANGED <<made, recorded>>
      BY <1>1 DEF Ordered!Begin
    <2>3. made' \in [1..N -> 0..run'] /\ run' \in Nat
      BY <1>0, <2>2
    <2> QED
      BY <1>0, <2>1, <2>2, <2>3 DEF OrderedInv, Ordered!TypeOK, InProgress
  <1>2. CASE Ordered!Produce
    <2>1. busy /\ busy' /\ busy' \in BOOLEAN
      BY <1>2, Zenon DEF Ordered!Produce, OrderedInv, Ordered!TypeOK
    <2>2. /\ done < N /\ done' = done + 1 /\ made' = [made EXCEPT ![done + 1] = run]
          /\ UNCHANGED <<run, recorded>>
      BY <1>2 DEF Ordered!Produce
    <2>3. /\ run > 0 /\ recorded < run /\ \A i \in 1..N : i <= done => made[i] = run
      BY <2>1 DEF OrderedInv, InProgress
    <2>4. /\ made' \in [1..N -> 0..run] /\ done' \in 0..N
          /\ \A i \in 1..N : made'[i] = IF i = done + 1 THEN run ELSE made[i]
      BY <1>0, <2>2
    <2>5. \A i \in 1..N : i <= done' => made'[i] = run
      BY <1>0, <2>2, <2>3, <2>4
    <2>6. Ordered!UpstreamNeverOlder'
      <3> SUFFICES ASSUME NEW i \in 1..N, NEW j \in 1..N, i <= j PROVE made'[j] <= made'[i]
        BY <2>2 DEF Ordered!UpstreamNeverOlder
      <3>1. CASE i <= done'
        BY <1>0, <2>4, <2>5, <3>1
      <3>2. CASE i > done'
        BY <1>0, <2>2, <2>4, <3>2 DEF OrderedInv
      <3> QED
        BY <1>0, <2>4, <3>1, <3>2
    <2>7. Ordered!StampEarned'
      BY <1>0, <2>2, <2>3, <2>4 DEF OrderedInv
    <2> QED
      BY <1>0, <2>1, <2>2, <2>3, <2>4, <2>5, <2>6, <2>7 DEF OrderedInv, Ordered!TypeOK, InProgress
  <1>3. CASE Ordered!Abandon
    <2>1. ~busy' /\ busy' \in BOOLEAN
      BY <1>3, Zenon DEF Ordered!Abandon
    <2>2. done' = 0 /\ UNCHANGED <<run, made, recorded>>
      BY <1>3 DEF Ordered!Abandon
    <2> QED
      BY <1>0, <2>1, <2>2 DEF OrderedInv, Ordered!TypeOK, InProgress
  <1>4. CASE Ordered!Finish
    <2>1. busy /\ ~busy' /\ busy' \in BOOLEAN
      BY <1>4, Zenon DEF Ordered!Finish
    <2>2. done = N /\ done' = 0 /\ recorded' \in {recorded, run} /\ UNCHANGED <<run, made>>
      BY <1>4 DEF Ordered!Finish
    <2>3. \A i \in 1..N : made[i] = run
      BY <1>0, <2>1, <2>2 DEF OrderedInv, InProgress
    <2> QED
      BY <1>0, <2>1, <2>2, <2>3 DEF OrderedInv, Ordered!TypeOK, InProgress
  <1>5. CASE UNCHANGED Ordered!vars
    BY <1>5 DEF Ordered!vars, OrderedInv, Ordered!TypeOK, InProgress
  <1> QED
    BY <1>1, <1>2, <1>3, <1>4, <1>5 DEF Ordered!Next

(* Nothing downstream is newer than what it was computed from, and a run   *)
(* recorded as successful produced everything, however many steps there    *)
(* are and wherever runs were abandoned.                                   *)
THEOREM OrderedCorrect ==
  ASSUME N \in Nat \ {0}
  PROVE  Ordered!Spec => [](Ordered!TypeOK /\ Ordered!UpstreamNeverOlder /\ Ordered!StampEarned)
  <1>1. Ordered!Init => OrderedInv
    BY OrderedInit
  <1>2. OrderedInv /\ [Ordered!Next]_(Ordered!vars) => OrderedInv'
    BY OrderedNext
  <1>3. OrderedInv => Ordered!TypeOK /\ Ordered!UpstreamNeverOlder /\ Ordered!StampEarned
    BY DEF OrderedInv
  <1> QED
    BY <1>1, <1>2, <1>3, PTL DEF Ordered!Spec
==============================================================================
