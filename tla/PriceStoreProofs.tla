-------------------------- MODULE PriceStoreProofs --------------------------
(***************************************************************************)
(* What holds of the stored bars and technicals for any number of days,    *)
(* live refreshes, edits and restarts.                                     *)
(***************************************************************************)
EXTENDS PriceStore, TLAPS

(* the rows one recomputation may have to leave behind                     *)
AllRecomputed == \A d \in DOMAIN bar : d \in DOMAIN tech /\ tech[d] = UpTo(bar, d)

LEMMA NoRowsType == IsTable(NoRows)
  BY DEF IsTable, NoRows, Days, Bar

LEMMA UpToType ==
  ASSUME NEW t, IsTable(t), NEW d PROVE IsTable(UpTo(t, d))
  BY DEF IsTable, UpTo, Bar

LEMMA UpsertedType ==
  ASSUME NEW t, NEW rows, IsTable(t), IsTable(rows) PROVE IsTable(Upserted(t, rows))
  BY DEF IsTable, Upserted, Bar

LEMMA DividedType ==
  ASSUME NEW t, IsTable(t) PROVE IsTable(Divided(t))
  <1>1. \A d \in DOMAIN t : [t[d] EXCEPT !.divided = @ + 1] \in Bar
    BY DEF IsTable, Bar
  <1> QED BY <1>1 DEF IsTable, Divided

(* The technicals of a table are one row for each of its rows.             *)
LEMMA RecomputedRow ==
  ASSUME NEW t, NEW old, NEW d \in DOMAIN t
  PROVE  /\ d \in DOMAIN TechnicalsOf(t) /\ TechnicalsOf(t)[d] = UpTo(t, d)
         /\ d \in DOMAIN Upserted(old, TechnicalsOf(t))
         /\ Upserted(old, TechnicalsOf(t))[d] = UpTo(t, d)
  BY DEF TechnicalsOf, Upserted

------------------------------------------------------------------------------
(* Types.                                                                  *)

Pcs == OnItsWay \union Rescaling \union
         {"idle", "begin", "read", "write", "seed", "clean", "recomputed"}

(* Going on keeps the types of what a process knows.                       *)
LEMMA GoesType ==
  ASSUME TypeOK, NEW p \in Procs, NEW to \in Pcs, NEW rows, IsTable(rows), Goes(p, to, rows)
  PROVE  /\ pc' \in [Procs -> Pcs]
         /\ scale' \in [Procs -> Divisors]
         /\ DOMAIN batch' = Procs /\ \A q \in Procs : IsTable(batch'[q])
  <1>1. pc' \in [Procs -> Pcs]
    BY DEF Goes, TypeOK, Pcs
  <1>2. scale' \in [Procs -> Divisors]
    BY DEF Goes, TypeOK, Divisors
  <1>3. DOMAIN batch' = Procs
    BY DEF Goes, TypeOK
  <1>4. ASSUME NEW q \in Procs PROVE IsTable(batch'[q])
    <2>1. CASE q = p
      <3>1. batch'[q] = rows
        BY <2>1 DEF Goes, TypeOK
      <3> QED BY <3>1
    <2>2. CASE q # p
      <3>1. batch'[q] = batch[q]
        BY <2>2 DEF Goes, TypeOK
      <3> QED BY <3>1 DEF TypeOK
    <2> QED BY <2>1, <2>2
  <1> QED BY <1>1, <1>2, <1>3, <1>4

(* New bars keep the types of the bars and of what their stamps say.       *)
LEMMA BarsBecomeType ==
  ASSUME TypeOK, NEW rows, IsTable(rows), BarsBecome(rows)
  PROVE  IsTable(bar)' /\ begun' \in [Procs -> BOOLEAN] /\ fresh' \in BOOLEAN
  <1>1. bar' = rows
    BY DEF BarsBecome
  <1>2. IsTable(bar)'
    BY <1>1 DEF IsTable
  <1>3. begun' \in [Procs -> BOOLEAN] /\ fresh' \in BOOLEAN
    BY ZenonT(30) DEF BarsBecome, TypeOK
  <1> QED BY <1>2, <1>3

(* The technicals recomputed from a table are rows of tables.              *)
LEMMA TechnicalsType ==
  ASSUME NEW t, IsTable(t)
  PROVE  DOMAIN TechnicalsOf(t) \subseteq Days
         /\ \A d \in DOMAIN TechnicalsOf(t) : IsTable(TechnicalsOf(t)[d])
  <1>1. DOMAIN TechnicalsOf(t) \subseteq Days
    BY DEF TechnicalsOf, IsTable
  <1>2. ASSUME NEW d \in DOMAIN TechnicalsOf(t) PROVE IsTable(TechnicalsOf(t)[d])
    BY UpToType, RecomputedRow DEF TechnicalsOf
  <1> QED BY <1>1, <1>2

LEMMA TypeInit == Init => TypeOK
  <1> SUFFICES ASSUME Init PROVE TypeOK OBVIOUS
  <1>1. quote \in [Days -> {0, 1} \union 0..MaxQuotes]
    BY DEF Init
  <1>2. IsTable(bar)
    BY <1>1, StoreAssumption DEF Init, IsTable, Bar
  <1>3. DOMAIN tech \subseteq Days /\ \A d \in DOMAIN tech : IsTable(tech[d])
    <2>1. tech = TechnicalsOf(bar)
      BY DEF Init, TechnicalsOf
    <2> QED BY <2>1, <1>2, TechnicalsType
  <1>4. DOMAIN batch = Procs /\ (\A p \in Procs : IsTable(batch[p])) /\ IsTable(rescaled)
    BY NoRowsType DEF Init
  <1>5. edits \in 0..MaxEdits /\ starts \in 0..MaxStarts
    BY StoreAssumption DEF Init
  <1>6. listed \in Divisors /\ divisor \in Divisors /\ scale \in [Procs -> Divisors]
    BY DEF Init, Divisors
  <1> QED BY <1>1, <1>2, <1>3, <1>4, <1>5, <1>6 DEF Init, TypeOK

(* Every action keeps the types.                                           *)
LEMMA TypeNext == TypeOK /\ [Next]_vars => TypeOK'
  <1> SUFFICES ASSUME TypeOK, [Next]_vars PROVE TypeOK' OBVIOUS
  <1>a. OnItsWay \union Rescaling \union
          {"idle", "begin", "read", "write", "seed", "clean", "recomputed"} = Pcs
    BY DEF Pcs
  <1>b. IsTable(bar) /\ IsTable(rescaled) /\ \A p \in Procs : IsTable(batch[p])
    BY DEF TypeOK
  <1>1. CASE Trade
    <2>1. quote' \in [Days -> {0, 1} \union 0..MaxQuotes]
      <3>1. quote' = [quote EXCEPT ![Last] = @ + 1] /\ quote[Last] < MaxQuotes
        BY <1>1 DEF Trade
      <3>2. quote \in [Days -> {0, 1} \union 0..MaxQuotes]
        BY DEF TypeOK
      <3>3. CASE Last \in Days
        <4>1. quote[Last] \in {0, 1} \union 0..MaxQuotes
          BY <3>2, <3>3
        <4>2. quote[Last] + 1 \in 0..MaxQuotes
          BY <3>1, <4>1, StoreAssumption
        <4> QED BY <3>1, <3>2, <3>3, <4>2
      <3>4. CASE Last \notin Days
        BY <3>1, <3>2, <3>4
      <3> QED BY <3>3, <3>4
    <2> QED BY <1>1, <2>1 DEF Trade, TypeOK, IsTable, store, memory, history
  <1>2. CASE EditWatchlist
    <2>1. edits' \in 0..MaxEdits /\ listed' \in Divisors
      BY <1>2, StoreAssumption DEF EditWatchlist, TypeOK
    <2> QED BY <1>2, <2>1 DEF EditWatchlist, TypeOK, IsTable, store, memory, history
  <1>3. CASE SeedAssets
    <2>1. Seed \in Procs
      BY DEF Procs
    <2>2. divisor' \in Divisors
      BY <1>3, <2>1 DEF SeedAssets, TypeOK
    <2>3. pc' \in [Procs -> Pcs] /\ scale' \in [Procs -> Divisors]
          /\ DOMAIN batch' = Procs /\ \A q \in Procs : IsTable(batch'[q])
      BY <1>3, <2>1, NoRowsType, GoesType DEF SeedAssets, Pcs
    <2>4. crossed' \in BOOLEAN /\ reverted' \in BOOLEAN
      BY <1>3, Zenon DEF SeedAssets
    <2> QED
      BY <1>3, <1>a, <2>2, <2>3, <2>4 DEF SeedAssets, TypeOK, outside, IsTable
  <1>4. CASE DeletePhantoms
    <2>1. Cleanup \in Procs
      BY DEF Procs
    <2>2. IsTable([d \in DOMAIN bar \ ZeroVolume |-> bar[d]])
      BY <1>b DEF IsTable, Bar
    <2>3. IsTable(bar)' /\ begun' \in [Procs -> BOOLEAN] /\ fresh' \in BOOLEAN
      BY <1>4, <2>2, BarsBecomeType DEF DeletePhantoms
    <2>4. pc' \in [Procs -> Pcs] /\ scale' \in [Procs -> Divisors]
          /\ DOMAIN batch' = Procs /\ \A q \in Procs : IsTable(batch'[q])
      BY <1>4, <2>1, NoRowsType, GoesType DEF DeletePhantoms, Pcs
    <2> QED
      BY <1>4, <1>a, <2>3, <2>4 DEF DeletePhantoms, TypeOK, outside, history, IsTable
  <1>5. ASSUME NEW p \in Procs, Start(p) PROVE TypeOK'
    <2>1. pc' \in [Procs -> Pcs]
      BY <1>5, <1>a DEF Start, FirstPc, TypeOK, Pcs, OnItsWay
    <2>2. scale' \in [Procs -> Divisors]
      BY <1>5 DEF Start, TypeOK
    <2>3. starts' \in 0..MaxStarts
      BY <1>5, StoreAssumption DEF Start, TypeOK
    <2>4. alone' \in [Procs -> BOOLEAN]
      BY <1>5, Zenon DEF Start
    <2> QED
      BY <1>5, <1>a, <2>1, <2>2, <2>3, <2>4 DEF Start, TypeOK, store, outside, IsTable
  <1>6. ASSUME NEW p \in Procs, Fetch(p) PROVE TypeOK'
    <2>1. PICK days \in SUBSET Window(p) : Goes(p, "load", RecordsFromHistory(p, days))
      BY <1>6 DEF Fetch
    <2>2. IsTable(RecordsFromHistory(p, days))
      <3>1. days \subseteq Days
        BY StoreAssumption DEF Window
      <3>2. quote \in [Days -> Nat]
        BY StoreAssumption DEF TypeOK
      <3>3. \A x : Divisions(x) \in Nat
        BY DEF Divisions
      <3> QED BY <3>1, <3>2, <3>3 DEF RecordsFromHistory, IsTable, Bar
    <2>3. pc' \in [Procs -> Pcs] /\ scale' \in [Procs -> Divisors]
          /\ DOMAIN batch' = Procs /\ \A q \in Procs : IsTable(batch'[q])
      BY <2>1, <2>2, GoesType DEF Pcs, OnItsWay
    <2> QED
      BY <1>6, <1>a, <2>3 DEF Fetch, TypeOK, store, outside, history, IsTable
  <1>7. ASSUME NEW p \in Procs, FetchFails(p) PROVE TypeOK'
    <2>1. pc' \in [Procs -> Pcs] /\ scale' \in [Procs -> Divisors]
          /\ DOMAIN batch' = Procs /\ \A q \in Procs : IsTable(batch'[q])
      BY <1>7, NoRowsType, GoesType DEF FetchFails, Pcs
    <2> QED
      BY <1>7, <1>a, <2>1 DEF FetchFails, TypeOK, store, outside, history, IsTable
  <1>8. ASSUME NEW p \in Procs, UpsertDailyPrices(p) PROVE TypeOK'
    <2>1. pc' \in [Procs -> Pcs] /\ scale' \in [Procs -> Divisors]
          /\ DOMAIN batch' = Procs /\ \A q \in Procs : IsTable(batch'[q])
      BY <1>8, <1>b, GoesType DEF UpsertDailyPrices, Pcs, OnItsWay
    <2> QED
      BY <1>8, <1>a, <2>1 DEF UpsertDailyPrices, TypeOK, store, outside, history, IsTable
  <1>9. ASSUME NEW p \in Procs, BeginRecompute(p) PROVE TypeOK'
    <2>1. pc' \in [Procs -> Pcs] /\ scale' \in [Procs -> Divisors]
          /\ DOMAIN batch' = Procs /\ \A q \in Procs : IsTable(batch'[q])
      BY <1>9, NoRowsType, GoesType DEF BeginRecompute, Pcs
    <2>2. begun' \in [Procs -> BOOLEAN]
      BY <1>9 DEF BeginRecompute, TypeOK
    <2> QED
      BY <1>9, <1>a, <2>1, <2>2 DEF BeginRecompute, TypeOK, store, outside, history, IsTable
  <1>10. ASSUME NEW p \in Procs, SelectBars(p) PROVE TypeOK'
    <2>1. pc' \in [Procs -> Pcs] /\ scale' \in [Procs -> Divisors]
          /\ DOMAIN batch' = Procs /\ \A q \in Procs : IsTable(batch'[q])
      BY <1>10, <1>b, GoesType DEF SelectBars, Pcs
    <2> QED
      BY <1>10, <1>a, <2>1 DEF SelectBars, TypeOK, store, outside, history, IsTable
  <1>11. ASSUME NEW p \in Procs, UpsertTechnicals(p) PROVE TypeOK'
    <2>1. pc' \in [Procs -> Pcs] /\ scale' \in [Procs -> Divisors]
          /\ DOMAIN batch' = Procs /\ \A q \in Procs : IsTable(batch'[q])
      BY <1>11, NoRowsType, GoesType DEF UpsertTechnicals, Pcs
    <2>2. DOMAIN tech' \subseteq Days /\ \A d \in DOMAIN tech' : IsTable(tech'[d])
      <3>1. tech' = Upserted(tech, TechnicalsOf(batch[p]))
        BY <1>11 DEF UpsertTechnicals
      <3>2. DOMAIN TechnicalsOf(batch[p]) \subseteq Days
            /\ \A d \in DOMAIN TechnicalsOf(batch[p]) : IsTable(TechnicalsOf(batch[p])[d])
        BY <1>b, TechnicalsType
      <3>3. DOMAIN tech \subseteq Days /\ \A d \in DOMAIN tech : IsTable(tech[d])
        BY DEF TypeOK
      <3> QED BY <3>1, <3>2, <3>3 DEF Upserted
    <2>3. fresh' \in BOOLEAN
      BY <1>11 DEF UpsertTechnicals, Stamps, TypeOK
    <2> QED
      BY <1>11, <1>a, <2>1, <2>2, <2>3 DEF UpsertTechnicals, TypeOK, outside, history, IsTable
  <1>12. ASSUME NEW p \in Procs, Killed(p) PROVE TypeOK'
    <2>1. pc' \in [Procs -> Pcs] /\ scale' \in [Procs -> Divisors]
          /\ DOMAIN batch' = Procs /\ \A q \in Procs : IsTable(batch'[q])
      BY <1>12, NoRowsType, GoesType DEF Killed, Pcs
    <2>2. IsTable(rescaled)'
      <3>1. rescaled' = NoRows \/ rescaled' = rescaled
        BY <1>12 DEF Killed
      <3> QED BY <1>b, <3>1, NoRowsType DEF IsTable
    <2> QED
      BY <1>12, <1>a, <2>1, <2>2 DEF Killed, TypeOK, store, outside, history, IsTable
  <1>14. ASSUME NEW p \in Procs, CommitLoad(p) PROVE TypeOK'
    <2>1. IsTable(Upserted(bar, batch[p]))
      BY <1>b, UpsertedType
    <2>2. IsTable(bar)' /\ begun' \in [Procs -> BOOLEAN] /\ fresh' \in BOOLEAN
      BY <1>14, <2>1, BarsBecomeType DEF CommitLoad
    <2>3. pc' \in [Procs -> Pcs] /\ scale' \in [Procs -> Divisors]
          /\ DOMAIN batch' = Procs /\ \A q \in Procs : IsTable(batch'[q])
      BY <1>14, NoRowsType, GoesType DEF CommitLoad, Pcs
    <2>4. missed' \in BOOLEAN
      BY <1>14, Zenon DEF CommitLoad
    <2> QED
      BY <1>14, <1>a, <2>2, <2>3, <2>4 DEF CommitLoad, TypeOK, outside, IsTable
  <1>15. CASE RescaleStoredPrices
    <2>1. pc' \in [Procs -> Pcs] /\ scale' \in [Procs -> Divisors]
          /\ DOMAIN batch' = Procs /\ \A q \in Procs : IsTable(batch'[q])
      BY <1>15, NoRowsType, GoesType DEF RescaleStoredPrices, Pcs, Rescaling, Procs
    <2> QED
      BY <1>15, <1>a, <2>1 DEF RescaleStoredPrices, TypeOK, store, outside, IsTable
  <1>16. CASE DivideStoredPrices
    <2>1. pc' \in [Procs -> Pcs] /\ scale' \in [Procs -> Divisors]
          /\ DOMAIN batch' = Procs /\ \A q \in Procs : IsTable(batch'[q])
      BY <1>16, NoRowsType, GoesType DEF DivideStoredPrices, Pcs, Rescaling, Procs
    <2>2. IsTable([d \in DOMAIN rescaled \intersect DOMAIN bar |-> bar[d]])
      BY <1>b DEF IsTable, Bar
    <2>3. IsTable(rescaled)'
      <3>1. rescaled' = Divided([d \in DOMAIN rescaled \intersect DOMAIN bar |-> bar[d]])
        BY <1>16 DEF DivideStoredPrices
      <3> QED BY <2>2, <3>1, DividedType DEF IsTable
    <2> QED
      BY <1>16, <1>a, <2>1, <2>3 DEF DivideStoredPrices, TypeOK, store, outside, history, IsTable
  <1>17. CASE RecomputeRescaled
    <2>1. IsTable(Upserted(bar, rescaled))
      BY <1>b, UpsertedType
    <2>2. pc' \in [Procs -> Pcs] /\ scale' \in [Procs -> Divisors]
          /\ DOMAIN batch' = Procs /\ \A q \in Procs : IsTable(batch'[q])
      BY <1>17, <2>1, GoesType DEF RecomputeRescaled, Pcs, Rescaling, Procs
    <2> QED
      BY <1>17, <1>a, <2>2 DEF RecomputeRescaled, TypeOK, store, outside, history, IsTable
  <1>18. CASE CommitRescale
    <2>1. Seed \in Procs
      BY DEF Procs
    <2>2. IsTable(bar)'
      <3>1. bar' = Upserted(bar, rescaled)
        BY <1>18 DEF CommitRescale
      <3> QED BY <1>b, <3>1, UpsertedType DEF IsTable
    <2>3. DOMAIN tech' \subseteq Days /\ \A d \in DOMAIN tech' : IsTable(tech'[d])
      <3>1. tech' = TechnicalsOf(batch[Seed])
        BY <1>18 DEF CommitRescale
      <3> QED BY <1>b, <2>1, <3>1, TechnicalsType
    <2>4. pc' \in [Procs -> Pcs] /\ scale' \in [Procs -> Divisors]
          /\ DOMAIN batch' = Procs /\ \A q \in Procs : IsTable(batch'[q])
      BY <1>18, <2>1, NoRowsType, GoesType DEF CommitRescale, Pcs
    <2>5. IsTable(rescaled)'
      BY <1>18, NoRowsType DEF CommitRescale, IsTable
    <2>6. begun' \in [Procs -> BOOLEAN] /\ fresh' \in BOOLEAN /\ crossed' \in BOOLEAN
      BY <1>18, ZenonT(30) DEF CommitRescale, TypeOK
    <2>7. divisor' \in Divisors
      BY <1>18, <2>1 DEF CommitRescale, TypeOK
    <2> QED
      BY <1>18, <1>a, <2>2, <2>3, <2>4, <2>5, <2>6, <2>7 DEF CommitRescale, TypeOK, outside
  <1>13. CASE UNCHANGED vars
    BY <1>13 DEF vars, store, memory, outside, history, TypeOK, IsTable
  <1> QED
    BY <1>1, <1>2, <1>3, <1>4, <1>5, <1>6, <1>7, <1>8, <1>9, <1>10, <1>11, <1>12, <1>13,
       <1>14, <1>15, <1>16, <1>17, <1>18 DEF Next

(* Type correctness for every asset: fetches, upserts, recomputations,     *)
(* rescales and cleanups leave tables of bars.                             *)
THEOREM StoreTypeCorrect == Spec => []TypeOK
  BY TypeInit, TypeNext, PTL DEF Spec

------------------------------------------------------------------------------
(* A process that is alone. Only a start makes a process run, and a start  *)
(* ends the solitude of everybody else; so while a process is alone,       *)
(* nothing changes the bars between its SELECT and its upsert.             *)

AloneInv ==
  /\ \A p \in Procs : alone[p] => \A q \in Procs \ {p} : ~Running(q)
  /\ \A p \in Procs : alone[p] /\ pc[p] = "write" => batch[p] = bar
  /\ \A p \in Procs : alone[p] /\ pc[p] = "publish" => batch[p] = Upserted(bar, rescaled)
  /\ AloneRecomputesAll

(* The step of one process, seen by the others.                            *)
LEMMA OthersAside ==
  ASSUME TypeOK, AloneInv, NEW p \in Procs, Running(p), NEW to, NEW rows, Goes(p, to, rows),
         alone' = alone, NEW q \in Procs, alone'[q]
  PROVE  q = p /\ \A r \in Procs \ {q} : ~Running(r)'
  <1>1. q = p
    BY DEF AloneInv
  <1>2. ASSUME NEW r \in Procs \ {q} PROVE ~Running(r)'
    <2>1. pc'[r] = pc[r]
      BY <1>1 DEF Goes, TypeOK
    <2>2. ~Running(r)
      BY DEF AloneInv
    <2> QED BY <2>1, <2>2 DEF Running
  <1> QED BY <1>1, <1>2

LEMMA AloneInit == Init => AloneInv
  BY DEF Init, AloneInv, AloneRecomputesAll

(* A step of a running process that ends neither in an upsert nor in a     *)
(* recomputation.                                                          *)
LEMMA AloneAside ==
  ASSUME TypeOK, AloneInv, NEW p \in Procs, Running(p), NEW to, NEW rows, Goes(p, to, rows),
         alone' = alone, to \notin {"write", "publish", "recomputed"}
  PROVE  AloneInv'
  <1>1. ASSUME NEW q \in Procs, alone'[q]
        PROVE  q = p /\ \A r \in Procs \ {q} : ~Running(r)'
    BY <1>1, OthersAside
  <1>2. pc'[p] = to
    BY DEF Goes, TypeOK
  <1> QED BY <1>1, <1>2 DEF AloneInv, AloneRecomputesAll

LEMMA AloneNext == TypeOK /\ AloneInv /\ [Next]_vars => AloneInv'
  <1> SUFFICES ASSUME TypeOK, AloneInv, [Next]_vars PROVE AloneInv' OBVIOUS
  <1>1. CASE Trade
    BY <1>1 DEF Trade, AloneInv, AloneRecomputesAll, Running, store, memory, history
  <1>2. CASE EditWatchlist
    BY <1>2 DEF EditWatchlist, AloneInv, AloneRecomputesAll, Running, store, memory, history
  <1>3. CASE SeedAssets
    BY <1>3, AloneAside DEF SeedAssets, Procs, Running
  <1>4. CASE DeletePhantoms
    <2>1. Cleanup \in Procs /\ Running(Cleanup) /\ alone' = alone
      BY <1>4 DEF DeletePhantoms, Procs, Running, history
    <2> QED BY <1>4, <2>1, AloneAside DEF DeletePhantoms
  <1>5. ASSUME NEW p \in Procs, Start(p) PROVE AloneInv'
    <2>1. pc'[p] \notin {"write", "publish", "recomputed"} /\ \A q \in Procs \ {p} : pc'[q] = pc[q]
      BY <1>5 DEF Start, FirstPc, TypeOK
    <2>2. \A q \in Procs : alone'[q] => q = p /\ \A r \in Procs \ {p} : ~Running(r)
      BY <1>5, Zenon DEF Start
    <2>3. \A r \in Procs \ {p} : ~Running(r) => ~Running(r)'
      BY <2>1 DEF Running
    <2> QED BY <2>1, <2>2, <2>3 DEF AloneInv, AloneRecomputesAll
  <1>6. ASSUME NEW p \in Procs, Fetch(p) PROVE AloneInv'
    BY <1>6, AloneAside DEF Fetch, Running, history
  <1>7. ASSUME NEW p \in Procs, FetchFails(p) PROVE AloneInv'
    BY <1>7, AloneAside DEF FetchFails, Running, history
  <1>8. ASSUME NEW p \in Procs, UpsertDailyPrices(p) PROVE AloneInv'
    BY <1>8, AloneAside DEF UpsertDailyPrices, Running, history
  <1>9. ASSUME NEW p \in Procs, BeginRecompute(p) PROVE AloneInv'
    BY <1>9, AloneAside DEF BeginRecompute, Running, history
  <1>10. ASSUME NEW p \in Procs, SelectBars(p) PROVE AloneInv'
    <2>1. Running(p) /\ alone' = alone /\ bar' = bar
      BY <1>10 DEF SelectBars, Running, history, store
    <2>2. \A q \in Procs : alone'[q] => q = p /\ \A r \in Procs \ {q} : ~Running(r)'
      BY <1>10, <2>1, OthersAside DEF SelectBars
    <2>3. batch'[p] = bar /\ pc'[p] # "publish" /\ (pc'[p] = "recomputed" => DOMAIN bar = {})
      BY <1>10 DEF SelectBars, Goes, TypeOK
    <2> QED BY <2>1, <2>2, <2>3 DEF AloneInv, AloneRecomputesAll
  <1>11. ASSUME NEW p \in Procs, UpsertTechnicals(p) PROVE AloneInv'
    <2>1. Running(p) /\ alone' = alone /\ bar' = bar /\ tech' = Upserted(tech, TechnicalsOf(batch[p]))
      BY <1>11 DEF UpsertTechnicals, Running, history
    <2>2. \A q \in Procs : alone'[q] => q = p /\ \A r \in Procs \ {q} : ~Running(r)'
      BY <1>11, <2>1, OthersAside DEF UpsertTechnicals
    <2>3. pc'[p] = "recomputed"
      BY <1>11 DEF UpsertTechnicals, Goes, TypeOK
    <2>4. ASSUME alone'[p], NEW d \in DOMAIN bar' PROVE d \in DOMAIN tech' /\ tech'[d] = UpTo(bar, d)
      <3>1. batch[p] = bar
        BY <1>11, <2>1, <2>4 DEF UpsertTechnicals, AloneInv
      <3> QED BY <2>1, <2>4, <3>1, RecomputedRow
    <2> QED BY <2>1, <2>2, <2>3, <2>4 DEF AloneInv, AloneRecomputesAll, UpTo
  <1>12. ASSUME NEW p \in Procs, Killed(p) PROVE AloneInv'
    BY <1>12, AloneAside DEF Killed, history
  <1>14. ASSUME NEW p \in Procs, CommitLoad(p) PROVE AloneInv'
    BY <1>14, AloneAside DEF CommitLoad, Running
  <1>15. CASE RescaleStoredPrices
    BY <1>15, AloneAside DEF RescaleStoredPrices, Procs, Running
  <1>16. CASE DivideStoredPrices
    BY <1>16, AloneAside DEF DivideStoredPrices, Procs, Running, history
  <1>17. CASE RecomputeRescaled
    <2>1. Seed \in Procs /\ Running(Seed) /\ alone' = alone /\ bar' = bar /\ rescaled' = rescaled
      BY <1>17 DEF RecomputeRescaled, Procs, Running, history, store
    <2>2. \A q \in Procs : alone'[q] => q = Seed /\ \A r \in Procs \ {q} : ~Running(r)'
      BY <1>17, <2>1, OthersAside DEF RecomputeRescaled
    <2>3. batch'[Seed] = Upserted(bar, rescaled) /\ pc'[Seed] = "publish"
      BY <1>17, <2>1 DEF RecomputeRescaled, Goes, TypeOK
    <2> QED BY <2>1, <2>2, <2>3 DEF AloneInv, AloneRecomputesAll
  <1>18. CASE CommitRescale
    <2>1. Seed \in Procs /\ Running(Seed) /\ alone' = alone /\ pc[Seed] = "publish"
      BY <1>18 DEF CommitRescale, Procs, Running
    <2>2. \A q \in Procs : alone'[q] => q = Seed /\ \A r \in Procs \ {q} : ~Running(r)'
      BY <1>18, <2>1, OthersAside DEF CommitRescale
    <2>3. pc'[Seed] = "recomputed"
      BY <1>18, <2>1 DEF CommitRescale, Goes, TypeOK
    <2>4. bar' = Upserted(bar, rescaled) /\ tech' = TechnicalsOf(batch[Seed])
      BY <1>18 DEF CommitRescale
    <2>5. ASSUME alone'[Seed], NEW d \in DOMAIN bar' PROVE d \in DOMAIN tech' /\ tech'[d] = UpTo(bar', d)
      <3>1. batch[Seed] = bar'
        BY <2>1, <2>4, <2>5 DEF AloneInv
      <3> QED BY <2>4, <2>5, <3>1, RecomputedRow
    <2> QED BY <2>2, <2>3, <2>5 DEF AloneInv, AloneRecomputesAll, UpTo
  <1>13. CASE UNCHANGED vars
    BY <1>13 DEF vars, store, memory, history, AloneInv, AloneRecomputesAll, Running
  <1> QED
    BY <1>1, <1>2, <1>3, <1>4, <1>5, <1>6, <1>7, <1>8, <1>9, <1>10, <1>11, <1>12, <1>13,
       <1>14, <1>15, <1>16, <1>17, <1>18 DEF Next

(* An update, refresh, rescale or cleanup that recomputes while nobody     *)
(* else runs leaves the technicals of exactly the stored bars, whatever    *)
(* earlier processes left behind.                                          *)
THEOREM AloneCorrect == Spec => []AloneRecomputesAll
  <1>1. AloneInv => AloneRecomputesAll
    BY DEF AloneInv
  <1> QED BY <1>1, TypeInit, TypeNext, AloneInit, AloneNext, PTL DEF Spec

------------------------------------------------------------------------------
(* The stamp. A process whose transaction began after the last change of   *)
(* the bars has selected the bars that are stored. A seeding that selects  *)
(* no bar leaves the stamp alone, and then none is stored.                 *)

NothingRescaled ==
  \A p \in Procs : pc[p] = "publish" =>
    /\ p = Seed
    /\ DOMAIN rescaled \subseteq DOMAIN batch[p]
    /\ fresh /\ DOMAIN batch[p] = {} => DOMAIN bar = {}

StampInv ==
  /\ \A p \in Procs : begun[p] /\ pc[p] = "write" => batch[p] = bar
  /\ NothingRescaled
  /\ TechnicalsStampNotAhead

LEMMA StampInit == Init => StampInv
  BY RecomputedRow DEF Init, StampInv, NothingRescaled, TechnicalsStampNotAhead

(* A step that selects nothing and leaves the technicals alone, whatever   *)
(* it does to the bars.                                                    *)
LEMMA StampAside ==
  ASSUME TypeOK, StampInv, NEW p \in Procs, NEW to, NEW rows, Goes(p, to, rows),
         to \notin {"write", "publish"}, tech' = tech,
         rescaled' = rescaled \/ p = Seed,
         fresh' => fresh /\ bar' = bar,
         \A q \in Procs : begun'[q] => (begun[q] \/ q = p) /\ (q # p => bar' = bar)
  PROVE  StampInv'
  <1>1. pc'[p] = to /\ \A q \in Procs \ {p} : pc'[q] = pc[q] /\ batch'[q] = batch[q]
    BY DEF Goes, TypeOK
  <1>2. ASSUME NEW q \in Procs, begun'[q], pc'[q] = "write" PROVE batch'[q] = bar'
    BY <1>1, <1>2 DEF StampInv
  <1>3. TechnicalsStampNotAhead'
    BY DEF StampInv, TechnicalsStampNotAhead, UpTo
  <1>4. NothingRescaled'
    BY <1>1 DEF StampInv, NothingRescaled
  <1> QED BY <1>2, <1>3, <1>4 DEF StampInv

(* What a change of the bars does to the stamps.                           *)
LEMMA StampOfBars ==
  ASSUME NEW rows, BarsBecome(rows)
  PROVE  /\ fresh' => fresh /\ bar' = bar
         /\ \A q \in Procs : begun'[q] => begun[q] /\ bar' = bar
  BY ZenonT(30) DEF BarsBecome

LEMMA StampNext == TypeOK /\ StampInv /\ [Next]_vars => StampInv'
  <1> SUFFICES ASSUME TypeOK, StampInv, [Next]_vars PROVE StampInv' OBVIOUS
  <1>1. CASE Trade
    BY <1>1 DEF Trade, StampInv, NothingRescaled, TechnicalsStampNotAhead, store, memory
  <1>2. CASE EditWatchlist
    BY <1>2 DEF EditWatchlist, StampInv, NothingRescaled, TechnicalsStampNotAhead, store, memory
  <1>3. CASE SeedAssets
    <2>1. \A q \in Procs : begun'[q] => begun[q]
      BY <1>3 DEF SeedAssets
    <2> QED BY <1>3, <2>1, StampAside DEF SeedAssets, Procs
  <1>4. CASE DeletePhantoms
    <2>1. Cleanup \in Procs /\ tech' = tech
      BY <1>4 DEF DeletePhantoms, Procs
    <2>2. /\ fresh' => fresh /\ bar' = bar
          /\ \A q \in Procs : begun'[q] => begun[q] /\ bar' = bar
      BY <1>4, StampOfBars DEF DeletePhantoms
    <2>3. PICK to \in {"idle", "begin"} : Goes(Cleanup, to, NoRows)
      BY <1>4 DEF DeletePhantoms
    <2> QED BY <1>4, <2>1, <2>2, <2>3, StampAside DEF DeletePhantoms
  <1>5. ASSUME NEW p \in Procs, Start(p) PROVE StampInv'
    <2>1. pc'[p] \notin {"write", "publish"} /\ \A q \in Procs \ {p} : pc'[q] = pc[q]
      BY <1>5 DEF Start, FirstPc, TypeOK
    <2> QED BY <1>5, <2>1 DEF Start, StampInv, NothingRescaled, TechnicalsStampNotAhead, store
  <1>6. ASSUME NEW p \in Procs, Fetch(p) PROVE StampInv'
    <2>1. PICK days \in SUBSET Window(p) : Goes(p, "load", RecordsFromHistory(p, days))
      BY <1>6 DEF Fetch
    <2> QED BY <1>6, <2>1, StampAside DEF Fetch, store
  <1>7. ASSUME NEW p \in Procs, FetchFails(p) PROVE StampInv'
    <2>1. PICK to \in {"idle", "begin"} : Goes(p, to, NoRows)
      BY <1>7 DEF FetchFails
    <2> QED BY <1>7, <2>1, StampAside DEF FetchFails, store
  <1>8. ASSUME NEW p \in Procs, UpsertDailyPrices(p) PROVE StampInv'
    BY <1>8, StampAside DEF UpsertDailyPrices, store
  <1>9. ASSUME NEW p \in Procs, BeginRecompute(p) PROVE StampInv'
    <2>1. \A q \in Procs : begun'[q] => begun[q] \/ q = p
      BY <1>9 DEF BeginRecompute, TypeOK
    <2> QED BY <1>9, <2>1, StampAside DEF BeginRecompute, store
  <1>10. ASSUME NEW p \in Procs, SelectBars(p) PROVE StampInv'
    <2>1. batch'[p] = bar /\ \A q \in Procs \ {p} : pc'[q] = pc[q] /\ batch'[q] = batch[q]
      BY <1>10 DEF SelectBars, Goes, TypeOK
    <2> QED BY <1>10, <2>1 DEF SelectBars, Goes, TypeOK, StampInv, NothingRescaled, TechnicalsStampNotAhead, store
  <1>11. ASSUME NEW p \in Procs, UpsertTechnicals(p) PROVE StampInv'
    <2>1. pc'[p] = "recomputed" /\ \A q \in Procs \ {p} : pc'[q] = pc[q] /\ batch'[q] = batch[q]
      BY <1>11 DEF UpsertTechnicals, Goes, TypeOK
    <2>2. bar' = bar /\ begun' = begun /\ tech' = Upserted(tech, TechnicalsOf(batch[p]))
      BY <1>11 DEF UpsertTechnicals
    <2>3. ASSUME fresh', NEW d \in DOMAIN bar' PROVE d \in DOMAIN tech' /\ tech'[d] = UpTo(bar, d)
      <3>1. batch[p] = bar
        BY <1>11, <2>3 DEF UpsertTechnicals, Stamps, StampInv
      <3> QED BY <2>2, <2>3, <3>1, RecomputedRow
    <2>4. NothingRescaled'
      <3>1. pc[Seed] # "publish"
        BY <1>11 DEF UpsertTechnicals
      <3> QED BY <2>1, <3>1 DEF StampInv, NothingRescaled
    <2> QED BY <2>1, <2>2, <2>3, <2>4 DEF StampInv, TechnicalsStampNotAhead, UpTo
  <1>12. ASSUME NEW p \in Procs, Killed(p) PROVE StampInv'
    BY <1>12, StampAside DEF Killed, store
  <1>14. ASSUME NEW p \in Procs, CommitLoad(p) PROVE StampInv'
    <2>1. /\ fresh' => fresh /\ bar' = bar
          /\ \A q \in Procs : begun'[q] => begun[q] /\ bar' = bar
      BY <1>14, StampOfBars DEF CommitLoad
    <2>2. PICK to \in {"idle", "begin"} : Goes(p, to, NoRows)
      BY <1>14 DEF CommitLoad
    <2> QED BY <1>14, <2>1, <2>2, StampAside DEF CommitLoad
  <1>15. CASE RescaleStoredPrices
    BY <1>15, StampAside DEF RescaleStoredPrices, Procs, store
  <1>16. CASE DivideStoredPrices
    BY <1>16, StampAside DEF DivideStoredPrices, Procs, store
  <1>17. CASE RecomputeRescaled
    <2>1. /\ pc'[Seed] = "publish" /\ batch'[Seed] = Upserted(bar, rescaled)
          /\ \A q \in Procs \ {Seed} : pc'[q] = pc[q] /\ batch'[q] = batch[q]
          /\ UNCHANGED <<bar, tech, fresh, rescaled, begun>>
      BY <1>17 DEF RecomputeRescaled, Goes, TypeOK, store, Procs
    <2>2. DOMAIN Upserted(bar, rescaled) = DOMAIN bar \union DOMAIN rescaled
      BY DEF Upserted
    <2> QED BY <2>1, <2>2 DEF StampInv, NothingRescaled, TechnicalsStampNotAhead
  <1>18. CASE CommitRescale
    <2>1. /\ pc[Seed] = "publish" /\ pc'[Seed] = "recomputed"
          /\ \A q \in Procs \ {Seed} : pc'[q] = pc[q] /\ batch'[q] = batch[q]
      BY <1>18 DEF CommitRescale, Goes, TypeOK, Procs
    <2>2. fresh' => DOMAIN bar' = {}
      <3>1. /\ DOMAIN rescaled \subseteq DOMAIN batch[Seed]
            /\ fresh /\ DOMAIN batch[Seed] = {} => DOMAIN bar = {}
        BY <2>1 DEF StampInv, NothingRescaled, Procs
      <3>2. (fresh' => fresh /\ DOMAIN batch[Seed] = {}) /\ bar' = Upserted(bar, rescaled)
        BY <1>18 DEF CommitRescale
      <3> QED BY <3>1, <3>2 DEF Upserted
    <2>3. ASSUME NEW q \in Procs, begun'[q], pc'[q] = "write" PROVE batch'[q] = bar'
      <3>1. begun[q] /\ bar' = bar
        BY <1>18, <2>3, Zenon DEF CommitRescale
      <3> QED BY <2>1, <2>3, <3>1 DEF StampInv
    <2>4. NothingRescaled'
      BY <2>1 DEF StampInv, NothingRescaled
    <2> QED BY <2>2, <2>3, <2>4 DEF StampInv, TechnicalsStampNotAhead
  <1>13. CASE UNCHANGED vars
    BY <1>13 DEF vars, store, memory, StampInv, NothingRescaled, TechnicalsStampNotAhead
  <1> QED
    BY <1>1, <1>2, <1>3, <1>4, <1>5, <1>6, <1>7, <1>8, <1>9, <1>10, <1>11, <1>12, <1>13,
       <1>14, <1>15, <1>16, <1>17, <1>18 DEF Next

(* A technicals stamp that is not before the last change of the bars means *)
(* that all technicals are of the stored bars, however many updates,       *)
(* refreshes and cleanups overlap: the stamp is the beginning of the       *)
(* transaction, so it is never ahead of what the transaction selected.     *)
THEOREM StampCorrect == Spec => []TechnicalsStampNotAhead
  <1>1. StampInv => TechnicalsStampNotAhead
    BY DEF StampInv
  <1> QED BY <1>1, TypeInit, TypeNext, StampInit, StampNext, PTL DEF Spec

------------------------------------------------------------------------------
(* Units. A fetch on its way divides by the divisor of the database, as    *)
(* long as nobody changes that under it. While a rescale is open the       *)
(* divisor is 1, and the rows its UPDATE saw include every stored row      *)
(* unless a load has committed a new one.                                  *)

RescaleCovers ==
  /\ pc[Seed] \in Rescaling /\ ~missed => DOMAIN bar \subseteq DOMAIN rescaled
  /\ pc[Seed] \in {"updated", "publish"} => \A d \in DOMAIN rescaled : rescaled[d].divided = 1

UnitInv ==
  /\ \A p \in Procs : pc[p] \in OnItsWay => p \in Fetchers
  /\ \A p \in Procs : pc[p] \in {"load", "loading"} =>
       \A d \in DOMAIN batch[p] : batch[p][d].divided = Divisions(scale[p])
  /\ pc[Seed] \in Rescaling => divisor = 1 /\ scale[Seed] = 100
  /\ ~crossed /\ ~reverted =>
       /\ \A d \in DOMAIN bar : bar[d].divided = Divisions(divisor)
       /\ \A p \in Procs : pc[p] \in OnItsWay => scale[p] = divisor
       /\ RescaleCovers

LEMMA UnitInit == Init => UnitInv
  BY DEF Init, UnitInv, RescaleCovers, OnItsWay, Rescaling, Divisions, Procs

(* A step that neither fetches nor rescales, and changes neither the bars  *)
(* nor the divisor.                                                        *)
LEMMA UnitAside ==
  ASSUME TypeOK, UnitInv, NEW p \in Procs, NEW to, NEW rows, Goes(p, to, rows),
         to \notin OnItsWay \union Rescaling, bar' = bar,
         rescaled' = rescaled \/ p = Seed,
         UNCHANGED <<divisor, missed, crossed, reverted>>
  PROVE  UnitInv'
  <1>1. /\ pc'[p] = to
        /\ \A q \in Procs \ {p} : pc'[q] = pc[q] /\ batch'[q] = batch[q] /\ scale'[q] = scale[q]
    BY DEF Goes, TypeOK
  <1>2. Seed \in Procs
    BY DEF Procs
  <1>3. RescaleCovers => RescaleCovers'
    BY <1>1, <1>2 DEF RescaleCovers, Rescaling
  <1> QED BY <1>1, <1>2, <1>3 DEF UnitInv, OnItsWay, Rescaling

LEMMA UnitNext == TypeOK /\ UnitInv /\ [Next]_vars => UnitInv'
  <1> SUFFICES ASSUME TypeOK, UnitInv, [Next]_vars PROVE UnitInv' OBVIOUS
  <1>1. CASE Trade
    BY <1>1 DEF Trade, UnitInv, RescaleCovers, store, memory, history
  <1>2. CASE EditWatchlist
    BY <1>2 DEF EditWatchlist, UnitInv, RescaleCovers, store, memory, history
  <1>3. CASE SeedAssets
    <2>1. Seed \in Procs /\ Seed \notin Fetchers
      BY StoreAssumption DEF Procs
    <2>2. /\ pc'[Seed] = "idle" /\ bar' = bar
          /\ \A q \in Procs \ {Seed} : pc'[q] = pc[q] /\ batch'[q] = batch[q] /\ scale'[q] = scale[q]
      BY <1>3, <2>1 DEF SeedAssets, Goes, TypeOK
    <2>3. ASSUME ~crossed', ~reverted'
          PROVE  /\ ~crossed /\ ~reverted
                 /\ divisor' # divisor => \A p \in Fetchers : pc[p] \notin OnItsWay
                 /\ ~(divisor = 100 /\ divisor' = 1)
      BY <1>3, <2>3, Zenon DEF SeedAssets
    <2>4. /\ divisor \in {1, 100} /\ divisor' = scale[Seed] /\ scale[Seed] \in {1, 100}
          /\ ~(scale[Seed] = 100 /\ divisor = 1)
      BY <1>3, <2>1 DEF SeedAssets, Rescales, TypeOK, Divisors
    <2>5. ASSUME ~crossed', ~reverted' PROVE divisor' = divisor
      BY <2>3, <2>4, <2>5
    <2>6. ASSUME ~crossed', ~reverted' PROVE RescaleCovers'
      BY <2>2 DEF RescaleCovers, Rescaling
    <2>7. ASSUME ~crossed', ~reverted', NEW p \in Procs, pc'[p] \in OnItsWay
          PROVE  scale'[p] = divisor'
      <3>1. p # Seed
        BY <2>2, <2>7 DEF OnItsWay
      <3> QED BY <2>2, <2>3, <2>5, <2>7, <3>1 DEF UnitInv
    <2>8. ASSUME ~crossed', ~reverted', NEW d \in DOMAIN bar'
          PROVE  bar'[d].divided = Divisions(divisor')
      BY <2>2, <2>3, <2>5, <2>8 DEF UnitInv
    <2>9. \A p \in Procs : pc'[p] \in OnItsWay \union {"load", "loading"} =>
            /\ p # Seed /\ pc'[p] = pc[p] /\ batch'[p] = batch[p] /\ scale'[p] = scale[p]
      BY <2>1, <2>2 DEF OnItsWay
    <2> QED BY <2>2, <2>6, <2>7, <2>8, <2>9 DEF UnitInv, Rescaling
  <1>4. CASE DeletePhantoms
    <2>1. PICK to \in {"idle", "begin"} : Goes(Cleanup, to, NoRows)
      BY <1>4 DEF DeletePhantoms
    <2>2. Cleanup \in Procs
      BY DEF Procs
    <2>3. /\ pc'[Cleanup] \in {"idle", "begin"}
          /\ \A q \in Procs \ {Cleanup} : pc'[q] = pc[q] /\ batch'[q] = batch[q] /\ scale'[q] = scale[q]
      BY <2>1, <2>2 DEF Goes, TypeOK
    <2>4. bar' = [d \in DOMAIN bar \ ZeroVolume |-> bar[d]]
      BY <1>4 DEF DeletePhantoms, BarsBecome
    <2>5. Seed # Cleanup /\ Seed \in Procs
      BY StoreAssumption DEF Procs
    <2>6. RescaleCovers => RescaleCovers'
      BY <1>4, <2>3, <2>4, <2>5 DEF DeletePhantoms, RescaleCovers, history
    <2> QED BY <1>4, <2>3, <2>4, <2>5, <2>6 DEF DeletePhantoms, UnitInv, OnItsWay, history
  <1>5. ASSUME NEW p \in Procs, Start(p) PROVE UnitInv'
    <2>1. /\ pc'[p] = FirstPc(p)
          /\ p # Seed => scale'[p] = divisor
          /\ \A q \in Procs \ {p} : pc'[q] = pc[q] /\ scale'[q] = scale[q]
          /\ batch' = batch
      BY <1>5 DEF Start, TypeOK
    <2>2. /\ pc'[p] \notin Rescaling \union {"load", "loading"}
          /\ pc'[p] \in OnItsWay => p \in Fetchers /\ p # Seed
      BY <2>1, StoreAssumption DEF FirstPc, Procs, OnItsWay, Rescaling
    <2>3. Seed \in Procs
      BY DEF Procs
    <2>4. RescaleCovers => RescaleCovers'
      BY <1>5, <2>1, <2>2, <2>3 DEF Start, RescaleCovers, Rescaling, store
    <2> QED BY <1>5, <2>1, <2>2, <2>3, <2>4 DEF Start, UnitInv, store
  <1>6. ASSUME NEW p \in Procs, Fetch(p) PROVE UnitInv'
    <2>1. PICK days \in SUBSET Window(p) : Goes(p, "load", RecordsFromHistory(p, days))
      BY <1>6 DEF Fetch
    <2>2. /\ pc'[p] = "load" /\ scale' = scale /\ batch'[p] = RecordsFromHistory(p, days)
          /\ \A q \in Procs \ {p} : pc'[q] = pc[q] /\ batch'[q] = batch[q]
      BY <2>1 DEF Goes, TypeOK, OnItsWay
    <2>3. \A d \in DOMAIN batch'[p] : batch'[p][d].divided = Divisions(scale'[p])
      BY <2>2 DEF RecordsFromHistory
    <2>4. p # Seed /\ Seed \in Procs /\ p \in Fetchers
      BY <1>6, StoreAssumption DEF Fetch, Procs
    <2>5. UNCHANGED <<bar, divisor, rescaled, missed, crossed, reverted>> /\ pc[p] = "fetch"
      BY <1>6 DEF Fetch, store, history
    <2>6. RescaleCovers => RescaleCovers'
      BY <2>2, <2>4, <2>5 DEF RescaleCovers
    <2> QED BY <2>2, <2>3, <2>4, <2>5, <2>6 DEF UnitInv, OnItsWay
  <1>7. ASSUME NEW p \in Procs, FetchFails(p) PROVE UnitInv'
    <2>1. PICK to \in {"idle", "begin"} : Goes(p, to, NoRows)
      BY <1>7 DEF FetchFails
    <2> QED BY <1>7, <2>1, UnitAside DEF FetchFails, OnItsWay, Rescaling, store, history
  <1>8. ASSUME NEW p \in Procs, UpsertDailyPrices(p) PROVE UnitInv'
    <2>1. /\ pc'[p] = "loading" /\ scale' = scale /\ batch'[p] = batch[p] /\ pc[p] = "load"
          /\ \A q \in Procs \ {p} : pc'[q] = pc[q] /\ batch'[q] = batch[q]
      BY <1>8 DEF UpsertDailyPrices, Goes, TypeOK, OnItsWay
    <2>2. UNCHANGED <<bar, divisor, rescaled, missed, crossed, reverted>>
      BY <1>8 DEF UpsertDailyPrices, store, history
    <2>3. p # Seed /\ Seed \in Procs /\ p \in Fetchers
      BY <2>1, StoreAssumption DEF UnitInv, OnItsWay, Procs
    <2>4. RescaleCovers => RescaleCovers'
      BY <2>1, <2>2, <2>3 DEF RescaleCovers
    <2> QED BY <2>1, <2>2, <2>3, <2>4 DEF UnitInv, OnItsWay
  <1>9. ASSUME NEW p \in Procs, BeginRecompute(p) PROVE UnitInv'
    BY <1>9, UnitAside DEF BeginRecompute, store, OnItsWay, Rescaling, history
  <1>10. ASSUME NEW p \in Procs, SelectBars(p) PROVE UnitInv'
    <2>1. PICK to \in {"recomputed", "write"} : Goes(p, to, bar)
      BY <1>10 DEF SelectBars
    <2> QED BY <1>10, <2>1, UnitAside DEF SelectBars, OnItsWay, Rescaling, store, history
  <1>11. ASSUME NEW p \in Procs, UpsertTechnicals(p) PROVE UnitInv'
    BY <1>11, UnitAside DEF UpsertTechnicals, OnItsWay, Rescaling, history
  <1>12. ASSUME NEW p \in Procs, Killed(p) PROVE UnitInv'
    BY <1>12, UnitAside DEF Killed, store, OnItsWay, Rescaling, history
  <1>13. CASE UNCHANGED vars
    BY <1>13 DEF vars, store, memory, history, UnitInv, RescaleCovers
  <1>14. ASSUME NEW p \in Procs, CommitLoad(p) PROVE UnitInv'
    <2>1. /\ pc'[p] \in {"idle", "begin"} /\ pc[p] = "loading"
          /\ \A q \in Procs \ {p} : pc'[q] = pc[q] /\ batch'[q] = batch[q] /\ scale'[q] = scale[q]
      BY <1>14 DEF CommitLoad, Goes, TypeOK
    <2>2. /\ bar' = Upserted(bar, batch[p])
          /\ UNCHANGED <<divisor, rescaled, crossed, reverted>>
      BY <1>14 DEF CommitLoad, BarsBecome
    <2>3. ASSUME ~missed' PROVE ~missed /\ (pc[Seed] \in Rescaling => DOMAIN batch[p] \subseteq DOMAIN rescaled)
      BY <1>14, <2>3, Zenon DEF CommitLoad
    <2>4. p # Seed /\ Seed \in Procs
      BY <2>1, StoreAssumption DEF UnitInv, OnItsWay, Procs
    <2>5. ASSUME ~crossed, ~reverted, NEW d \in DOMAIN bar'
          PROVE  bar'[d].divided = Divisions(divisor)
      BY <2>1, <2>2, <2>5 DEF Upserted, UnitInv, OnItsWay
    <2>6. RescaleCovers => RescaleCovers'
      BY <2>1, <2>2, <2>3, <2>4 DEF RescaleCovers, Upserted
    <2> QED BY <2>1, <2>2, <2>4, <2>5, <2>6 DEF UnitInv, OnItsWay
  <1>15. CASE RescaleStoredPrices
    <2>1. Seed \in Procs
      BY DEF Procs
    <2>2. /\ pc'[Seed] = "update" /\ scale' = scale
          /\ \A q \in Procs \ {Seed} : pc'[q] = pc[q] /\ batch'[q] = batch[q]
      BY <1>15, <2>1 DEF RescaleStoredPrices, Goes, TypeOK, OnItsWay, Rescaling
    <2>3. /\ rescaled' = bar /\ scale[Seed] = 100 /\ divisor = 1
          /\ UNCHANGED <<bar, divisor, crossed, reverted>>
      BY <1>15 DEF RescaleStoredPrices, Rescales, store
    <2>4. RescaleCovers'
      BY <2>2, <2>3 DEF RescaleCovers
    <2> QED BY <2>1, <2>2, <2>3, <2>4 DEF UnitInv, OnItsWay, Rescaling
  <1>16. CASE DivideStoredPrices
    <2>1. Seed \in Procs
      BY DEF Procs
    <2>2. /\ pc'[Seed] = "updated" /\ scale' = scale /\ pc[Seed] = "update"
          /\ \A q \in Procs \ {Seed} : pc'[q] = pc[q] /\ batch'[q] = batch[q]
      BY <1>16, <2>1 DEF DivideStoredPrices, Goes, TypeOK, OnItsWay, Rescaling
    <2>3. /\ rescaled' = Divided([d \in DOMAIN rescaled \intersect DOMAIN bar |-> bar[d]])
          /\ UNCHANGED <<bar, divisor, missed, crossed, reverted>>
      BY <1>16 DEF DivideStoredPrices, store, history
    <2>4. divisor = 1 /\ scale[Seed] = 100
      BY <2>2 DEF UnitInv, Rescaling
    <2>5. ASSUME ~crossed, ~reverted PROVE RescaleCovers'
      <3>1. /\ ~missed => DOMAIN bar \subseteq DOMAIN rescaled
            /\ \A d \in DOMAIN bar : bar[d].divided = 0
        BY <2>2, <2>4, <2>5 DEF UnitInv, RescaleCovers, Rescaling, Divisions
      <3>2. DOMAIN rescaled' = DOMAIN rescaled \intersect DOMAIN bar
        BY <2>3 DEF Divided
      <3>3. ASSUME NEW d \in DOMAIN rescaled' PROVE rescaled'[d].divided = 1
        <4>1. d \in DOMAIN bar /\ bar[d] \in Bar /\ rescaled'[d] = [bar[d] EXCEPT !.divided = @ + 1]
          BY <2>3, <3>2, <3>3 DEF Divided, TypeOK, IsTable
        <4>2. rescaled'[d].divided = bar[d].divided + 1
          BY <4>1 DEF Bar
        <4> QED BY <3>1, <4>1, <4>2
      <3> QED BY <2>2, <2>3, <3>1, <3>2, <3>3 DEF RescaleCovers
    <2> QED BY <2>1, <2>2, <2>3, <2>4, <2>5 DEF UnitInv, OnItsWay, Rescaling
  <1>17. CASE RecomputeRescaled
    <2>1. Seed \in Procs
      BY DEF Procs
    <2>2. /\ pc'[Seed] = "publish" /\ scale' = scale /\ pc[Seed] = "updated"
          /\ \A q \in Procs \ {Seed} : pc'[q] = pc[q] /\ batch'[q] = batch[q]
      BY <1>17, <2>1 DEF RecomputeRescaled, Goes, TypeOK, OnItsWay, Rescaling
    <2>3. UNCHANGED <<bar, divisor, rescaled, missed, crossed, reverted>>
      BY <1>17 DEF RecomputeRescaled, store, history
    <2>4. RescaleCovers => RescaleCovers'
      BY <2>2, <2>3 DEF RescaleCovers, Rescaling
    <2> QED BY <2>1, <2>2, <2>3, <2>4 DEF UnitInv, OnItsWay, Rescaling
  <1>18. CASE CommitRescale
    <2>1. Seed \in Procs /\ Procs = Fetchers \union {Seed, Cleanup}
      BY DEF Procs
    <2>2. /\ pc'[Seed] = "recomputed" /\ pc[Seed] = "publish"
          /\ \A q \in Procs \ {Seed} : pc'[q] = pc[q] /\ batch'[q] = batch[q] /\ scale'[q] = scale[q]
      BY <1>18, <2>1 DEF CommitRescale, Goes, TypeOK
    <2>3. /\ bar' = Upserted(bar, rescaled) /\ divisor' = scale[Seed]
          /\ UNCHANGED <<missed, reverted>>
      BY <1>18 DEF CommitRescale
    <2>4. ASSUME ~crossed' PROVE ~crossed /\ ~missed /\ \A p \in Fetchers : pc[p] \notin OnItsWay
      BY <1>18, <2>4, Zenon DEF CommitRescale
    <2>5. divisor' = 100
      BY <2>2, <2>3 DEF UnitInv, Rescaling
    <2>6. ASSUME ~crossed', ~reverted', NEW d \in DOMAIN bar' PROVE bar'[d].divided = Divisions(divisor')
      <3>1. RescaleCovers /\ ~missed
        BY <2>3, <2>4, <2>6 DEF UnitInv
      <3>2. d \in DOMAIN rescaled /\ rescaled[d].divided = 1
        BY <2>2, <2>3, <2>6, <3>1 DEF RescaleCovers, Rescaling, Upserted
      <3>3. bar'[d] = rescaled[d]
        BY <2>3, <3>2 DEF Upserted
      <3> QED BY <2>5, <3>2, <3>3 DEF Divisions
    <2>7. ASSUME ~crossed', NEW p \in Procs PROVE pc'[p] \notin OnItsWay
      <3>1. pc[p] \in OnItsWay => p \in Fetchers
        BY DEF UnitInv
      <3> QED BY <2>2, <2>4, <2>7, <3>1 DEF OnItsWay
    <2>8. RescaleCovers'
      BY <2>2 DEF RescaleCovers, Rescaling
    <2> QED BY <2>1, <2>2, <2>6, <2>7, <2>8 DEF UnitInv, OnItsWay, Rescaling
  <1> QED
    BY <1>1, <1>2, <1>3, <1>4, <1>5, <1>6, <1>7, <1>8, <1>9, <1>10, <1>11, <1>12, <1>13,
       <1>14, <1>15, <1>16, <1>17, <1>18 DEF Next

(* Stored prices are in the unit PriceDivisor says, for any number of      *)
(* seedings, fetches and kills, unless a divisor is taken back, changes    *)
(* under a fetch, or a load of a new day commits amid the rescale.         *)
THEOREM UnitsCorrect == Spec => []UnitsAgree
  <1>1. UnitInv => UnitsAgree
    BY DEF UnitInv, UnitsAgree
  <1> QED BY <1>1, TypeInit, TypeNext, UnitInit, UnitNext, PTL DEF Spec

==============================================================================
