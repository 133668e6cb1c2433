-------------------------- MODULE RecentNewsProofs ---------------------------
(***************************************************************************)
(* Proofs about RecentNews, for any number of pipelines, live refreshes,   *)
(* tickers and headlines.                                                  *)
(***************************************************************************)
EXTENDS RecentNews, FiniteSetTheorems, WellFoundedInduction, TLAPS

(* The rows of one ticker are a panel: numbered 1, 2, ... without a gap,   *)
(* getting older, all written by one refresh.                              *)
Listing(S) ==
  /\ \A r, s \in S : /\ r.by = s.by
                     /\ r.rank < s.rank => r.article > s.article
                     /\ r.rank = s.rank => r = s
  /\ \A r \in S : \A k \in 1..r.rank : \E s \in S : s.rank = k

Own(w, t) == {r \in inserted[w] : r.ticker = t}
Planned(w, t) == {r \in inserted[w] \cup picked[w] : r.ticker = t}

(* Only a transaction in progress has anything uncommitted.                *)
IdleEmpty ==
  \A w \in Writers \ InFlight :
    /\ todo[w] = {} /\ queue[w] = {} /\ picked[w] = {} /\ victims[w] = {}
    /\ locked[w] = {} /\ added[w] = {} /\ deleted[w] = {} /\ inserted[w] = {}

(* What a transaction is about to insert, and when.                        *)
PlanOf(w) ==
  /\ pc[w] \notin {"delete", "wait", "insert"} => picked[w] = {}
  /\ pc[w] # "wait" => victims[w] = {}
  /\ pc[w] \in {"delete", "wait", "insert"} => current[w] \in Tickers /\ current[w] \notin queue[w]
  /\ \A r \in picked[w] : r.ticker = current[w]
  /\ \A r \in inserted[w] \cup picked[w] : r.ticker \notin queue[w] /\ r.by = w
  /\ pc[w] \in {"delete", "wait"} => \A r \in inserted[w] : r.ticker # current[w]
  /\ \A r \in inserted[w], s \in picked[w] : r.ticker = s.ticker => r.rank < s.rank
  /\ \A t \in Tickers : Listing(Planned(w, t))

Plans == \A w \in Writers : PlanOf(w)

(* A row names the transaction that committed it.                          *)
Signed ==
  /\ \A r \in panel : r.by \in Writers => pc[r.by] \in {"done", "failed"}
  /\ \A w \in Writers : \A r \in victims[w] : r.by \in Writers => pc[r.by] \in {"done", "failed"}

(* A panel is deleted as a whole, by one transaction.                      *)
DeletedWhole ==
  /\ \A w \in Writers, t \in Tickers :
       PanelOf(t) \subseteq deleted[w] \/ PanelOf(t) \cap deleted[w] = {}
  /\ \A w \in Writers : pc[w] = "wait" =>
       /\ \A r \in victims[w] : r.ticker = current[w]
       /\ PanelOf(current[w]) \subseteq victims[w] \/ PanelOf(current[w]) \cap victims[w] = {}
  /\ \A w, u \in Writers : w # u => deleted[w] \cap deleted[u] = {}

(* Who inserted a row of a ticker has the ticker to itself: what is        *)
(* committed for it goes with this transaction, and nobody else inserts.   *)
InsertedAlone ==
  \A w \in Writers, t \in Tickers :
    Own(w, t) # {} =>
      /\ PanelOf(t) \subseteq deleted[w]
      /\ \A u \in Writers \ {w} : Own(u, t) = {}

PanelsListed == \A t \in Tickers : Listing(PanelOf(t))

(* An article is locked by one transaction, which inserts it only when     *)
(* nobody stored it before.                                                *)
ArticlesLocked ==
  /\ \A w, u \in Writers : w # u => locked[w] \cap locked[u] = {}
  /\ \A w \in Writers :
       /\ \A f, g \in todo[w] : f.article = g.article => f = g
       /\ \A f \in todo[w] : f.article \notin locked[w]
       /\ \A f, g \in added[w] : f.article = g.article => f = g
       /\ \A f \in added[w] : /\ stored[f.article] = Nobody /\ f.article \in locked[w]
                              /\ f.ticker \in Tickers

(* What is going to be shown is stored, or is going to be with it.         *)
PlannedStored ==
  \A w \in Writers : \A r \in inserted[w] \cup picked[w] :
    \/ stored[r.article] = r.ticker
    \/ \E f \in added[w] : f.ticker = r.ticker /\ f.article = r.article

(* The variables are functions of the transactions.                        *)
Tables ==
  /\ stored \in [Articles -> Tickers \cup {Nobody}] /\ panel \subseteq Row
  /\ pc \in [Writers -> PC] /\ current \in [Writers -> Tickers \cup {Nobody}]
  /\ todo \in [Writers -> SUBSET [ticker : Tickers, article : Articles]]
  /\ added \in [Writers -> SUBSET [ticker : Tickers, article : Articles]]
  /\ queue \in [Writers -> SUBSET Tickers] /\ locked \in [Writers -> SUBSET Articles]
  /\ picked \in [Writers -> SUBSET Row] /\ victims \in [Writers -> SUBSET Row]
  /\ deleted \in [Writers -> SUBSET Row] /\ inserted \in [Writers -> SUBSET Row]
  /\ \A w \in Writers : deleted[w] \subseteq panel

NInv ==
  /\ Tables /\ IdleEmpty /\ Plans /\ Signed /\ DeletedWhole /\ InsertedAlone /\ PanelsListed
  /\ ArticlesLocked /\ PlannedStored /\ PanelRowsStored
------------------------------------------------------------------------------
(* Least and greatest elements.                                            *)

LEMMA LeastNat ==
  ASSUME NEW S \in SUBSET Nat, S # {}
  PROVE  \E m \in S : \A k \in S : m <= k
  <1> DEFINE T == {0..k : k \in S}
  <1>1. T \subseteq FiniteSubsetsOf(Nat) /\ T # {}
    <2>1. ASSUME NEW k \in S PROVE 0..k \in SUBSET Nat /\ IsFiniteSet(0..k)
      BY FS_Interval
    <2> QED
      BY <2>1 DEF FiniteSubsetsOf
  <1> HIDE DEF T
  <1>2. PICK x \in T : \A y \in T : ~(<<y, x>> \in StrictSubsetOrdering(Nat))
    BY <1>1, FS_StrictSubsetOrderingWellFounded, WFMin
  <1>3. PICK m \in S : x = 0..m
    BY <1>2 DEF T
  <1>4. ASSUME NEW k \in S, k < m PROVE FALSE
    <2>1. 0..k \in T
      BY DEF T
    <2>2. 0..k \subseteq 0..m /\ m \in 0..m /\ m \notin 0..k
      BY <1>4
    <2>3. <<0..k, 0..m>> \in StrictSubsetOrdering(Nat)
      <3>1. 0..k \in SUBSET Nat /\ 0..m \in SUBSET Nat
        OBVIOUS
      <3> QED
        BY <2>2, <3>1, Zenon DEF StrictSubsetOrdering
    <2> QED
      BY <1>2, <1>3, <2>1, <2>3
  <1> QED
    BY <1>4

LEMMA GreatestNat ==
  ASSUME NEW S \in SUBSET Nat, S # {}, NEW n \in Nat, \A k \in S : k <= n
  PROVE  \E m \in S : \A k \in S : k <= m
  <1> DEFINE T == {n - k : k \in S}
  <1>1. T \in SUBSET Nat /\ T # {}
    <2>1. ASSUME NEW k \in S PROVE n - k \in Nat
      OBVIOUS
    <2>2. PICK k \in S : TRUE
      OBVIOUS
    <2> QED
      BY <2>1, <2>2
  <1> HIDE DEF T
  <1>2. PICK x \in T : \A y \in T : x <= y
    BY <1>1, LeastNat
  <1>3. PICK m \in S : x = n - m
    BY <1>2 DEF T
  <1>4. ASSUME NEW k \in S PROVE k <= m
    <2>1. n - k \in T
      BY DEF T
    <2> QED
      BY <1>2, <1>3, <2>1
  <1> QED
    BY <1>4

(* The newer headlines of a newer one are fewer.                           *)
LEMMA FewerNewer ==
  ASSUME NEW S \in SUBSET Nat, IsFiniteSet(S), NEW a \in S, NEW b \in S, a < b
  PROVE  /\ Cardinality({c \in S : c > b}) \in Nat /\ Cardinality({c \in S : c > a}) \in Nat
         /\ Cardinality({c \in S : c > b}) < Cardinality({c \in S : c > a})
  <1> DEFINE T == {c \in S : c > b}
             U == {c \in S : c > a}
  <1>1. T \in SUBSET U /\ U \in SUBSET S /\ T # U
    <2>1. b \in U /\ b \notin T /\ U \in SUBSET S
      OBVIOUS
    <2>2. ASSUME NEW c \in S, c > b PROVE c > a
      BY <2>2
    <2>3. T \in SUBSET U
      BY <2>2
    <2> QED
      BY <2>1, <2>3, Zenon
  <1> HIDE DEF T, U
  <1>2. IsFiniteSet(U) /\ IsFiniteSet(T)
    BY <1>1, FS_Subset
  <1>3. Cardinality(T) \in Nat /\ Cardinality(U) \in Nat /\ Cardinality(T) <= Cardinality(U)
        /\ Cardinality(T) # Cardinality(U)
    BY <1>1, <1>2, FS_Subset, FS_CardinalityType
  <1>4. Cardinality(T) < Cardinality(U)
    BY <1>3
  <1> QED
    BY <1>3, <1>4 DEF T, U

LEMMA NewestOne ==
  ASSUME NEW S \in SUBSET Nat, IsFiniteSet(S), S # {}
  PROVE  \E m \in S : \A k \in S : k <= m
  <1> DEFINE Newer(a) == Cardinality({c \in S : c > a})
             C == {Newer(a) : a \in S}
  <1>1. C \in SUBSET Nat /\ C # {}
    <2>1. ASSUME NEW a \in S PROVE Newer(a) \in Nat
      <3>1. {c \in S : c > a} \in SUBSET S
        OBVIOUS
      <3> QED
        BY <3>1, FS_Subset, FS_CardinalityType
    <2> QED
      BY <2>1
  <1>2. PICK x \in C : \A y \in C : x <= y
    BY <1>1, LeastNat
  <1>3. PICK m \in S : x = Newer(m)
    BY <1>2
  <1>4. ASSUME NEW k \in S, k > m PROVE FALSE
    <2>1. Newer(k) \in Nat /\ Newer(m) \in Nat /\ Newer(k) < Newer(m)
      BY <1>4, FewerNewer
    <2>2. Newer(m) <= Newer(k)
      BY <1>2, <1>3
    <2> HIDE DEF Newer
    <2> QED
      BY <2>1, <2>2
  <1> QED
    BY <1>3, <1>4

------------------------------------------------------------------------------
(* Ranks and panels.                                                       *)

LEMMA RankType ==
  ASSUME NEW S \in SUBSET Nat, IsFiniteSet(S), NEW a \in S
  PROVE  /\ RankIn(a, S) \in Nat /\ RankIn(a, S) >= 1
         /\ Cardinality({c \in S : c > a}) = RankIn(a, S) - 1
         /\ Cardinality({c \in S : c > a}) \in Nat
  <1>1. {c \in S : c > a} \in SUBSET S
    OBVIOUS
  <1>2. Cardinality({c \in S : c > a}) \in Nat
    BY <1>1, FS_Subset, FS_CardinalityType
  <1> QED
    BY <1>2 DEF RankIn

(* The ranks are numbered without a gap.                                   *)
LEMMA RanksNoGap ==
  ASSUME NEW S \in SUBSET Nat, IsFiniteSet(S), NEW a \in S, NEW k \in 1..RankIn(a, S)
  PROVE  \E b \in S : RankIn(b, S) = k
  <1>1. SUFFICES ASSUME ~\E b \in S : RankIn(b, S) = k PROVE FALSE
    OBVIOUS
  <1>2. RankIn(a, S) \in Nat
    BY RankType
  <1> DEFINE Missing == {j \in 1..RankIn(a, S) : ~\E b \in S : RankIn(b, S) = j}
  <1>3. Missing \in SUBSET Nat /\ Missing # {} /\ \A j \in Missing : j <= RankIn(a, S)
    BY <1>1, <1>2
  <1>4. PICK m \in Missing : \A j \in Missing : j <= m
    BY <1>2, <1>3, GreatestNat
  <1>5. m \in Nat /\ m >= 1 /\ m + 1 \in 1..RankIn(a, S) /\ m + 1 \notin Missing
    BY <1>2, <1>4
  <1>6. PICK s \in S : RankIn(s, S) = m + 1
    BY <1>5
  <1> DEFINE U == {c \in S : c > s}
  <1>7. U \in SUBSET S /\ U \in SUBSET Nat /\ IsFiniteSet(U) /\ Cardinality(U) = m
    <2>1. U \in SUBSET S /\ U \in SUBSET Nat
      OBVIOUS
    <2>2. Cardinality(U) = RankIn(s, S) - 1
      BY RankType
    <2> QED
      BY <1>5, <1>6, <2>1, <2>2, FS_Subset
  <1>8. U # {}
    BY <1>5, <1>7, FS_EmptySet
  <1>9. PICK b \in U : \A c \in U : b <= c
    BY <1>7, <1>8, LeastNat
  <1>10. {c \in S : c > b} = U \ {b}
    <2>1. ASSUME NEW c \in S PROVE c > b <=> c > s /\ c # b
      <3>1. b \in Nat /\ b > s /\ s \in Nat /\ c \in Nat
        BY <1>9
      <3>2. c > s => b <= c
        BY <1>9
      <3> QED
        BY <3>1, <3>2
    <2> QED
      BY <2>1
  <1>11. Cardinality({c \in S : c > b}) = m - 1
    <2>1. Cardinality(U \ {b}) = Cardinality(U) - 1
      BY <1>7, <1>9, FS_RemoveElement
    <2> QED
      BY <1>7, <1>10, <2>1
  <1>12. RankIn(b, S) = m /\ b \in S
    BY <1>5, <1>9, <1>11 DEF RankIn
  <1> QED
    BY <1>4, <1>12

LEMMA HeadlinesFinite ==
  ASSUME NewsAssumption, NEW S \in SUBSET Articles
  PROVE  S \in SUBSET Nat /\ IsFiniteSet(S)
  BY FS_Subset DEF NewsAssumption

(* What select_recent returns for the stored headlines S.                  *)
LEMMA NewestRows ==
  ASSUME NewsAssumption, NEW S \in SUBSET Articles, NEW t \in Tickers,
         NEW w \in Writers \cup {"before"}
  PROVE  /\ Newest(S, t, w) \subseteq Row
         /\ \A r \in Newest(S, t, w) :
              /\ r.ticker = t /\ r.by = w /\ r.article \in S
              /\ r.rank = RankIn(r.article, S)
         /\ \A r, s \in Newest(S, t, w) : r.article = s.article => r = s
         /\ \A a \in S : RankIn(a, S) <= PanelSize =>
              \E r \in Newest(S, t, w) : r.article = a
  <1>1. PanelSize \in 1..10 /\ Articles \subseteq Nat
    BY DEF NewsAssumption
  <1>2. \A a \in S : RankIn(a, S) \in Nat /\ RankIn(a, S) >= 1
    BY HeadlinesFinite, RankType
  <1>3. Newest(S, t, w) \subseteq Row
    <2>1. ASSUME NEW a \in S, RankIn(a, S) <= PanelSize
          PROVE  [ticker |-> t, rank |-> RankIn(a, S), article |-> a, by |-> w] \in Row
      <3>1. RankIn(a, S) \in 1..10
        BY <1>1, <1>2, <2>1
      <3> QED
        BY <3>1 DEF Row
    <2> QED
      BY <2>1 DEF Newest
  <1> DEFINE Line(a) == [ticker |-> t, rank |-> RankIn(a, S), article |-> a, by |-> w]
  <1>4. /\ \A r \in Newest(S, t, w) : \E a \in S : r = Line(a)
        /\ \A a \in S : RankIn(a, S) <= PanelSize => Line(a) \in Newest(S, t, w)
    BY DEF Newest
  <1>5. \A a \in S : /\ Line(a).ticker = t /\ Line(a).by = w /\ Line(a).article = a
                     /\ Line(a).rank = RankIn(a, S)
    OBVIOUS
  <1> HIDE DEF Line
  <1> QED
    BY <1>3, <1>4, <1>5

LEMMA NewestListing ==
  ASSUME NewsAssumption, NEW S \in SUBSET Articles, NEW t \in Tickers,
         NEW w \in Writers \cup {"before"}
  PROVE  Listing(Newest(S, t, w))
  <1> DEFINE P == Newest(S, t, w)
  <1>0. /\ \A r \in P : r.by = w /\ r.article \in S /\ r.rank = RankIn(r.article, S) /\ r \in Row
        /\ \A r, s \in P : r.article = s.article => r = s
        /\ \A a \in S : RankIn(a, S) <= PanelSize => \E r \in P : r.article = a
    BY NewestRows
  <1>1. S \in SUBSET Nat /\ IsFiniteSet(S) /\ \A a \in S : RankIn(a, S) \in Nat
    BY HeadlinesFinite, RankType
  <1>2. \A r \in P : r.rank <= PanelSize
    BY DEF Newest
  <1> HIDE DEF P
  <1>3. ASSUME NEW a \in S, NEW b \in S, a < b PROVE RankIn(b, S) < RankIn(a, S)
    <2>1. /\ Cardinality({c \in S : c > b}) = RankIn(b, S) - 1
          /\ Cardinality({c \in S : c > a}) = RankIn(a, S) - 1
      BY <1>1, RankType
    <2> QED
      BY <1>1, <1>3, <2>1, FewerNewer
  <1>4. ASSUME NEW r \in P, NEW s \in P
        PROVE  /\ r.by = s.by
               /\ r.rank < s.rank => r.article > s.article
               /\ r.rank = s.rank => r = s
    <2>1. /\ r.article \in Nat /\ s.article \in Nat /\ r.rank \in Nat /\ s.rank \in Nat
          /\ r.article < s.article => s.rank < r.rank
          /\ s.article < r.article => r.rank < s.rank
      <3>1. /\ r.article \in S /\ s.article \in S
            /\ r.rank = RankIn(r.article, S) /\ s.rank = RankIn(s.article, S)
        BY <1>0
      <3>2. r.article \in Nat /\ s.article \in Nat /\ r.rank \in Nat /\ s.rank \in Nat
        BY <1>1, <3>1
      <3>3. r.article < s.article => s.rank < r.rank
        BY <1>3, <3>1
      <3>4. s.article < r.article => r.rank < s.rank
        BY <1>3, <3>1
      <3> QED
        BY <3>2, <3>3, <3>4
    <2> QED
      BY <1>0, <2>1
  <1>5. ASSUME NEW r \in P, NEW k \in 1..r.rank PROVE \E s \in P : s.rank = k
    <2>1. PICK b \in S : RankIn(b, S) = k
      <3>1. r.article \in S /\ k \in 1..RankIn(r.article, S)
        BY <1>0
      <3> QED
        BY <1>1, <3>1, RanksNoGap
    <2>2. RankIn(b, S) <= PanelSize
      <3>1. r.rank \in Nat /\ r.rank <= PanelSize /\ PanelSize \in Nat
        <4>1. r.article \in S /\ r.rank = RankIn(r.article, S)
          BY <1>0
        <4>2. r.rank \in Nat
          BY <1>1, <4>1
        <4>3. PanelSize \in Nat
          BY DEF NewsAssumption
        <4> QED
          BY <1>2, <4>2, <4>3
      <3> QED
        BY <2>1, <3>1
    <2> QED
      BY <1>0, <2>1, <2>2
  <1>6. Listing(P)
    BY <1>4, <1>5 DEF Listing
  <1> QED
    BY <1>6 DEF P

LEMMA RowFields ==
  ASSUME NewsAssumption, NEW r \in Row
  PROVE  /\ r.ticker \in Tickers /\ r.ticker # Nobody /\ r.rank \in 1..10
         /\ r.article \in Articles /\ r.article \in Nat /\ r.by \in Writers \cup {"before"}
  BY DEF Row, NewsAssumption

(* A panel numbers its rows 1, 2, ... up to their number.                  *)
LEMMA ListingNumbered ==
  ASSUME NewsAssumption, NEW S \in SUBSET Row, Listing(S)
  PROVE  {r.rank : r \in S} = 1..Cardinality(S)
  <1>1. CASE S = {}
    BY <1>1, FS_EmptySet
  <1>2. CASE S # {}
    <2> DEFINE R == {r.rank : r \in S}
    <2>1. R \in SUBSET Nat /\ R # {} /\ \A k \in R : k >= 1 /\ k <= 10
      BY <1>2, RowFields
    <2>2. PICK n \in R : \A k \in R : k <= n
      BY <2>1, GreatestNat
    <2>3. R = 1..n /\ n \in Nat
      <3>1. ASSUME NEW k \in 1..n PROVE k \in R
        <4>1. PICK r \in S : r.rank = n
          BY <2>2
        <4> QED
          BY <4>1 DEF Listing
      <3> QED
        BY <2>1, <2>2, <3>1
    <2> DEFINE g == [k \in 1..n |-> CHOOSE r \in S : r.rank = k]
    <2>4. \A k \in 1..n : g[k] \in S /\ g[k].rank = k
      BY <2>3
    <2>5. \A r \in S : r.rank \in 1..n /\ g[r.rank] = r
      <3> TAKE r \in S
      <3>1. r.rank \in 1..n
        BY <2>3
      <3>2. g[r.rank] \in S /\ g[r.rank].rank = r.rank
        BY <2>4, <3>1
      <3> QED
        BY <3>1, <3>2 DEF Listing
    <2>6. g \in Bijection(1..n, S)
      <3>1. g \in [1..n -> S]
        BY <2>4
      <3>2. \A i, j \in 1..n : g[i] = g[j] => i = j
        BY <2>4
      <3>3. \A r \in S : \E k \in 1..n : g[k] = r
        BY <2>5
      <3> HIDE DEF g
      <3> QED
        BY <3>1, <3>2, <3>3 DEF Bijection, Injection, IsInjective, Surjection
    <2>7. ExistsBijection(1..n, S)
      BY <2>6 DEF ExistsBijection
    <2>8. Cardinality(S) = n
      BY <2>3, <2>7, FS_CountingElements
    <2> QED
      BY <2>3, <2>8
  <1> QED
    BY <1>1, <1>2

LEMMA FirstOfPicked ==
  ASSUME NewsAssumption, NEW w \in Writers, picked[w] \subseteq Row, picked[w] # {}
  PROVE  /\ FirstPicked(w) \in picked[w]
         /\ \A s \in picked[w] : FirstPicked(w).rank <= s.rank
  <1> DEFINE R == {r.rank : r \in picked[w]}
  <1>1. R \in SUBSET Nat /\ R # {}
    BY RowFields
  <1>2. PICK m \in R : \A k \in R : m <= k
    BY <1>1, LeastNat
  <1>3. \E r \in picked[w] : \A s \in picked[w] : r.rank <= s.rank
    BY <1>2
  <1> QED
    BY <1>3 DEF FirstPicked

LEMMA FirstOfTodo ==
  ASSUME NewsAssumption, NEW F \in SUBSET [ticker : Tickers, article : Articles], F # {}
  PROVE  First(F) \in F
  <1>0. Tickers \in SUBSET Nat /\ \A f \in F : f.ticker \in Tickers /\ f.article \in Articles
    BY DEF NewsAssumption
  <1> DEFINE T == {f.ticker : f \in F}
  <1>1. PICK t \in T : \A u \in T : t <= u
    <2>1. T \in SUBSET Nat /\ T # {}
      BY <1>0
    <2> HIDE DEF T
    <2> QED
      BY <2>1, LeastNat
  <1> DEFINE A == {f.article : f \in {g \in F : g.ticker = t}}
  <1>2. PICK a \in A : \A b \in A : b <= a
    <2>1. A \in SUBSET Articles /\ A # {}
      BY <1>0, <1>1
    <2> HIDE DEF A
    <2>2. A \in SUBSET Nat /\ IsFiniteSet(A)
      BY <2>1, HeadlinesFinite
    <2> QED
      BY <2>1, <2>2, NewestOne
  <1>3. PICK f \in F : f.ticker = t /\ f.article = a
    BY <1>2
  <1>4. ASSUME NEW g \in F
        PROVE  \/ f.ticker < g.ticker
               \/ f.ticker = g.ticker /\ f.article >= g.article
    <2>1. g.ticker \in T /\ t \in Nat /\ g.ticker \in Nat
      BY <1>0, <1>1
    <2>2. g.ticker = t => g.article \in A
      OBVIOUS
    <2>3. a \in Nat /\ g.article \in Nat
      BY <1>0, <1>3 DEF NewsAssumption
    <2> HIDE DEF T, A
    <2> QED
      BY <1>1, <1>2, <1>3, <2>1, <2>2, <2>3
  <1>5. \E h \in F : \A g \in F : \/ h.ticker < g.ticker
                                  \/ h.ticker = g.ticker /\ h.article >= g.article
    BY <1>4
  <1> QED
    BY <1>5 DEF First

------------------------------------------------------------------------------
(* What a step leaves alone stays true.                                    *)

LEMMA SamePlan ==
  ASSUME NEW u \in Writers, PlanOf(u),
         pc'[u] = pc[u], picked'[u] = picked[u], victims'[u] = victims[u],
         current'[u] = current[u], queue'[u] = queue[u], inserted'[u] = inserted[u]
  PROVE  PlanOf(u)'
  <1>1. \A t : Planned(u, t)' = Planned(u, t)
    BY DEF Planned
  <1> QED
    BY <1>1 DEF PlanOf

LEMMA StillSigned ==
  ASSUME Signed, UNCHANGED panel,
         \A u \in Writers : pc[u] \in {"done", "failed"} => pc'[u] \in {"done", "failed"},
         \A u \in Writers : victims'[u] \subseteq victims[u] \/ victims'[u] \subseteq panel
  PROVE  Signed'
  BY DEF Signed

LEMMA StillWhole ==
  ASSUME DeletedWhole, UNCHANGED <<panel, deleted>>,
         \A u \in Writers : pc'[u] = "wait" =>
           pc[u] = "wait" /\ victims'[u] = victims[u] /\ current'[u] = current[u]
  PROVE  DeletedWhole'
  BY DEF DeletedWhole, PanelOf

LEMMA StillAlone ==
  ASSUME InsertedAlone, UNCHANGED <<panel, deleted, inserted>>
  PROVE  InsertedAlone'
  BY DEF InsertedAlone, PanelOf, Own

LEMMA StillLocked ==
  ASSUME ArticlesLocked, UNCHANGED <<stored, locked, todo, added>>
  PROVE  ArticlesLocked'
  BY DEF ArticlesLocked

LEMMA StillShown ==
  ASSUME PanelsListed, PanelRowsStored, UNCHANGED database
  PROVE  PanelsListed' /\ PanelRowsStored'
  BY DEF PanelsListed, PanelRowsStored, PanelOf, database

------------------------------------------------------------------------------
(* One lemma for each statement.                                           *)

LEMMA FetchInv ==
  ASSUME NewsAssumption, NInv, NEW w \in Writers, Fetch(w) PROVE NInv'
  <1>0. /\ Tables /\ IdleEmpty /\ Plans /\ Signed /\ DeletedWhole /\ InsertedAlone
        /\ PanelsListed /\ ArticlesLocked /\ PlannedStored /\ PanelRowsStored
    BY DEF NInv
  <1>1. /\ pc[w] = "fetch" /\ w \notin InFlight
        /\ UNCHANGED <<stored, panel, locked, added, deleted, inserted, current, picked, victims>>
    BY DEF Fetch, InFlight, database, uncommitted
  <1>2a. PICK T \in SUBSET Tickers :
          /\ \E F \in Feeds(T) : todo' = [todo EXCEPT ![w] = F]
          /\ queue' = [queue EXCEPT ![w] = T]
    BY DEF Fetch
  <1>2. PICK F \in Feeds(T) : todo' = [todo EXCEPT ![w] = F]
    BY <1>2a
  <1>3. /\ F \in SUBSET [ticker : Tickers, article : Articles]
        /\ \A f, g \in F : f.article = g.article => f = g
    BY <1>2 DEF Feeds
  <1>4. /\ pc' \in [Writers -> PC] /\ todo' \in [Writers -> SUBSET [ticker : Tickers, article : Articles]]
        /\ queue' \in [Writers -> SUBSET Tickers]
        /\ \A u \in Writers : pc'[u] = IF u = w THEN "upsert" ELSE pc[u]
        /\ \A u \in Writers : todo'[u] = IF u = w THEN F ELSE todo[u]
        /\ \A u \in Writers : queue'[u] = IF u = w THEN T ELSE queue[u]
    BY <1>0, <1>2a, <1>2, <1>3 DEF Fetch, Tables, PC
  <1>5. /\ picked[w] = {} /\ victims[w] = {} /\ locked[w] = {} /\ added[w] = {}
        /\ deleted[w] = {} /\ inserted[w] = {}
    BY <1>0, <1>1 DEF IdleEmpty
  <1>6. Tables'
    BY <1>0, <1>1, <1>4 DEF Tables
  <1>7. IdleEmpty'
    BY <1>0, <1>1, <1>4 DEF IdleEmpty, InFlight
  <1>8. Plans'
    <2>1. ASSUME NEW u \in Writers, u # w PROVE PlanOf(u)'
      BY <1>0, <1>1, <1>4, <2>1, SamePlan DEF Plans
    <2>2. \A t : Planned(w, t)' = {}
      BY <1>1, <1>5 DEF Planned
    <2>3. PlanOf(w)'
      BY <1>1, <1>4, <1>5, <2>2 DEF PlanOf, Listing
    <2> QED
      BY <2>1, <2>3 DEF Plans
  <1>9. Signed' /\ DeletedWhole' /\ InsertedAlone' /\ PanelsListed' /\ PanelRowsStored'
    BY <1>0, <1>1, <1>4, StillSigned, StillWhole, StillAlone, StillShown DEF database
  <1>10. ArticlesLocked'
    BY <1>0, <1>1, <1>3, <1>4, <1>5 DEF ArticlesLocked
  <1>11. PlannedStored'
    BY <1>0, <1>1 DEF PlannedStored
  <1> QED
    BY <1>6, <1>7, <1>8, <1>9, <1>10, <1>11 DEF NInv

LEMMA UpsertInv ==
  ASSUME NewsAssumption, NInv, NEW w \in Writers, Upsert(w) PROVE NInv'
  <1>0. /\ Tables /\ IdleEmpty /\ Plans /\ Signed /\ DeletedWhole /\ InsertedAlone
        /\ PanelsListed /\ ArticlesLocked /\ PlannedStored /\ PanelRowsStored
    BY DEF NInv
  <1> DEFINE f == First(todo[w])
  <1>1. /\ pc[w] = "upsert" /\ todo[w] # {} /\ w \in InFlight
        /\ \A u \in InFlight \ {w} : f.article \notin locked[u]
        /\ UNCHANGED <<stored, panel, deleted, inserted, pc, queue, current, picked, victims>>
    BY DEF Upsert, WaitsFor, UpsertWaitsFor, InFlight, database
  <1>2. f \in todo[w] /\ f \in [ticker : Tickers, article : Articles]
    BY <1>0, <1>1, FirstOfTodo DEF Tables
  <1>3. /\ added' = [added EXCEPT ![w] = IF stored[f.article] = Nobody THEN @ \cup {f} ELSE @]
        /\ locked' = [locked EXCEPT ![w] = @ \cup {f.article}]
        /\ todo' = [todo EXCEPT ![w] = @ \ {f}]
    BY DEF Upsert, UpsertRow
  <1> HIDE DEF f
  <1>4. f.ticker \in Tickers /\ f.article \in Articles
    BY <1>2
  <1>5. \A u \in Writers \ {w} : f.article \notin locked[u]
    BY <1>0, <1>1 DEF IdleEmpty
  <1>6. /\ \A u \in Writers \ {w} : added'[u] = added[u] /\ locked'[u] = locked[u] /\ todo'[u] = todo[u]
        /\ added'[w] = (IF stored[f.article] = Nobody THEN added[w] \cup {f} ELSE added[w])
        /\ locked'[w] = locked[w] \cup {f.article}
        /\ todo'[w] = todo[w] \ {f}
    BY <1>0, <1>3 DEF Tables
  <1>7. Tables'
    <2>1. /\ added' \in [Writers -> SUBSET [ticker : Tickers, article : Articles]]
          /\ locked' \in [Writers -> SUBSET Articles]
          /\ todo' \in [Writers -> SUBSET [ticker : Tickers, article : Articles]]
      BY <1>0, <1>2, <1>3, <1>4 DEF Tables
    <2> QED
      BY <1>0, <1>1, <2>1 DEF Tables
  <1>8. IdleEmpty'
    BY <1>0, <1>1, <1>6 DEF IdleEmpty, InFlight
  <1>9. Plans'
    BY <1>0, <1>1, SamePlan DEF Plans
  <1>10. Signed' /\ DeletedWhole' /\ InsertedAlone' /\ PanelsListed' /\ PanelRowsStored'
    BY <1>0, <1>1, StillSigned, StillWhole, StillAlone, StillShown DEF database
  <1>11. ArticlesLocked'
    <2>1. \A u, v \in Writers : u # v => locked'[u] \cap locked'[v] = {}
      BY <1>0, <1>5, <1>6 DEF ArticlesLocked
    <2>2. /\ \A g, h \in todo[w] : g.article = h.article => g = h
          /\ \A g \in todo[w] : g.article \notin locked[w]
          /\ \A g \in added[w] : /\ stored[g.article] = Nobody /\ g.article \in locked[w]
                                 /\ g.ticker \in Tickers
          /\ \A g, h \in added[w] : g.article = h.article => g = h
      BY <1>0 DEF ArticlesLocked
    <2>3. /\ \A g, h \in todo'[w] : g.article = h.article => g = h
          /\ \A g \in todo'[w] : g.article \notin locked'[w]
      BY <1>2, <1>6, <2>2
    <2>4. \A g \in added'[w] : g \in added[w] \/ (g = f /\ stored[f.article] = Nobody)
      BY <1>6
    <2>5. /\ \A g \in added'[w] : /\ stored[g.article] = Nobody /\ g.article \in locked'[w]
                                  /\ g.ticker \in Tickers
          /\ \A g, h \in added'[w] : g.article = h.article => g = h
      BY <1>2, <1>4, <1>6, <2>2, <2>4
    <2> QED
      BY <1>0, <1>1, <1>6, <2>1, <2>3, <2>5 DEF ArticlesLocked
  <1>12. PlannedStored'
    <2>1. \A u \in Writers : added[u] \subseteq added'[u]
      BY <1>6
    <2> QED
      BY <1>0, <1>1, <2>1 DEF PlannedStored
  <1> QED
    BY <1>7, <1>8, <1>9, <1>10, <1>11, <1>12 DEF NInv

LEMMA SelectInv ==
  ASSUME NewsAssumption, NInv, NEW w \in Writers, Select(w) PROVE NInv'
  <1>0. /\ Tables /\ IdleEmpty /\ Plans /\ Signed /\ DeletedWhole /\ InsertedAlone
        /\ PanelsListed /\ ArticlesLocked /\ PlannedStored /\ PanelRowsStored
    BY DEF NInv
  <1>1. /\ pc[w] \in {"upsert", "select"} /\ w \in InFlight
        /\ UNCHANGED <<stored, panel, locked, added, deleted, inserted, todo, victims>>
    BY DEF Select, InFlight, database, uncommitted
  <1>2. PICK t \in queue[w] :
          /\ current' = [current EXCEPT ![w] = t]
          /\ queue' = [queue EXCEPT ![w] = @ \ {t}]
          /\ LET own == {f.article : f \in {g \in added[w] : g.ticker = t}}
             IN  picked' = [picked EXCEPT ![w] = Newest(StoredFor(t) \cup own, t, w)]
    BY DEF Select
  <1> DEFINE S == StoredFor(t) \cup {f.article : f \in {g \in added[w] : g.ticker = t}}
             P == Newest(S, t, w)
  <1>3. t \in Tickers /\ S \in SUBSET Articles
    <2>1. \A f \in added[w] : f.article \in Articles
      BY <1>0 DEF Tables
    <2> QED
      BY <1>0, <2>1 DEF Tables, StoredFor
  <1>4. picked' = [picked EXCEPT ![w] = P]
    BY <1>2
  <1>5. /\ P \subseteq Row /\ Listing(P)
        /\ \A r \in P : r.ticker = t /\ r.by = w /\ r.article \in S
    BY <1>3, NewestRows, NewestListing
  <1>6. \A r \in P : \/ stored[r.article] = t
                     \/ \E f \in added[w] : f.ticker = t /\ f.article = r.article
    BY <1>5 DEF StoredFor
  <1> HIDE DEF P, S
  <1>7. /\ \A u \in Writers : pc'[u] = IF u = w THEN "delete" ELSE pc[u]
        /\ \A u \in Writers : current'[u] = IF u = w THEN t ELSE current[u]
        /\ \A u \in Writers : queue'[u] = IF u = w THEN queue[w] \ {t} ELSE queue[u]
        /\ \A u \in Writers : picked'[u] = IF u = w THEN P ELSE picked[u]
        /\ pc' \in [Writers -> PC] /\ current' \in [Writers -> Tickers \cup {Nobody}]
        /\ queue' \in [Writers -> SUBSET Tickers] /\ picked' \in [Writers -> SUBSET Row]
    BY <1>0, <1>2, <1>3, <1>4, <1>5 DEF Select, Tables, PC
  <1>8. Tables'
    BY <1>0, <1>1, <1>7 DEF Tables
  <1>9. IdleEmpty'
    BY <1>0, <1>1, <1>7 DEF IdleEmpty, InFlight
  <1>10. Plans'
    <2>1. ASSUME NEW u \in Writers, u # w PROVE PlanOf(u)'
      BY <1>0, <1>1, <1>7, <2>1, SamePlan DEF Plans
    <2>2. PlanOf(w)
      BY <1>0 DEF Plans
    <2>3. picked[w] = {} /\ victims[w] = {} /\ \A r \in inserted[w] : r.ticker # t /\ r.by = w
      BY <1>1, <2>2 DEF PlanOf
    <2>4. ASSUME NEW s \in Tickers PROVE Listing(Planned(w, s)')
      <3>1. CASE s = t
        <4>1. Planned(w, s)' = P
          BY <1>1, <1>5, <1>7, <2>3, <3>1 DEF Planned
        <4> QED
          BY <1>5, <4>1
      <3>2. CASE s # t
        <4>1. Planned(w, s)' = Planned(w, s)
          BY <1>1, <1>5, <1>7, <2>3, <3>2 DEF Planned
        <4> QED
          BY <2>2, <4>1 DEF PlanOf
      <3> QED
        BY <3>1, <3>2
    <2>5. /\ \A r \in inserted'[w] \cup picked'[w] : r.ticker \notin queue'[w] /\ r.by = w
          /\ \A r \in inserted'[w], s \in picked'[w] : r.ticker = s.ticker => r.rank < s.rank
      BY <1>1, <1>5, <1>7, <2>2, <2>3 DEF PlanOf
    <2>6. PlanOf(w)'
      BY <1>1, <1>3, <1>5, <1>7, <2>3, <2>4, <2>5 DEF PlanOf
    <2> QED
      BY <2>1, <2>6 DEF Plans
  <1>11. Signed' /\ DeletedWhole' /\ InsertedAlone' /\ PanelsListed' /\ PanelRowsStored'
    BY <1>0, <1>1, <1>7, StillSigned, StillWhole, StillAlone, StillShown DEF database
  <1>12. ArticlesLocked'
    BY <1>0, <1>1, StillLocked
  <1>13. PlannedStored'
    BY <1>0, <1>1, <1>5, <1>6, <1>7 DEF PlannedStored
  <1> QED
    BY <1>8, <1>9, <1>10, <1>11, <1>12, <1>13 DEF NInv

LEMMA DeleteFindsInv ==
  ASSUME NewsAssumption, NInv, NEW w \in Writers, DeleteFinds(w) PROVE NInv'
  <1>0. /\ Tables /\ IdleEmpty /\ Plans /\ Signed /\ DeletedWhole /\ InsertedAlone
        /\ PanelsListed /\ ArticlesLocked /\ PlannedStored /\ PanelRowsStored
    BY DEF NInv
  <1>1. /\ pc[w] = "delete" /\ w \in InFlight
        /\ UNCHANGED <<stored, panel, locked, added, deleted, inserted, todo, queue, current, picked>>
    BY DEF DeleteFinds, InFlight, database, uncommitted
  <1>2. PanelOf(current[w]) \subseteq panel /\ \A r \in PanelOf(current[w]) : r.ticker = current[w]
    BY DEF PanelOf
  <1>3. /\ \A u \in Writers : pc'[u] = IF u = w THEN "wait" ELSE pc[u]
        /\ \A u \in Writers : victims'[u] = IF u = w THEN PanelOf(current[w]) ELSE victims[u]
        /\ pc' \in [Writers -> PC] /\ victims' \in [Writers -> SUBSET Row]
    <2>1. PanelOf(current[w]) \in SUBSET Row
      BY <1>0, <1>2 DEF Tables
    <2> QED
      BY <1>0, <2>1 DEF DeleteFinds, Tables, PC
  <1>4. Tables'
    BY <1>0, <1>1, <1>3 DEF Tables
  <1>5. IdleEmpty'
    BY <1>0, <1>1, <1>3 DEF IdleEmpty, InFlight
  <1>6. Plans'
    <2>1. ASSUME NEW u \in Writers, u # w PROVE PlanOf(u)'
      BY <1>0, <1>1, <1>3, <2>1, SamePlan DEF Plans
    <2>2. \A t : Planned(w, t)' = Planned(w, t)
      BY <1>1 DEF Planned
    <2>3. PlanOf(w)'
      BY <1>0, <1>1, <1>3, <2>2 DEF Plans, PlanOf
    <2> QED
      BY <2>1, <2>3 DEF Plans
  <1>7. Signed' /\ InsertedAlone' /\ PanelsListed' /\ PanelRowsStored' /\ ArticlesLocked'
    BY <1>0, <1>1, <1>2, <1>3, StillSigned, StillAlone, StillShown, StillLocked DEF database
  <1>8. DeletedWhole'
    BY <1>0, <1>1, <1>2, <1>3 DEF DeletedWhole, PanelOf
  <1>9. PlannedStored'
    BY <1>0, <1>1 DEF PlannedStored
  <1> QED
    BY <1>4, <1>5, <1>6, <1>7, <1>8, <1>9 DEF NInv

LEMMA DeleteInv ==
  ASSUME NewsAssumption, NInv, NEW w \in Writers, Delete(w) PROVE NInv'
  <1>0. /\ Tables /\ IdleEmpty /\ Plans /\ Signed /\ DeletedWhole /\ InsertedAlone
        /\ PanelsListed /\ ArticlesLocked /\ PlannedStored /\ PanelRowsStored
    BY DEF NInv
  <1>1. /\ pc[w] = "wait" /\ w \in InFlight
        /\ \A u \in InFlight \ {w} : victims[w] \cap deleted[u] = {}
        /\ UNCHANGED <<stored, panel, locked, added, inserted, todo, queue, current, picked>>
    BY DEF Delete, WaitsFor, DeleteWaitsFor, InFlight, database
  <1>2. /\ \A u \in Writers : pc'[u] = IF u = w THEN "insert" ELSE pc[u]
        /\ \A u \in Writers : victims'[u] = IF u = w THEN {} ELSE victims[u]
        /\ \A u \in Writers : deleted'[u] = IF u = w THEN deleted[w] \cup (victims[w] \cap panel)
                                                     ELSE deleted[u]
        /\ pc' \in [Writers -> PC] /\ victims' \in [Writers -> SUBSET Row]
        /\ deleted' \in [Writers -> SUBSET Row]
    <2>1. deleted[w] \cup (victims[w] \cap panel) \in SUBSET Row
      BY <1>0 DEF Tables
    <2> QED
      BY <1>0, <2>1 DEF Delete, Tables, PC
  <1>3. Tables'
    BY <1>0, <1>1, <1>2 DEF Tables
  <1>4. IdleEmpty'
    BY <1>0, <1>1, <1>2 DEF IdleEmpty, InFlight
  <1>5. Plans'
    <2>1. ASSUME NEW u \in Writers, u # w PROVE PlanOf(u)'
      BY <1>0, <1>1, <1>2, <2>1, SamePlan DEF Plans
    <2>2. \A t : Planned(w, t)' = Planned(w, t)
      BY <1>1 DEF Planned
    <2>3. PlanOf(w)'
      BY <1>0, <1>1, <1>2, <2>2 DEF Plans, PlanOf
    <2> QED
      BY <2>1, <2>3 DEF Plans
  <1>6. Signed' /\ PanelsListed' /\ PanelRowsStored' /\ ArticlesLocked'
    <2>1. \A u \in Writers : victims'[u] \subseteq victims[u]
      BY <1>2
    <2> QED
      BY <1>0, <1>1, <1>2, <2>1, StillSigned, StillShown, StillLocked DEF database
  <1>7. DeletedWhole'
    <2>1. ASSUME NEW t \in Tickers
          PROVE  PanelOf(t) \subseteq deleted'[w] \/ PanelOf(t) \cap deleted'[w] = {}
      <3>1. PanelOf(t) \subseteq deleted[w] \/ PanelOf(t) \cap deleted[w] = {}
        BY <1>0 DEF DeletedWhole
      <3>2. \A r \in victims[w] : r.ticker = current[w]
        BY <1>0, <1>1 DEF DeletedWhole
      <3>3. CASE t = current[w]
        <4>1. PanelOf(t) \subseteq victims[w] \/ PanelOf(t) \cap victims[w] = {}
          BY <1>0, <1>1, <3>3 DEF DeletedWhole
        <4> QED
          BY <1>2, <3>1, <4>1 DEF PanelOf
      <3>4. CASE t # current[w]
        BY <1>2, <3>1, <3>2, <3>4 DEF PanelOf
      <3> QED
        BY <3>3, <3>4
    <2>2. \A u \in Writers \ {w} : deleted'[w] \cap deleted'[u] = {}
      <3>1. \A u \in Writers \ {w} : victims[w] \cap deleted[u] = {}
        BY <1>0, <1>1 DEF IdleEmpty
      <3>2. \A u \in Writers \ {w} : deleted[w] \cap deleted[u] = {}
        BY <1>0 DEF DeletedWhole
      <3> QED
        BY <1>2, <3>1, <3>2
    <2>3. \A t : PanelOf(t)' = PanelOf(t)
      BY <1>1 DEF PanelOf
    <2> QED
      BY <1>0, <1>1, <1>2, <2>1, <2>2, <2>3 DEF DeletedWhole
  <1>8. InsertedAlone'
    <2>1. \A u \in Writers : deleted[u] \subseteq deleted'[u]
      BY <1>2
    <2>2. \A u, t : Own(u, t)' = Own(u, t)
      BY <1>1 DEF Own
    <2>3. \A t : PanelOf(t)' = PanelOf(t)
      BY <1>1 DEF PanelOf
    <2> QED
      BY <1>0, <2>1, <2>2, <2>3 DEF InsertedAlone
  <1>9. PlannedStored'
    BY <1>0, <1>1 DEF PlannedStored
  <1> QED
    BY <1>3, <1>4, <1>5, <1>6, <1>7, <1>8, <1>9 DEF NInv

(* The first of a panel's rows holds rank 1, and no row of a panel is      *)
(* inserted before it.                                                     *)
LEMMA FirstRankInserted ==
  ASSUME NewsAssumption, NEW u \in Writers, PlanOf(u), NEW t \in Tickers, Own(u, t) # {},
         inserted[u] \subseteq Row, picked[u] \subseteq Row
  PROVE  \E s \in inserted[u] : s.ticker = t /\ s.rank = 1
  <1>1. PICK r \in inserted[u] : r.ticker = t
    BY DEF Own
  <1>2. r \in Planned(u, t) /\ Listing(Planned(u, t)) /\ 1 \in 1..r.rank
    BY <1>1, RowFields DEF Planned, PlanOf
  <1>3. PICK s \in Planned(u, t) : s.rank = 1
    BY <1>2 DEF Listing
  <1>4. s.ticker = t /\ (s \in inserted[u] \/ s \in picked[u])
    BY DEF Planned
  <1>5. s \in picked[u] => r.rank < s.rank
    BY <1>1, <1>4 DEF PlanOf
  <1>6. r.rank \in 1..10
    BY <1>1, RowFields
  <1>7. s \notin picked[u]
    BY <1>3, <1>5, <1>6
  <1> QED
    BY <1>3, <1>4, <1>7

LEMMA InsertInv ==
  ASSUME NewsAssumption, NInv, NEW w \in Writers, Insert(w) PROVE NInv'
  <1>0. /\ Tables /\ IdleEmpty /\ Plans /\ Signed /\ DeletedWhole /\ InsertedAlone
        /\ PanelsListed /\ ArticlesLocked /\ PlannedStored /\ PanelRowsStored
    BY DEF NInv
  <1> DEFINE r == FirstPicked(w)
             t == current[w]
  <1>1. /\ pc[w] = "insert" /\ w \in InFlight /\ picked[w] # {}
        /\ \A u \in InFlight \ {w} : \A s \in inserted[u] : ~SameKey(s, r)
        /\ \A s \in panel \ deleted[w] : ~SameKey(s, r)
        /\ UNCHANGED <<stored, panel, locked, added, deleted, pc, todo, queue, current, victims>>
    BY DEF Insert, KeyTaken, WaitsFor, InsertWaitsFor, InFlight, database
  <1>2. r \in picked[w] /\ (\A s \in picked[w] : r.rank <= s.rank) /\ r \in Row
    BY <1>0, <1>1, FirstOfPicked DEF Tables
  <1>3. /\ \A u \in Writers : inserted'[u] = IF u = w THEN inserted[w] \cup {r} ELSE inserted[u]
        /\ \A u \in Writers : picked'[u] = IF u = w THEN picked[w] \ {r} ELSE picked[u]
        /\ inserted' \in [Writers -> SUBSET Row] /\ picked' \in [Writers -> SUBSET Row]
    <2>1. inserted[w] \cup {r} \in SUBSET Row /\ picked[w] \ {r} \in SUBSET Row
      BY <1>0, <1>2 DEF Tables
    <2> QED
      BY <1>0, <2>1 DEF Insert, Tables
  <1> HIDE DEF r
  <1>4. Tables'
    BY <1>0, <1>1, <1>3 DEF Tables
  <1>5. IdleEmpty'
    BY <1>0, <1>1, <1>3 DEF IdleEmpty, InFlight
  <1>6. PlanOf(w) /\ r.ticker = t /\ t \in Tickers
    BY <1>0, <1>1, <1>2 DEF Plans, PlanOf
  <1>7. Plans'
    <2>1. ASSUME NEW u \in Writers, u # w PROVE PlanOf(u)'
      BY <1>0, <1>1, <1>3, <2>1, SamePlan DEF Plans
    <2>2. \A s : Planned(w, s)' = Planned(w, s)
      BY <1>2, <1>3 DEF Planned
    <2>3. ASSUME NEW i \in inserted'[w], NEW s \in picked'[w], i.ticker = s.ticker
          PROVE  i.rank < s.rank
      <3>1. s \in picked[w] /\ s # r /\ s \in Row
        BY <1>0, <1>3 DEF Tables
      <3>2. CASE i \in inserted[w]
        BY <1>6, <2>3, <3>1, <3>2 DEF PlanOf
      <3>3. CASE i = r
        <4>1. r \in Planned(w, t) /\ s \in Planned(w, t) /\ Listing(Planned(w, t))
          BY <1>2, <1>6, <2>3, <3>1, <3>3 DEF Planned, PlanOf
        <4>2. r.rank # s.rank /\ r.rank <= s.rank
          BY <1>2, <3>1, <4>1 DEF Listing
        <4>3. r.rank \in 1..10 /\ s.rank \in 1..10
          BY <1>2, <3>1, RowFields
        <4> QED
          BY <3>3, <4>2, <4>3
      <3> QED
        BY <1>3, <3>2, <3>3
    <2>4. /\ \A s \in picked'[w] : s.ticker = current'[w]
          /\ \A s \in inserted'[w] \cup picked'[w] : s.ticker \notin queue'[w] /\ s.by = w
      BY <1>1, <1>2, <1>3, <1>6 DEF PlanOf
    <2>5. PlanOf(w)'
      BY <1>1, <1>6, <2>2, <2>3, <2>4 DEF PlanOf
    <2> QED
      BY <2>1, <2>5 DEF Plans
  <1>8. Signed' /\ DeletedWhole' /\ PanelsListed' /\ PanelRowsStored' /\ ArticlesLocked'
    BY <1>0, <1>1, StillSigned, StillWhole, StillShown, StillLocked DEF database
  <1>9. InsertedAlone'
    <2>1. PanelOf(t) \subseteq deleted[w] /\ \A u \in Writers \ {w} : Own(u, t) = {}
      <3>1. CASE Own(w, t) # {}
        BY <1>0, <1>6, <3>1 DEF InsertedAlone
      <3>2. CASE Own(w, t) = {}
        <4>1. r \in Planned(w, t) /\ Listing(Planned(w, t)) /\ r.rank \in 1..10
          BY <1>2, <1>6, RowFields DEF Planned, PlanOf
        <4>2. PICK s \in Planned(w, t) : s.rank = 1
          BY <4>1 DEF Listing
        <4>3. s \in picked[w]
          BY <3>2 DEF Planned, Own
        <4>4. r.rank = 1
          BY <1>2, <4>1, <4>2, <4>3
        <4>5. PanelOf(t) \subseteq deleted[w]
          <5>1. SUFFICES ASSUME PanelOf(t) # {} PROVE PanelOf(t) \cap deleted[w] # {}
            BY <1>0, <1>6 DEF DeletedWhole
          <5>2. PICK p \in PanelOf(t) : TRUE
            BY <5>1
          <5>3. p \in Row /\ Listing(PanelOf(t))
            BY <1>0, <1>6 DEF PanelOf, Tables, PanelsListed
          <5>4. 1 \in 1..p.rank
            BY <5>3, RowFields
          <5>5. PICK q \in PanelOf(t) : q.rank = 1
            BY <5>2, <5>3, <5>4 DEF Listing
          <5>6. SameKey(q, r) /\ q \in panel
            BY <1>6, <4>4, <5>5 DEF SameKey, PanelOf
          <5> QED
            BY <1>1, <5>5, <5>6
        <4>6. ASSUME NEW u \in Writers \ {w}, Own(u, t) # {} PROVE FALSE
          <5>1. u \in InFlight
            BY <1>0, <4>6 DEF IdleEmpty, Own
          <5>2. \E i \in inserted[u] : i.ticker = t /\ i.rank = 1
            BY <1>0, <1>6, <4>6, FirstRankInserted DEF Plans, Tables
          <5> QED
            BY <1>1, <1>6, <4>4, <5>1, <5>2 DEF SameKey
        <4> QED
          BY <4>5, <4>6
      <3> QED
        BY <3>1, <3>2
    <2>2. \A u \in Writers : \A s : (u # w \/ s # t) => Own(u, s)' = Own(u, s)
      BY <1>3, <1>6 DEF Own
    <2>3. \A s : PanelOf(s)' = PanelOf(s)
      BY <1>1 DEF PanelOf
    <2>4. SUFFICES ASSUME NEW u \in Writers, NEW s \in Tickers, Own(u, s)' # {}
                   PROVE  /\ PanelOf(s) \subseteq deleted[u]
                          /\ \A v \in Writers \ {u} : Own(v, s)' = {}
      BY <1>1, <2>3 DEF InsertedAlone
    <2>5. CASE s # t
      BY <1>0, <2>2, <2>4, <2>5 DEF InsertedAlone
    <2>6. CASE s = t /\ u = w
      BY <2>1, <2>2, <2>6
    <2>7. CASE s = t /\ u # w
      BY <2>1, <2>2, <2>4, <2>7
    <2> QED
      BY <2>5, <2>6, <2>7
  <1>10. PlannedStored'
    <2>1. \A u \in Writers : inserted'[u] \cup picked'[u] = inserted[u] \cup picked[u]
      BY <1>2, <1>3
    <2> QED
      BY <1>0, <1>1, <2>1 DEF PlannedStored
  <1> QED
    BY <1>4, <1>5, <1>7, <1>8, <1>9, <1>10 DEF NInv

LEMMA NextTickerInv ==
  ASSUME NewsAssumption, NInv, NEW w \in Writers, NextTicker(w) PROVE NInv'
  <1>0. /\ Tables /\ IdleEmpty /\ Plans /\ Signed /\ DeletedWhole /\ InsertedAlone
        /\ PanelsListed /\ ArticlesLocked /\ PlannedStored /\ PanelRowsStored
    BY DEF NInv
  <1>1. /\ pc[w] = "insert" /\ w \in InFlight /\ picked[w] = {}
        /\ UNCHANGED <<stored, panel, locked, added, deleted, inserted, todo, queue, current,
                       picked, victims>>
    BY DEF NextTicker, InFlight, database, uncommitted
  <1>2. /\ \A u \in Writers : pc'[u] = IF u = w THEN "select" ELSE pc[u]
        /\ pc' \in [Writers -> PC]
    BY <1>0 DEF NextTicker, Tables, PC
  <1>3. Tables' /\ IdleEmpty'
    BY <1>0, <1>1, <1>2 DEF Tables, IdleEmpty, InFlight
  <1>4. Plans'
    <2>1. ASSUME NEW u \in Writers, u # w PROVE PlanOf(u)'
      BY <1>0, <1>1, <1>2, <2>1, SamePlan DEF Plans
    <2>2. \A t : Planned(w, t)' = Planned(w, t)
      BY <1>1 DEF Planned
    <2>3. PlanOf(w)'
      BY <1>0, <1>1, <1>2, <2>2 DEF Plans, PlanOf
    <2> QED
      BY <2>1, <2>3 DEF Plans
  <1>5. Signed' /\ DeletedWhole' /\ InsertedAlone' /\ PanelsListed' /\ PanelRowsStored' /\ ArticlesLocked'
    BY <1>0, <1>1, <1>2, StillSigned, StillWhole, StillAlone, StillShown, StillLocked DEF database
  <1>6. PlannedStored'
    BY <1>0, <1>1 DEF PlannedStored
  <1> QED
    BY <1>3, <1>4, <1>5, <1>6 DEF NInv

(* Commit and rollback leave nothing behind in the transaction.            *)
LEMMA Forgotten ==
  ASSUME Tables, NEW w \in Writers, Forget(w)
  PROVE  /\ todo'[w] = {} /\ queue'[w] = {} /\ picked'[w] = {} /\ victims'[w] = {}
         /\ locked'[w] = {} /\ added'[w] = {} /\ deleted'[w] = {} /\ inserted'[w] = {}
         /\ \A u \in Writers \ {w} :
              /\ todo'[u] = todo[u] /\ queue'[u] = queue[u] /\ current'[u] = current[u]
              /\ picked'[u] = picked[u] /\ victims'[u] = victims[u]
              /\ locked'[u] = locked[u] /\ added'[u] = added[u]
              /\ deleted'[u] = deleted[u] /\ inserted'[u] = inserted[u]
         /\ current' \in [Writers -> Tickers \cup {Nobody}]
         /\ todo' \in [Writers -> SUBSET [ticker : Tickers, article : Articles]]
         /\ added' \in [Writers -> SUBSET [ticker : Tickers, article : Articles]]
         /\ queue' \in [Writers -> SUBSET Tickers] /\ locked' \in [Writers -> SUBSET Articles]
         /\ picked' \in [Writers -> SUBSET Row] /\ victims' \in [Writers -> SUBSET Row]
         /\ deleted' \in [Writers -> SUBSET Row] /\ inserted' \in [Writers -> SUBSET Row]
  BY DEF Forget, Tables

(* What holds of every transaction once one of them is over.               *)
LEMMA OverInv ==
  ASSUME NewsAssumption, Tables, IdleEmpty, Plans, ArticlesLocked, NEW w \in Writers, Forget(w),
         NEW end \in {"done", "failed"}, pc' = [pc EXCEPT ![w] = end]
  PROVE  /\ IdleEmpty' /\ Plans' /\ pc' \in [Writers -> PC]
         /\ \A u \in Writers : pc'[u] = IF u = w THEN end ELSE pc[u]
         /\ \A u, v \in Writers : u # v => locked'[u] \cap locked'[v] = {}
  <1>1. /\ pc' \in [Writers -> PC]
        /\ \A u \in Writers : pc'[u] = IF u = w THEN end ELSE pc[u]
    BY DEF Tables, PC
  <1>2. IdleEmpty'
    BY <1>1, Forgotten DEF IdleEmpty, InFlight
  <1>3. ASSUME NEW u \in Writers, u # w PROVE PlanOf(u)'
    BY <1>1, <1>3, Forgotten, SamePlan DEF Plans
  <1>4. PlanOf(w)'
    <2>1. /\ picked'[w] = {} /\ victims'[w] = {} /\ inserted'[w] = {}
          /\ pc'[w] \notin {"delete", "wait", "insert"}
      BY <1>1, Forgotten
    <2>2. \A t : Planned(w, t)' = {}
      BY <2>1 DEF Planned
    <2> QED
      BY <2>1, <2>2 DEF PlanOf, Listing
  <1>5. \A u, v \in Writers : u # v => locked'[u] \cap locked'[v] = {}
    BY Forgotten DEF ArticlesLocked
  <1> QED
    BY <1>1, <1>2, <1>3, <1>4, <1>5 DEF Plans

LEMMA AbortInv ==
  ASSUME NewsAssumption, NInv, NEW w \in Writers, Abort(w) PROVE NInv'
  <1>0. /\ Tables /\ IdleEmpty /\ Plans /\ Signed /\ DeletedWhole /\ InsertedAlone
        /\ PanelsListed /\ ArticlesLocked /\ PlannedStored /\ PanelRowsStored
    BY DEF NInv
  <1>1. Forget(w) /\ pc' = [pc EXCEPT ![w] = "failed"] /\ UNCHANGED <<stored, panel>>
    BY DEF Abort, database
  <1>2. /\ IdleEmpty' /\ Plans' /\ pc' \in [Writers -> PC]
        /\ \A u \in Writers : pc'[u] = IF u = w THEN "failed" ELSE pc[u]
        /\ \A u, v \in Writers : u # v => locked'[u] \cap locked'[v] = {}
    BY <1>0, <1>1, OverInv
  <1>3. Tables'
    BY <1>0, <1>1, <1>2, Forgotten DEF Tables
  <1>4. Signed' /\ PanelsListed' /\ PanelRowsStored'
    <2>1. \A u \in Writers : victims'[u] \subseteq victims[u]
      BY <1>0, <1>1, Forgotten
    <2> QED
      BY <1>0, <1>1, <1>2, <2>1, StillSigned, StillShown DEF database
  <1>5. DeletedWhole'
    <2>1. \A u \in Writers \ {w} : deleted'[u] = deleted[u] /\ victims'[u] = victims[u]
                                   /\ current'[u] = current[u] /\ pc'[u] = pc[u]
      BY <1>0, <1>1, <1>2, Forgotten
    <2>2. deleted'[w] = {} /\ pc'[w] # "wait"
      BY <1>0, <1>1, <1>2, Forgotten
    <2>3. \A t : PanelOf(t)' = PanelOf(t)
      BY <1>1 DEF PanelOf
    <2> QED
      BY <1>0, <2>1, <2>2, <2>3 DEF DeletedWhole
  <1>6. InsertedAlone'
    <2>1. \A u \in Writers \ {w} : deleted'[u] = deleted[u]
      BY <1>0, <1>1, Forgotten
    <2>2. \A u \in Writers : \A t : Own(u, t)' = IF u = w THEN {} ELSE Own(u, t)
      BY <1>0, <1>1, Forgotten DEF Own
    <2>3. \A t : PanelOf(t)' = PanelOf(t)
      BY <1>1 DEF PanelOf
    <2> QED
      BY <1>0, <2>1, <2>2, <2>3 DEF InsertedAlone
  <1>7. ArticlesLocked'
    BY <1>0, <1>1, <1>2, Forgotten DEF ArticlesLocked
  <1>8. PlannedStored'
    BY <1>0, <1>1, Forgotten DEF PlannedStored
  <1> QED
    BY <1>2, <1>3, <1>4, <1>5, <1>6, <1>7, <1>8 DEF NInv

LEMMA CommitInv ==
  ASSUME NewsAssumption, NInv, NEW w \in Writers, Commit(w) PROVE NInv'
  <1>0. /\ Tables /\ IdleEmpty /\ Plans /\ Signed /\ DeletedWhole /\ InsertedAlone
        /\ PanelsListed /\ ArticlesLocked /\ PlannedStored /\ PanelRowsStored
    BY DEF NInv
  <1>1. /\ pc[w] = "insert" /\ picked[w] = {} /\ Forget(w) /\ pc' = [pc EXCEPT ![w] = "done"]
        /\ panel' = (panel \ deleted[w]) \cup inserted[w]
    BY DEF Commit
  <1>2. /\ IdleEmpty' /\ Plans' /\ pc' \in [Writers -> PC]
        /\ \A u \in Writers : pc'[u] = IF u = w THEN "done" ELSE pc[u]
        /\ \A u, v \in Writers : u # v => locked'[u] \cap locked'[v] = {}
    BY <1>0, <1>1, OverInv
  <1>3. /\ \A f \in added[w] : f.article \in Articles /\ f.ticker \in Tickers
        /\ \A f \in added[w] : stored[f.article] = Nobody /\ f.article \in locked[w]
        /\ \A f, g \in added[w] : f.article = g.article => f = g
    BY <1>0 DEF Tables, ArticlesLocked
  <1>4. /\ stored' \in [Articles -> Tickers \cup {Nobody}]
        /\ \A f \in added[w] : stored'[f.article] = f.ticker
        /\ \A a \in Articles : stored'[a] = stored[a] \/ \E f \in added[w] : f.article = a
    <2>1. stored' = [a \in Articles |->
                       IF \E f \in added[w] : f.article = a
                         THEN (CHOOSE f \in added[w] : f.article = a).ticker
                         ELSE stored[a]]
      BY DEF Commit
    <2>2. ASSUME NEW f \in added[w]
          PROVE  (CHOOSE g \in added[w] : g.article = f.article) = f
      BY <1>3
    <2>3. \A f \in added[w] : stored'[f.article] = f.ticker
      BY <1>3, <2>1, <2>2
    <2>4. \A a \in Articles : stored'[a] = stored[a] \/ \E f \in added[w] : f.article = a
      BY <2>1
    <2>5. \A a \in Articles : stored'[a] \in Tickers \cup {Nobody}
      BY <1>0, <1>3, <2>3, <2>4 DEF Tables
    <2> QED
      BY <2>1, <2>3, <2>4, <2>5
  <1>5. \A a \in Articles : stored[a] # Nobody => stored'[a] = stored[a]
    BY <1>3, <1>4
  <1>6. \A r \in inserted[w] : r \notin panel /\ r.by = w
    BY <1>0, <1>1 DEF Plans, PlanOf, Signed
  <1>7. \A u \in Writers \ {w} : deleted[u] \cap deleted[w] = {}
    BY <1>0 DEF DeletedWhole
  <1>8. Tables'
    <2>1. \A u \in Writers : deleted'[u] \subseteq panel'
      BY <1>0, <1>1, <1>7, Forgotten DEF Tables
    <2>2. panel' \subseteq Row
      BY <1>0, <1>1 DEF Tables
    <2> QED
      BY <1>0, <1>1, <1>2, <1>4, <2>1, <2>2, Forgotten DEF Tables
  <1>9. Signed'
    <2>1. \A u \in Writers : victims'[u] \subseteq victims[u]
      BY <1>0, <1>1, Forgotten
    <2> QED
      BY <1>0, <1>1, <1>2, <1>6, <2>1 DEF Signed
  (* What the commit makes of the panel of a ticker.                       *)
  <1>10. ASSUME NEW t \in Tickers
         PROVE  /\ PanelOf(t)' = (PanelOf(t) \ deleted[w]) \cup Own(w, t)
                /\ Listing(Own(w, t))
                /\ \/ PanelOf(t)' = PanelOf(t) /\ PanelOf(t) \cap deleted[w] = {} /\ Own(w, t) = {}
                   \/ PanelOf(t) \subseteq deleted[w] /\ PanelOf(t)' = Own(w, t)
    <2>1. PanelOf(t)' = (PanelOf(t) \ deleted[w]) \cup Own(w, t)
      BY <1>1 DEF PanelOf, Own
    <2>2. Own(w, t) = Planned(w, t)
      BY <1>1 DEF Own, Planned
    <2>3. Listing(Own(w, t))
      BY <1>0, <2>2 DEF Plans, PlanOf
    <2>4. Own(w, t) # {} => PanelOf(t) \subseteq deleted[w]
      BY <1>0 DEF InsertedAlone
    <2>5. PanelOf(t) \subseteq deleted[w] \/ PanelOf(t) \cap deleted[w] = {}
      BY <1>0 DEF DeletedWhole
    <2> QED
      BY <2>1, <2>3, <2>4, <2>5
  <1>11. PanelsListed'
    BY <1>0, <1>10 DEF PanelsListed
  <1>12. DeletedWhole'
    <2>1. /\ \A u \in Writers \ {w} : deleted'[u] = deleted[u] /\ victims'[u] = victims[u]
                                      /\ current'[u] = current[u] /\ pc'[u] = pc[u]
          /\ deleted'[w] = {} /\ pc'[w] # "wait"
      BY <1>0, <1>1, <1>2, Forgotten
    <2>2. ASSUME NEW u \in Writers \ {w}, NEW t \in Tickers
          PROVE  PanelOf(t)' \subseteq deleted[u] \/ PanelOf(t)' \cap deleted[u] = {}
      <3>1. PanelOf(t) \subseteq deleted[u] \/ PanelOf(t) \cap deleted[u] = {}
        BY <1>0 DEF DeletedWhole
      <3>2. Own(w, t) \cap deleted[u] = {}
        BY <1>0, <1>6 DEF Own, Tables
      <3> QED
        BY <1>10, <3>1, <3>2
    <2>3. ASSUME NEW u \in Writers \ {w}, pc[u] = "wait"
          PROVE  /\ \A r \in victims[u] : r.ticker = current[u]
                 /\ \/ PanelOf(current[u])' \subseteq victims[u]
                    \/ PanelOf(current[u])' \cap victims[u] = {}
      <3>1. current[u] \in Tickers
        BY <1>0, <2>3 DEF Plans, PlanOf
      <3>2. /\ \A r \in victims[u] : r.ticker = current[u]
            /\ PanelOf(current[u]) \subseteq victims[u] \/ PanelOf(current[u]) \cap victims[u] = {}
        BY <1>0, <2>3 DEF DeletedWhole
      <3>3. Own(w, current[u]) \cap victims[u] = {}
        BY <1>0, <1>1, <1>6 DEF Own, Signed
      <3>4. PICK t \in Tickers : t = current[u] /\ t = current'[u]
        BY <2>1, <3>1
      <3>5. PanelOf(current[u])' = PanelOf(t)' /\ PanelOf(current[u]) = PanelOf(t)
        BY <3>4 DEF PanelOf
      <3>6. PanelOf(t)' = (PanelOf(t) \ deleted[w]) \cup Own(w, t)
        BY <1>10
      <3>7. Own(w, t) \cap victims[u] = {}
        BY <3>3, <3>4
      <3>8. PanelOf(t) \subseteq victims[u]
              => PanelOf(t)' \subseteq victims[u] \/ PanelOf(t)' \cap victims[u] = {}
        BY <1>10, <3>6, <3>7
      <3> QED
        BY <3>2, <3>5, <3>6, <3>7, <3>8
    <2>4. \A u, v \in Writers : u # v => deleted'[u] \cap deleted'[v] = {}
      BY <1>0, <2>1 DEF DeletedWhole
    <2>5. \A u \in Writers, t \in Tickers :
            PanelOf(t)' \subseteq deleted'[u] \/ PanelOf(t)' \cap deleted'[u] = {}
      BY <2>1, <2>2
    <2>6. \A u \in Writers : pc'[u] = "wait" =>
            /\ \A r \in victims'[u] : r.ticker = current'[u]
            /\ \/ PanelOf(current[u])' \subseteq victims'[u]
               \/ PanelOf(current[u])' \cap victims'[u] = {}
      BY <2>1, <2>3
    <2> QED
      BY <2>4, <2>5, <2>6 DEF DeletedWhole
  <1>13. InsertedAlone'
    <2>1. /\ \A u \in Writers : \A t : Own(u, t)' = IF u = w THEN {} ELSE Own(u, t)
          /\ \A u \in Writers \ {w} : deleted'[u] = deleted[u]
      BY <1>0, <1>1, Forgotten DEF Own
    <2>2. ASSUME NEW u \in Writers \ {w}, NEW t \in Tickers, Own(u, t) # {}
          PROVE  /\ PanelOf(t)' \subseteq deleted[u]
                 /\ \A v \in Writers \ {u} : Own(v, t) = {}
      BY <1>0, <1>10, <2>2 DEF InsertedAlone
    <2> QED
      BY <2>1, <2>2 DEF InsertedAlone
  <1>14. ArticlesLocked'
    <2>1. ASSUME NEW u \in Writers \ {w}, NEW f \in added[u] PROVE stored'[f.article] = Nobody
      <3>1. f.article \in locked[u] /\ stored[f.article] = Nobody /\ f.article \in Articles
        BY <1>0 DEF ArticlesLocked, Tables
      <3>2. \A g \in added[w] : g.article # f.article
        BY <1>0, <1>3, <3>1 DEF ArticlesLocked
      <3> QED
        BY <1>4, <3>1, <3>2
    <2> QED
      BY <1>0, <1>1, <1>2, <2>1, Forgotten DEF ArticlesLocked
  <1>15. PlannedStored'
    <2>1. ASSUME NEW u \in Writers \ {w}, NEW r \in inserted[u] \cup picked[u]
          PROVE  \/ stored'[r.article] = r.ticker
                 \/ \E f \in added[u] : f.ticker = r.ticker /\ f.article = r.article
      <3>1. r.article \in Articles /\ r.ticker # Nobody
        BY <1>0, RowFields DEF Tables
      <3> QED
        BY <1>0, <1>5, <3>1 DEF PlannedStored
    <2> QED
      BY <1>0, <1>1, <2>1, Forgotten DEF PlannedStored
  <1>16. PanelRowsStored'
    <2>1. SUFFICES ASSUME NEW r \in panel' PROVE stored'[r.article] = r.ticker
      BY DEF PanelRowsStored
    <2>2. r \in Row
      BY <1>8 DEF Tables
    <2>3. r.article \in Articles /\ r.ticker # Nobody
      BY <2>2, RowFields
    <2>4. CASE r \in panel
      BY <1>0, <1>5, <2>3, <2>4 DEF PanelRowsStored
    <2>5. CASE r \in inserted[w]
      BY <1>0, <1>4, <1>5, <2>3, <2>5 DEF PlannedStored
    <2> QED
      BY <1>1, <2>4, <2>5
  <1> QED
    BY <1>2, <1>8, <1>9, <1>11, <1>12, <1>13, <1>14, <1>15, <1>16 DEF NInv

LEMMA InitInv ==
  ASSUME NewsAssumption, EarlierAssumption, Init PROVE NInv
  <1>1. /\ stored \in [Articles -> Tickers \cup {Nobody}]
        /\ \A t \in Tickers : StoredFor(t) \in SUBSET Articles
        /\ \A w \in Writers :
             /\ pc[w] = "fetch" /\ current[w] = Nobody
             /\ todo[w] = {} /\ queue[w] = {} /\ picked[w] = {} /\ victims[w] = {}
             /\ locked[w] = {} /\ added[w] = {} /\ deleted[w] = {} /\ inserted[w] = {}
    BY DEF Init, StoredFor
  <1>2. panel = UNION {Newest(StoredFor(t), t, "before") : t \in Tickers}
    BY DEF Init
  <1>3. ASSUME NEW t \in Tickers
        PROVE  /\ Newest(StoredFor(t), t, "before") \subseteq Row
               /\ \A r \in Newest(StoredFor(t), t, "before") :
                    r.ticker = t /\ r.by = "before" /\ r.article \in StoredFor(t)
               /\ Listing(Newest(StoredFor(t), t, "before"))
    <2>1. StoredFor(t) \in SUBSET Articles
      BY <1>1
    <2>2. PICK S \in SUBSET Articles, b \in Writers \cup {"before"} : S = StoredFor(t) /\ b = "before"
      BY <2>1
    <2>3. /\ Newest(S, t, b) \subseteq Row
          /\ \A r \in Newest(S, t, b) : r.ticker = t /\ r.by = b /\ r.article \in S
      BY NewestRows
    <2>4. Listing(Newest(S, t, b))
      BY NewestListing
    <2> QED
      BY <2>2, <2>3, <2>4
  <1>4. ASSUME NEW t \in Tickers PROVE PanelOf(t) = Newest(StoredFor(t), t, "before")
    BY <1>2, <1>3 DEF PanelOf
  <1>5. panel \subseteq Row /\ \A r \in panel : r.by = "before" /\ stored[r.article] = r.ticker
    <2>1. SUFFICES ASSUME NEW r \in panel
                   PROVE  r \in Row /\ r.by = "before" /\ stored[r.article] = r.ticker
      OBVIOUS
    <2>2. PICK t \in Tickers : r \in Newest(StoredFor(t), t, "before")
      BY <1>2
    <2> QED
      BY <1>3, <2>2 DEF StoredFor
  <1>6. Tables
    BY <1>1, <1>5 DEF Init, Tables, PC
  <1>7. IdleEmpty /\ DeletedWhole /\ InsertedAlone /\ ArticlesLocked /\ PlannedStored
    BY <1>1 DEF IdleEmpty, DeletedWhole, InsertedAlone, Own, ArticlesLocked, PlannedStored
  <1>8. Plans
    <2>1. \A w \in Writers, t \in Tickers : Planned(w, t) = {}
      BY <1>1 DEF Planned
    <2> QED
      BY <1>1, <2>1 DEF Plans, PlanOf, Listing
  <1>9. PanelsListed
    BY <1>3, <1>4 DEF PanelsListed
  <1>10. Signed
    BY <1>1, <1>5 DEF Signed, EarlierAssumption
  <1> QED
    BY <1>5, <1>6, <1>7, <1>8, <1>9, <1>10 DEF NInv, PanelRowsStored

LEMMA NextInv ==
  ASSUME NewsAssumption, NInv, [Next]_vars PROVE NInv'
  <1>1. CASE UNCHANGED vars
    <2>0. /\ Tables /\ IdleEmpty /\ Plans /\ Signed /\ DeletedWhole /\ InsertedAlone
          /\ PanelsListed /\ ArticlesLocked /\ PlannedStored /\ PanelRowsStored
      BY DEF NInv
    <2>1. UNCHANGED <<stored, panel, locked, added, deleted, inserted,
                      pc, todo, queue, current, picked, victims>>
      BY <1>1 DEF vars, database, uncommitted
    <2>2. Tables'
      BY <2>0, <2>1 DEF Tables
    <2>3. IdleEmpty'
      BY <2>0, <2>1 DEF IdleEmpty, InFlight
    <2>4. Plans'
      BY <2>0, <2>1, SamePlan DEF Plans
    <2>5. Signed'
      BY <2>0, <2>1 DEF Signed
    <2>6. DeletedWhole' /\ InsertedAlone' /\ ArticlesLocked' /\ PanelsListed' /\ PanelRowsStored'
      BY <2>0, <2>1, StillWhole, StillAlone, StillLocked, StillShown DEF database
    <2>7. PlannedStored'
      BY <2>0, <2>1 DEF PlannedStored
    <2> QED
      BY <2>2, <2>3, <2>4, <2>5, <2>6, <2>7 DEF NInv
  <1>2. ASSUME NEW w \in Writers, Statement(w) \/ Killed(w) PROVE NInv'
    <2>1. \/ Fetch(w) \/ Upsert(w) \/ Select(w) \/ DeleteFinds(w) \/ Delete(w)
          \/ Insert(w) \/ NextTicker(w) \/ Commit(w) \/ Abort(w)
      BY <1>2 DEF Statement, UniqueViolation, DeadlockDetected, Killed
    <2> QED
      BY <2>1, FetchInv, UpsertInv, SelectInv, DeleteFindsInv, DeleteInv, InsertInv, NextTickerInv,
        CommitInv, AbortInv
  <1> QED
    BY <1>1, <1>2 DEF Next

LEMMA Invariant == Spec => []NInv
  <1>1. Init => NInv
    BY InitInv, NewsAssumption, EarlierAssumption
  <1>2. NInv /\ [Next]_vars => NInv'
    BY NextInv, NewsAssumption
  <1> QED
    BY <1>1, <1>2, PTL DEF Spec

------------------------------------------------------------------------------
(* The variables of a news load keep their types, and no transaction ever  *)
(* plans a rank beyond the ten the CHECK of StockRecentNews allows,        *)
(* whatever the others delete and insert beside it.                        *)
THEOREM TypeCorrect == Spec => []TypeOK
  <1>1. NInv => TypeOK
    <2> SUFFICES ASSUME NInv PROVE TypeOK
      OBVIOUS
    <2>1. Tables /\ ArticlesLocked
      BY DEF NInv
    <2> QED
      BY <2>1 DEF Tables, ArticlesLocked, TypeOK
  <1> QED
    BY <1>1, Invariant, PTL

(* A reader never sees a panel mixed from two refreshes, however many      *)
(* pipelines and live refreshes rewrite it at once and whichever of them   *)
(* are rolled back (refresh_recent_news).                                  *)
THEOREM PanelCorrect == Spec => []PanelFromOneRefresh
  <1>1. NInv => PanelFromOneRefresh
    <2> SUFFICES ASSUME NInv PROVE PanelFromOneRefresh
      OBVIOUS
    <2>1. SUFFICES ASSUME NEW t \in Tickers
          PROVE  /\ \A r, s \in PanelOf(t) : r.by = s.by /\ (r.rank < s.rank => r.article > s.article)
                 /\ {r.rank : r \in PanelOf(t)} = 1..Cardinality(PanelOf(t))
      BY DEF PanelFromOneRefresh
    <2>2. PanelOf(t) \subseteq Row /\ Listing(PanelOf(t))
      BY DEF NInv, Tables, PanelsListed, PanelOf
    <2>3. {r.rank : r \in PanelOf(t)} = 1..Cardinality(PanelOf(t))
      BY <2>2, ListingNumbered, NewsAssumption
    <2> QED
      BY <2>2, <2>3 DEF Listing
  <1> QED
    BY <1>1, Invariant, PTL

(* A headline shown for a stock is stored for that stock, also when two    *)
(* loads bring the same headline in under two tickers (upsert_news_articles *)
(* leaves the ticker of a stored article alone).                           *)
THEOREM PanelStored == Spec => []PanelRowsStored
  <1>1. NInv => PanelRowsStored
    BY DEF NInv
  <1> QED
    BY <1>1, Invariant, PTL
==============================================================================
