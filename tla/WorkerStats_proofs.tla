-------------------------- MODULE WorkerStats_proofs --------------------------
(***************************************************************************)
(* Proofs about WorkerStats, for any lcores, any number of workers and any *)
(* sizes: every queue and every lcore has exactly one worker, and the      *)
(* report of a run is exact.                                               *)
(***************************************************************************)
EXTENDS WorkerStats, FiniteSetTheorems, WellFoundedInduction, TLAPS

USE DEF QueueOf, Joined

-----------------------------------------------------------------------------
(* Induction over the natural numbers, as a statement about sets *)

LEMMA LessThanWellFounded == IsWellFoundedOn({ss \in Nat \X Nat : ss[1] < ss[2]}, Nat)
BY NatLessThanWellFounded DEF OpToRel

LEMMA SetInduction ==
  ASSUME NEW T, 0 \in T, \A n \in Nat : n \in T => n + 1 \in T
  PROVE  Nat \subseteq T
<1> SUFFICES ASSUME Nat \ T # {} PROVE FALSE
  OBVIOUS
<1> DEFINE U == Nat \ T
           R == {ss \in Nat \X Nat : ss[1] < ss[2]}
<1>1. PICK n \in U : \A m \in U : ~ (<<m, n>> \in R)
  <2> HIDE DEF R
  <2>1. IsWellFoundedOn(R, Nat)
    BY LessThanWellFounded DEF R
  <2>2. QED
    BY <2>1, WFMin
<1>2. n \in Nat /\ n # 0 /\ n \notin T
  BY <1>1
<1>3. n - 1 \in Nat /\ n - 1 < n /\ (n - 1) + 1 = n
  BY <1>2
<1>4. <<n - 1, n>> \in R
  BY <1>2, <1>3
<1>5. n - 1 \in T
  BY <1>1, <1>3, <1>4
<1>6. QED
  BY <1>2, <1>3, <1>5

-----------------------------------------------------------------------------
(* setup_workers gives every enabled lcore to one worker. *)

LEMMA EnabledFinite ==
  ASSUME enabled \subseteq LcoreIds
  PROVE  enabled \subseteq Nat /\ IsFiniteSet(enabled)
BY FS_Subset, StatsAssumption

(* The number of smaller lcores ranks the lcores other than the main one. *)
LEMMA RankLcores ==
  ASSUME NEW S, S \subseteq Nat, IsFiniteSet(S), NEW n \in Nat, Cardinality(S) = n
  PROVE  \A w \in 1 .. n : \E l \in S :
           /\ Cardinality({k \in S : k < l}) = w - 1
           /\ \A m \in S : Cardinality({k \in S : k < m}) = w - 1 => m = l
<1> DEFINE below(l) == {k \in S : k < l}
           rank == [l \in S |-> Cardinality(below(l))]
<1>1. \A l \in S : IsFiniteSet(below(l)) /\ Cardinality(below(l)) \in Nat
  BY FS_Subset, FS_CardinalityType
<1>2. ASSUME NEW l \in S PROVE rank[l] \in 0 .. n - 1
  <2>1. below(l) \in SUBSET (S \ {l})
    OBVIOUS
  <2>2. IsFiniteSet(S \ {l}) /\ Cardinality(S \ {l}) = n - 1
    BY FS_RemoveElement
  <2>3. Cardinality(below(l)) <= n - 1
    BY <2>1, <2>2, FS_Subset
  <2>4. QED
    BY <1>1, <2>3
<1>3. ASSUME NEW l \in S, NEW m \in S, l < m PROVE rank[l] < rank[m]
  <2>1. below(l) \cup {l} \in SUBSET below(m)
    <3>1. l \in Nat /\ m \in Nat /\ \A k \in S : k \in Nat
      OBVIOUS
    <3>2. \A k \in S : k < l => k < m
      BY <1>3, <3>1
    <3>3. QED
      BY <1>3, <3>2
  <2>2. Cardinality(below(l) \cup {l}) = Cardinality(below(l)) + 1
    <3>1. l \notin below(l)
      OBVIOUS
    <3> HIDE DEF below
    <3>2. QED
      BY <1>1, <3>1, FS_AddElement
  <2>3. Cardinality(below(l) \cup {l}) <= Cardinality(below(m))
    <3> HIDE DEF below
    <3>1. QED
      BY <1>1, <2>1, FS_Subset
  <2>4. QED
    BY <1>1, <2>2, <2>3
<1>4. rank \in Injection(S, 0 .. n - 1)
  <2>1. rank \in [S -> 0 .. n - 1]
    BY <1>2
  <2>2. \A l, m \in S : rank[l] = rank[m] => l = m
    <3> SUFFICES ASSUME NEW l \in S, NEW m \in S, rank[l] = rank[m], l # m PROVE FALSE
      OBVIOUS
    <3>1. l < m \/ m < l
      OBVIOUS
    <3>2. rank[l] \in Nat /\ rank[m] \in Nat
      BY <1>2
    <3> HIDE DEF rank
    <3>3. QED
      BY <1>3, <3>1, <3>2
  <2> HIDE DEF rank
  <2>3. QED
    BY <2>1, <2>2 DEF Injection, IsInjective
<1>5. rank \in Surjection(S, 0 .. n - 1)
  <2>1. IsFiniteSet(0 .. n - 1) /\ Cardinality(0 .. n - 1) = n
    <3>1. 0 \in Int /\ n - 1 \in Int
      OBVIOUS
    <3>2. /\ IsFiniteSet(0 .. n - 1)
          /\ Cardinality(0 .. n - 1) = IF 0 > n - 1 THEN 0 ELSE (n - 1) - 0 + 1
      BY <3>1, FS_Interval
    <3>3. (IF 0 > n - 1 THEN 0 ELSE (n - 1) - 0 + 1) = n
      OBVIOUS
    <3>4. QED
      BY <3>2, <3>3
  <2> HIDE DEF rank
  <2>2. QED
    BY <1>4, <2>1, FS_Injection
<1>6. \A w \in 1 .. n : \E l \in S : rank[l] = w - 1
  <2>1. \A w \in 1 .. n : w - 1 \in 0 .. n - 1
    OBVIOUS
  <2> HIDE DEF rank
  <2>2. QED
    BY <1>5, <2>1 DEF Surjection
<1>7. \A l, m \in S : rank[l] = rank[m] => l = m
  <2> HIDE DEF rank
  <2>1. QED
    BY <1>4 DEF Injection, IsInjective
<1>8. \A l \in S : rank[l] = Cardinality({k \in S : k < l})
  OBVIOUS
<1> HIDE DEF rank
<1>9. QED
  BY <1>6, <1>7, <1>8

(* The lcores of the workers 0 .. count - 1 are the enabled ones, each once. *)
LEMMA LcoresAssigned ==
  ASSUME enabled \subseteq LcoreIds, main \in enabled,
         NEW count \in Nat, Cardinality(enabled) = count
  PROVE  {LcoreOf(w) : w \in 0 .. count - 1} = enabled
<1> DEFINE S == enabled \ {main}
<1>1. S \subseteq Nat /\ IsFiniteSet(S) /\ Cardinality(S) = count - 1
  BY EnabledFinite, FS_RemoveElement
<1>2. count - 1 \in Nat
  BY <1>1, FS_CardinalityType
<1>3. \A w \in 1 .. count - 1 : \E l \in S :
        /\ Cardinality({k \in S : k < l}) = w - 1
        /\ \A m \in S : Cardinality({k \in S : k < m}) = w - 1 => m = l
  <2> HIDE DEF S
  <2>1. QED
    BY <1>1, <1>2, RankLcores
<1>4. ASSUME NEW w \in 1 .. count - 1
      PROVE  /\ LcoreOf(w) \in S
             /\ Cardinality({k \in S : k < LcoreOf(w)}) = w - 1
  <2>1. LcoreOf(w) = CHOOSE l \in S : Cardinality({k \in S : k < l}) = w - 1
    <3>1. w # 0
      OBVIOUS
    <3>2. QED
      BY <3>1, Zenon DEF LcoreOf
  <2> HIDE DEF S
  <2>2. \E l \in S : Cardinality({k \in S : k < l}) = w - 1
    BY <1>3
  <2>3. QED
    BY <2>1, <2>2
<1>5. LcoreOf(0) = main /\ 0 \in 0 .. count - 1
  BY <1>2 DEF LcoreOf
<1>6. ASSUME NEW l \in S PROVE \E w \in 0 .. count - 1 : l = LcoreOf(w)
  <2> DEFINE r == Cardinality({k \in S : k < l})
  <2>1. r \in 0 .. count - 2
    <3>1. {k \in S : k < l} \in SUBSET (S \ {l}) /\ IsFiniteSet(S \ {l})
          /\ Cardinality(S \ {l}) = count - 2
      BY <1>1, FS_RemoveElement
    <3>2. /\ IsFiniteSet({k \in S : k < l})
          /\ Cardinality({k \in S : k < l}) <= count - 2
      BY <3>1, FS_Subset
    <3>3. Cardinality({k \in S : k < l}) \in Nat
      BY <3>2, FS_CardinalityType
    <3>4. QED
      BY <3>2, <3>3
  <2>2. r + 1 \in 1 .. count - 1 /\ r + 1 \in 0 .. count - 1 /\ (r + 1) - 1 = r
    BY <2>1
  <2>3. LcoreOf(r + 1) \in S /\ Cardinality({k \in S : k < LcoreOf(r + 1)}) = r
    BY <1>4, <2>2
  <2>4. \A x, y \in S : Cardinality({k \in S : k < x}) = r /\ Cardinality({k \in S : k < y}) = r
                          => x = y
    <3> HIDE DEF S, r
    <3>1. QED
      BY <1>3, <2>2
  <2>5. LcoreOf(r + 1) = l
    <3>1. Cardinality({k \in S : k < l}) = r
      OBVIOUS
    <3> HIDE DEF S, r
    <3>2. QED
      BY <2>3, <2>4, <3>1, <1>6
  <2>6. QED
    BY <2>2, <2>5
<1>7. \A w \in 0 .. count - 1 : LcoreOf(w) \in enabled
  <2>1. \A w \in 0 .. count - 1 : w = 0 \/ w \in 1 .. count - 1
    OBVIOUS
  <2>2. QED
    BY <1>4, <1>5, <2>1
<1>8. \A l \in enabled : \E w \in 0 .. count - 1 : l = LcoreOf(w)
  BY <1>5, <1>6
<1>9. QED
  BY <1>7, <1>8
-----------------------------------------------------------------------------
(* Adding up the contexts of the workers *)

CounterValues == [Counters -> Nat]

(* The contexts of n workers *)
Contexts(n) == [0 .. n - 1 -> CounterValues]

(* f is the table of the sums over the first workers of local. *)
SumsOf(f, local, n) ==
  f = [k \in 0 .. n |-> IF k = 0 THEN Zero
                        ELSE dp_packet_stats_add(f[k - 1], local[k - 1])]

LEMMA SumsExist ==
  ASSUME NEW local
  PROVE  \A n \in Nat : \E f : SumsOf(f, local, n)
<1> DEFINE T == {n \in Nat : \E f : SumsOf(f, local, n)}
<1>1. 0 \in T
  <2> DEFINE f == [k \in 0 .. 0 |-> Zero]
  <2>1. f = [k \in 0 .. 0 |-> IF k = 0 THEN Zero
                              ELSE dp_packet_stats_add(f[k - 1], local[k - 1])]
    OBVIOUS
  <2>2. SumsOf(f, local, 0)
    BY <2>1 DEF SumsOf
  <2>3. QED
    BY <2>2
<1>2. ASSUME NEW n \in Nat, n \in T PROVE n + 1 \in T
  <2>1. PICK f : SumsOf(f, local, n)
    BY <1>2
  <2> DEFINE g == [k \in 0 .. n + 1 |-> IF k = n + 1 THEN dp_packet_stats_add(f[n], local[n])
                                        ELSE f[k]]
             h == [k \in 0 .. n + 1 |-> IF k = 0 THEN Zero
                                        ELSE dp_packet_stats_add(g[k - 1], local[k - 1])]
  <2>2. \A k \in 0 .. n : f[k] = IF k = 0 THEN Zero
                                 ELSE dp_packet_stats_add(f[k - 1], local[k - 1])
    BY <2>1 DEF SumsOf
  <2>3. ASSUME NEW k \in 0 .. n + 1 PROVE g[k] = h[k]
    <3>1. CASE k = n + 1
      <4>1. n \in 0 .. n + 1 /\ k # 0 /\ k - 1 = n /\ n # n + 1
        BY <3>1
      <4>2. g[n] = f[n]
        BY <4>1
      <4>3. QED
        BY <3>1, <4>1, <4>2
    <3>2. CASE k # n + 1
      <4>1. k \in 0 .. n /\ g[k] = f[k]
        BY <3>2
      <4>2. CASE k = 0
        BY <2>2, <4>1, <4>2
      <4>3. CASE k # 0
        <5>1. k - 1 \in 0 .. n + 1 /\ k - 1 # n + 1
          BY <4>1, <4>3
        <5>2. g[k - 1] = f[k - 1]
          BY <5>1
        <5>3. QED
          BY <2>2, <4>1, <4>3, <5>2
      <4>4. QED
        BY <4>2, <4>3
    <3>3. QED
      BY <3>1, <3>2
  <2>4. g = h
    BY <2>3
  <2> HIDE DEF g
  <2>5. SumsOf(g, local, n + 1)
    BY <2>4 DEF SumsOf
  <2>6. QED
    BY <2>5
<1>3. Nat \subseteq T
  <2> HIDE DEF T
  <2>1. QED
    BY <1>1, <1>2, SetInduction
<1>4. QED
  BY <1>3

LEMMA TotalSums == SumsOf(Total, stats, MaxWorkers)
<1>1. \E f : SumsOf(f, stats, MaxWorkers)
  BY SumsExist, StatsAssumption
<1>2. Total = CHOOSE f : SumsOf(f, stats, MaxWorkers)
  BY DEF Total, SumsOf
<1>3. QED
  BY <1>1, <1>2

LEMMA TotalSumsNext == SumsOf(Total', stats', MaxWorkers)
<1>1. \E f : SumsOf(f, stats', MaxWorkers)
  BY SumsExist, StatsAssumption
<1>2. Total' = CHOOSE f : SumsOf(f, stats', MaxWorkers)
  BY DEF Total, SumsOf
<1>3. QED
  BY <1>1, <1>2

(* The sums, worker by worker *)
LEMMA SumSteps ==
  ASSUME NEW n \in Nat, NEW f, NEW local, SumsOf(f, local, n)
  PROVE  /\ f[0] = Zero
         /\ \A k \in 0 .. n - 1 :
              f[k + 1] = [c \in Counters |-> f[k][c] + local[k][c]]
<1>1. \A k \in 0 .. n : f[k] = IF k = 0 THEN Zero
                               ELSE dp_packet_stats_add(f[k - 1], local[k - 1])
  BY DEF SumsOf
<1>2. ASSUME NEW k \in 0 .. n - 1
      PROVE  f[k + 1] = dp_packet_stats_add(f[k], local[k])
  <2>1. k + 1 \in 0 .. n /\ k + 1 # 0 /\ (k + 1) - 1 = k
    OBVIOUS
  <2>2. QED
    BY <1>1, <2>1
<1>3. f[0] = Zero
  <2>1. 0 \in 0 .. n
    OBVIOUS
  <2>2. QED
    BY <1>1, <2>1
<1>4. QED
  BY <1>2, <1>3 DEF dp_packet_stats_add

LEMMA BoundedInduction ==
  ASSUME NEW n \in Nat, NEW T, 0 \in T, \A k \in 0 .. n - 1 : k \in T => k + 1 \in T
  PROVE  0 .. n \subseteq T
<1> DEFINE U == {k \in Nat : k <= n => k \in T}
<1>1. 0 \in U
  OBVIOUS
<1>2. \A k \in Nat : k \in U => k + 1 \in U
  <2> SUFFICES ASSUME NEW k \in Nat, k \in U, k + 1 <= n PROVE k + 1 \in T
    OBVIOUS
  <2>1. k \in 0 .. n - 1 /\ k <= n
    OBVIOUS
  <2>2. QED
    BY <2>1
<1>3. Nat \subseteq U
  <2> HIDE DEF U
  <2>1. QED
    BY <1>1, <1>2, SetInduction
<1>4. QED
  BY <1>3

LEMMA SumTypes ==
  ASSUME NEW n \in Nat, NEW f, NEW local \in Contexts(n), SumsOf(f, local, n)
  PROVE  \A k \in 0 .. n : f[k] \in CounterValues
<1> DEFINE T == {k \in 0 .. n : f[k] \in CounterValues}
<1>1. 0 \in T
  <2>1. Zero \in CounterValues
    BY DEF Zero, CounterValues
  <2>2. QED
    BY <2>1, SumSteps
<1>2. ASSUME NEW k \in 0 .. n - 1, k \in T PROVE k + 1 \in T
  <2>1. f[k] \in CounterValues /\ local[k] \in CounterValues /\ k + 1 \in 0 .. n
    BY <1>2 DEF Contexts
  <2>2. f[k + 1] = [c \in Counters |-> f[k][c] + local[k][c]]
    BY SumSteps
  <2>3. \A c \in Counters : f[k][c] + local[k][c] \in Nat
    BY <2>1 DEF CounterValues
  <2>4. QED
    BY <2>1, <2>2, <2>3 DEF CounterValues
<1>3. 0 .. n \subseteq T
  <2> HIDE DEF T
  <2>1. QED
    BY <1>1, <1>2, BoundedInduction
<1>4. QED
  BY <1>3

(* A counter of one worker grows: so do the sums that include the worker. *)
LEMMA SumChange ==
  ASSUME NEW n \in Nat, NEW f, NEW local \in Contexts(n), SumsOf(f, local, n),
         NEW g, NEW changed \in Contexts(n), SumsOf(g, changed, n),
         NEW c \in Counters, NEW d \in Nat, NEW w \in 0 .. n - 1,
         changed[w][c] = local[w][c] + d,
         \A v \in 0 .. n - 1 : v # w => changed[v][c] = local[v][c]
  PROVE  g[n][c] = f[n][c] + d
<1> DEFINE T == {k \in 0 .. n : g[k][c] = f[k][c] + IF w < k THEN d ELSE 0}
<1>1. 0 \in T
  <2>1. f[0][c] = 0 /\ g[0][c] = 0
    BY SumSteps DEF Zero
  <2>2. QED
    BY <2>1
<1>2. ASSUME NEW k \in 0 .. n - 1, k \in T PROVE k + 1 \in T
  <2>1. k \in 0 .. n /\ k + 1 \in 0 .. n
    OBVIOUS
  <2>2. f[k][c] \in Nat /\ g[k][c] \in Nat /\ local[k][c] \in Nat /\ changed[k][c] \in Nat
    <3>1. f[k] \in CounterValues
      BY <2>1, SumTypes
    <3>2. g[k] \in CounterValues
      BY <2>1, SumTypes
    <3>3. local[k] \in CounterValues /\ changed[k] \in CounterValues
      BY DEF Contexts
    <3>4. QED
      BY <3>1, <3>2, <3>3 DEF CounterValues
  <2>3. f[k + 1][c] = f[k][c] + local[k][c] /\ g[k + 1][c] = g[k][c] + changed[k][c]
    <3>1. f[k + 1] = [e \in Counters |-> f[k][e] + local[k][e]]
      BY SumSteps
    <3>2. g[k + 1] = [e \in Counters |-> g[k][e] + changed[k][e]]
      BY SumSteps
    <3>3. QED
      BY <3>1, <3>2
  <2>4. g[k][c] = f[k][c] + IF w < k THEN d ELSE 0
    BY <1>2
  <2>5. changed[k][c] = local[k][c] + IF w = k THEN d ELSE 0
    BY <2>2
  <2>6. g[k + 1][c] = f[k + 1][c] + IF w < k + 1 THEN d ELSE 0
    BY <2>2, <2>3, <2>4, <2>5
  <2>7. QED
    BY <2>1, <2>6
<1>3. 0 .. n \subseteq T
  <2> HIDE DEF T
  <2>1. QED
    BY <1>1, <1>2, BoundedInduction
<1>4. n \in T /\ w < n
  BY <1>3
<1>5. QED
  BY <1>4

(* Workers that have not counted anything do not change the sums. *)
LEMMA SumTail ==
  ASSUME NEW n \in Nat, NEW f, NEW local \in Contexts(n), SumsOf(f, local, n),
         NEW m \in 0 .. n, \A v \in 0 .. n - 1 : v >= m => local[v] = Zero
  PROVE  f[n] = f[m]
<1> DEFINE T == {k \in 0 .. n : k >= m => f[k] = f[m]}
<1>1. 0 \in T
  <2>1. 0 >= m => m = 0
    OBVIOUS
  <2>2. QED
    BY <2>1
<1>2. ASSUME NEW k \in 0 .. n - 1, k \in T PROVE k + 1 \in T
  <2>1. k \in 0 .. n /\ k + 1 \in 0 .. n
    OBVIOUS
  <2>2. CASE k >= m
    <3>1. f[k] = f[m] /\ local[k] = Zero
      BY <1>2, <2>2
    <3>2. f[k + 1] = [c \in Counters |-> f[k][c] + local[k][c]]
      BY SumSteps
    <3>3. f[k] \in CounterValues
      BY <2>1, SumTypes
    <3>4. \A c \in Counters : f[k][c] + local[k][c] = f[k][c]
      BY <3>1, <3>3 DEF CounterValues, Zero
    <3>5. f[k + 1] = [c \in Counters |-> f[k][c]]
      BY <3>2, <3>4
    <3>6. f[k + 1] = f[k]
      BY <3>3, <3>5 DEF CounterValues
    <3>7. QED
      BY <2>1, <3>1, <3>6
  <2>3. CASE k < m
    <3>1. k + 1 >= m => k + 1 = m
      BY <2>3
    <3>2. QED
      BY <2>1, <3>1
  <2>4. QED
    BY <2>2, <2>3
<1>3. 0 .. n \subseteq T
  <2> HIDE DEF T
  <2>1. QED
    BY <1>1, <1>2, BoundedInduction
<1>4. n \in T /\ n >= m
  BY <1>3
<1>5. QED
  BY <1>4

(* The relations between the counters of a worker with b packets of a burst *)
(* still to process and t packets kept for TX                               *)
Balanced(s, b, t) ==
  /\ s["rx"] = s["parse_ok"] + s["parse_unsupported"] + s["parse_malformed"] + b
  /\ s["parse_ok"] = s["flow_hit"] + s["route_hit"] + s["lookup_miss"]
  /\ s["parse_ok"] = s["action_drop"] + s["action_forward"] + s["action_rewrite"]
  /\ s["action_forward"] + s["action_rewrite"] = s["tx_accepted"] + s["tx_unsent"] + t
  /\ s["drop"] = s["parse_unsupported"] + s["parse_malformed"] + s["action_drop"]
                 + s["tx_unsent"]

LEMMA BalancedAdd ==
  ASSUME NEW s \in CounterValues, NEW u \in CounterValues, Balanced(s, 0, 0), Balanced(u, 0, 0)
  PROVE  Balanced([c \in Counters |-> s[c] + u[c]], 0, 0)
<1> DEFINE z == [c \in Counters |-> s[c] + u[c]]
<1>1. \A c \in Counters : z[c] = s[c] + u[c] /\ s[c] \in Nat /\ u[c] \in Nat
  BY DEF CounterValues
<1> HIDE DEF z
<1>2. z["rx"] = z["parse_ok"] + z["parse_unsupported"] + z["parse_malformed"] + 0
  <2>1. {"rx", "parse_ok", "parse_unsupported", "parse_malformed"} \subseteq Counters
    BY DEF Counters
  <2>2. /\ s["rx"] = s["parse_ok"] + s["parse_unsupported"] + s["parse_malformed"] + 0
        /\ u["rx"] = u["parse_ok"] + u["parse_unsupported"] + u["parse_malformed"] + 0
    BY DEF Balanced
  <2>3. QED
    BY <1>1, <2>1, <2>2
<1>3. z["parse_ok"] = z["flow_hit"] + z["route_hit"] + z["lookup_miss"]
  <2>1. {"parse_ok", "flow_hit", "route_hit", "lookup_miss"} \subseteq Counters
    BY DEF Counters
  <2>2. /\ s["parse_ok"] = s["flow_hit"] + s["route_hit"] + s["lookup_miss"]
        /\ u["parse_ok"] = u["flow_hit"] + u["route_hit"] + u["lookup_miss"]
    BY DEF Balanced
  <2>3. QED
    BY <1>1, <2>1, <2>2
<1>4. z["parse_ok"] = z["action_drop"] + z["action_forward"] + z["action_rewrite"]
  <2>1. {"parse_ok", "action_drop", "action_forward", "action_rewrite"} \subseteq Counters
    BY DEF Counters
  <2>2. /\ s["parse_ok"] = s["action_drop"] + s["action_forward"] + s["action_rewrite"]
        /\ u["parse_ok"] = u["action_drop"] + u["action_forward"] + u["action_rewrite"]
    BY DEF Balanced
  <2>3. QED
    BY <1>1, <2>1, <2>2
<1>5. z["action_forward"] + z["action_rewrite"] = z["tx_accepted"] + z["tx_unsent"] + 0
  <2>1. {"action_forward", "action_rewrite", "tx_accepted", "tx_unsent"} \subseteq Counters
    BY DEF Counters
  <2>2. /\ s["action_forward"] + s["action_rewrite"] = s["tx_accepted"] + s["tx_unsent"] + 0
        /\ u["action_forward"] + u["action_rewrite"] = u["tx_accepted"] + u["tx_unsent"] + 0
    BY DEF Balanced
  <2>3. QED
    BY <1>1, <2>1, <2>2
<1>6. z["drop"] = z["parse_unsupported"] + z["parse_malformed"] + z["action_drop"]
           + z["tx_unsent"]
  <2>1. {"drop", "parse_unsupported", "parse_malformed", "action_drop", "tx_unsent"}
          \subseteq Counters
    BY DEF Counters
  <2>2. /\ s["drop"] = s["parse_unsupported"] + s["parse_malformed"] + s["action_drop"]
           + s["tx_unsent"]
        /\ u["drop"] = u["parse_unsupported"] + u["parse_malformed"] + u["action_drop"]
           + u["tx_unsent"]
    BY DEF Balanced
  <2>3. QED
    BY <1>1, <2>1, <2>2
<1>7. Balanced(z, 0, 0)
  BY <1>2, <1>3, <1>4, <1>5, <1>6 DEF Balanced
<1>8. QED
  BY <1>7 DEF z

LEMMA SumBalanced ==
  ASSUME NEW n \in Nat, NEW f, NEW local \in Contexts(n), SumsOf(f, local, n),
         \A v \in 0 .. n - 1 : Balanced(local[v], 0, 0)
  PROVE  \A k \in 0 .. n : Balanced(f[k], 0, 0)
<1> DEFINE T == {k \in 0 .. n : Balanced(f[k], 0, 0)}
<1>1. 0 \in T
  <2>1. Balanced(Zero, 0, 0)
    BY DEF Balanced, Zero, Counters
  <2>2. QED
    BY <2>1, SumSteps
<1>2. ASSUME NEW k \in 0 .. n - 1, k \in T PROVE k + 1 \in T
  <2>1. k \in 0 .. n /\ k + 1 \in 0 .. n /\ Balanced(f[k], 0, 0) /\ Balanced(local[k], 0, 0)
    BY <1>2
  <2>2. f[k + 1] = [c \in Counters |-> f[k][c] + local[k][c]]
    BY SumSteps
  <2>3. f[k] \in CounterValues /\ local[k] \in CounterValues
    BY <2>1, SumTypes DEF Contexts
  <2>4. Balanced(f[k + 1], 0, 0)
    BY <2>1, <2>2, <2>3, BalancedAdd
  <2>5. QED
    BY <2>1, <2>4
<1>3. 0 .. n \subseteq T
  <2> HIDE DEF T
  <2>1. QED
    BY <1>1, <1>2, BoundedInduction
<1>4. QED
  BY <1>3

-----------------------------------------------------------------------------
(* The inductive invariant *)

StatsTypeOK ==
  /\ pc \in {"setup", "run", "launch", "main", "join", "stopped", "reported"}
  /\ enabled \subseteq LcoreIds /\ main \in enabled
  /\ worker_count \in 0 .. MaxWorkers /\ next \in Nat /\ launched \in Nat
  /\ wpc \in [WorkerIds -> {"idle", "register", "poll", "process", "done"}]
  /\ burst \in [WorkerIds -> Nat] /\ tx_count \in [WorkerIds -> Nat]
  /\ stats \in [WorkerIds -> CounterValues]
  /\ wire \in [rx : Nat, tx : Nat]

(* Which workers dp_dataplane_run has started and still has to join *)
LaunchInv ==
  /\ \A w \in WorkerIds : wpc[w] # "idle" => w < worker_count
  /\ pc \in {"setup", "run"} => /\ next = 1 /\ launched = 0
                                /\ \A w \in WorkerIds : wpc[w] = "idle"
  /\ pc = "launch" => next = launched + 1 /\ next >= 1
                      /\ \A w \in WorkerIds : Running(w) => 1 <= w /\ w <= launched
  /\ pc = "main" => \A w \in WorkerIds : Running(w) => w <= launched
  /\ pc = "join" => \A w \in WorkerIds : Running(w) => next <= w /\ w <= launched
  /\ pc \in {"stopped", "reported"} => \A w \in WorkerIds : ~ Running(w)

(* The counters of every worker, in the middle of a burst too *)
CountInv ==
  \A w \in WorkerIds :
    /\ Balanced(stats[w], burst[w], tx_count[w])
    /\ wpc[w] # "process" => burst[w] = 0 /\ tx_count[w] = 0
    /\ wpc[w] = "idle" => stats[w] = Zero

(* The packets on the wire are the ones the workers have counted. *)
WireInv == /\ wire.rx = Total[MaxWorkers]["rx"]
           /\ wire.tx = Total[MaxWorkers]["tx_accepted"]

ReportInv == pc = "reported" => report = dp_dataplane_get_stats

StatsInv == StatsTypeOK /\ QueuesExclusive /\ LaunchInv /\ CountInv /\ WireInv /\ ReportInv

-----------------------------------------------------------------------------
(* Steps of the workers *)

(* What Add does to the counters *)
LEMMA AddStats ==
  ASSUME stats \in [WorkerIds -> CounterValues], NEW w \in WorkerIds,
         NEW D \in SUBSET Counters, NEW more \in [D -> Nat], Add(w, more)
  PROVE  /\ stats' \in [WorkerIds -> CounterValues]
         /\ \A v \in WorkerIds : v # w => stats'[v] = stats[v]
         /\ \A c \in Counters : stats'[w][c] = IF c \in D THEN stats[w][c] + more[c]
                                               ELSE stats[w][c]
<1> DEFINE new == [c \in Counters |-> IF c \in D THEN stats[w][c] + more[c] ELSE stats[w][c]]
<1>1. DOMAIN more = D
  OBVIOUS
<1>2. stats' = [stats EXCEPT ![w] = new]
  BY <1>1 DEF Add
<1>3. new \in CounterValues
  <2>1. \A c \in Counters : stats[w][c] \in Nat
    BY DEF CounterValues
  <2>2. \A c \in Counters :
          (IF c \in D THEN stats[w][c] + more[c] ELSE stats[w][c]) \in Nat
    BY <2>1
  <2>3. QED
    BY <2>2 DEF CounterValues
<1>4. \A c \in Counters : new[c] = IF c \in D THEN stats[w][c] + more[c] ELSE stats[w][c]
  OBVIOUS
<1> HIDE DEF new
<1>5. QED
  BY <1>2, <1>3, <1>4

(* A worker that counts dr packets received and dt packets sent *)
LEMMA TotalStep ==
  ASSUME stats \in [WorkerIds -> CounterValues], stats' \in [WorkerIds -> CounterValues],
         NEW w \in WorkerIds, \A v \in WorkerIds : v # w => stats'[v] = stats[v],
         NEW c \in Counters, NEW d \in Nat, stats'[w][c] = stats[w][c] + d
  PROVE  Total'[MaxWorkers][c] = Total[MaxWorkers][c] + d
<1>1. MaxWorkers \in Nat
  BY StatsAssumption
<1>2. SumsOf(Total, stats, MaxWorkers)
  BY TotalSums
<1>3. SumsOf(Total', stats', MaxWorkers)
  BY TotalSumsNext
<1>4. \A v \in WorkerIds : v # w => stats'[v][c] = stats[v][c]
  OBVIOUS
<1> DEFINE f == Total
           g == Total'
           local == stats
           changed == stats'
<1>5. /\ local \in Contexts(MaxWorkers) /\ SumsOf(f, local, MaxWorkers)
      /\ changed \in Contexts(MaxWorkers) /\ SumsOf(g, changed, MaxWorkers)
      /\ w \in 0 .. MaxWorkers - 1 /\ changed[w][c] = local[w][c] + d
      /\ \A v \in 0 .. MaxWorkers - 1 : v # w => changed[v][c] = local[v][c]
  BY <1>2, <1>3, <1>4 DEF WorkerIds, Contexts
<1>6. g[MaxWorkers][c] = f[MaxWorkers][c] + d
  <2> HIDE DEF f, g, local, changed
  <2>1. QED
    BY <1>1, <1>5, SumChange
<1>7. QED
  BY <1>6

LEMMA TotalSame ==
  ASSUME UNCHANGED stats
  PROVE  UNCHANGED Total
BY DEF Total

(* What a step of a worker does to its own state and to the wire: its       *)
(* counters stay balanced, and the packets it counts as received or sent    *)
(* are the ones that have crossed the wire.                                 *)
OwnStep(w) ==
  /\ Running(w) /\ wpc'[w] \in {"poll", "process", "done"}
  /\ wpc' \in [WorkerIds -> {"idle", "register", "poll", "process", "done"}]
  /\ burst' \in [WorkerIds -> Nat] /\ tx_count' \in [WorkerIds -> Nat]
  /\ stats' \in [WorkerIds -> CounterValues]
  /\ \A v \in WorkerIds : v # w => /\ wpc'[v] = wpc[v] /\ stats'[v] = stats[v]
                                   /\ burst'[v] = burst[v] /\ tx_count'[v] = tx_count[v]
  /\ Balanced(stats'[w], burst'[w], tx_count'[w])
  /\ wpc'[w] # "process" => burst'[w] = 0 /\ tx_count'[w] = 0
  /\ wire' \in [rx : Nat, tx : Nat]
  /\ wire'.rx >= wire.rx /\ stats'[w]["rx"] = stats[w]["rx"] + (wire'.rx - wire.rx)
  /\ wire'.tx >= wire.tx
  /\ stats'[w]["tx_accepted"] = stats[w]["tx_accepted"] + (wire'.tx - wire.tx)
  /\ UNCHANGED <<setup_vars, pc, next, launched, report>>

LEMMA WorkerKeeps ==
  ASSUME StatsInv, NEW w \in WorkerIds, OwnStep(w)
  PROVE  StatsInv'
<1>1. StatsTypeOK /\ QueuesExclusive /\ LaunchInv /\ CountInv /\ WireInv
  BY DEF StatsInv
<1>2. UNCHANGED <<enabled, main, near, worker_count, workers, pc, next, launched, report>>
  BY DEF OwnStep, setup_vars, eal_vars
<1>3. /\ wpc[w] # "idle" /\ Running(w) /\ wpc'[w] # "idle"
      /\ \A v \in WorkerIds : v # w => wpc'[v] = wpc[v]
  BY DEF OwnStep, Running
<1>4. \A v \in WorkerIds : Running(v)' => Running(v)
  BY <1>3 DEF Running
<1>5. pc \notin {"setup", "run", "stopped", "reported"}
  BY <1>1, <1>3 DEF LaunchInv, Running
<1>6. StatsTypeOK'
  BY <1>1, <1>2 DEF StatsTypeOK, OwnStep
<1>7. QueuesExclusive'
  BY <1>1, <1>2 DEF QueuesExclusive
<1>8. LaunchInv'
  <2>1. \A v \in WorkerIds : wpc'[v] # "idle" => v < worker_count'
    BY <1>1, <1>2, <1>3 DEF LaunchInv
  <2>2. QED
    BY <1>1, <1>2, <1>4, <1>5, <2>1 DEF LaunchInv
<1>9. CountInv'
  <2>1. ASSUME NEW v \in WorkerIds
        PROVE  /\ Balanced(stats'[v], burst'[v], tx_count'[v])
               /\ wpc'[v] # "process" => burst'[v] = 0 /\ tx_count'[v] = 0
               /\ wpc'[v] = "idle" => stats'[v] = Zero
    <3>1. CASE v = w
      BY <1>3, <3>1 DEF OwnStep
    <3>2. CASE v # w
      BY <1>1, <3>2 DEF CountInv, OwnStep
    <3>3. QED
      BY <3>1, <3>2
  <2>2. QED
    BY <2>1 DEF CountInv, Balanced
<1>10. WireInv'
  <2>1. "rx" \in Counters /\ "tx_accepted" \in Counters
    BY DEF Counters
  <2>2. wire.rx \in Nat /\ wire'.rx \in Nat /\ wire.tx \in Nat /\ wire'.tx \in Nat
    BY <1>1, <1>6 DEF StatsTypeOK
  <2>3. wire'.rx - wire.rx \in Nat /\ wire'.tx - wire.tx \in Nat
    BY <2>2 DEF OwnStep
  <2>4. /\ stats \in [WorkerIds -> CounterValues] /\ stats' \in [WorkerIds -> CounterValues]
        /\ \A v \in WorkerIds : v # w => stats'[v] = stats[v]
    BY <1>1 DEF StatsTypeOK, OwnStep
  <2>5. Total'[MaxWorkers]["rx"] = Total[MaxWorkers]["rx"] + (wire'.rx - wire.rx)
    <3>1. stats'[w]["rx"] = stats[w]["rx"] + (wire'.rx - wire.rx)
      BY DEF OwnStep
    <3>2. QED
      BY <2>1, <2>3, <2>4, <3>1, TotalStep
  <2>6. Total'[MaxWorkers]["tx_accepted"]
          = Total[MaxWorkers]["tx_accepted"] + (wire'.tx - wire.tx)
    <3>1. stats'[w]["tx_accepted"] = stats[w]["tx_accepted"] + (wire'.tx - wire.tx)
      BY DEF OwnStep
    <3>2. QED
      BY <2>1, <2>3, <2>4, <3>1, TotalStep
  <2>7. QED
    BY <1>1, <2>2, <2>5, <2>6 DEF WireInv
<1>11. ReportInv'
  BY <1>2, <1>5 DEF ReportInv
<1>12. QED
  BY <1>6, <1>7, <1>8, <1>9, <1>10, <1>11 DEF StatsInv

(* The steps that leave the counters alone *)
LEMMA WorkerIdles ==
  ASSUME StatsInv, NEW w \in WorkerIds, WorkerRegisters(w) \/ WorkerReturns(w)
  PROVE  StatsInv'
<1>1. StatsTypeOK /\ CountInv
  BY DEF StatsInv
<1>2. /\ wpc[w] \in {"register", "poll"}
      /\ \E to \in {"poll", "done"} : wpc' = [wpc EXCEPT ![w] = to]
      /\ UNCHANGED <<burst, tx_count, stats, wire>>
      /\ UNCHANGED <<setup_vars, pc, next, launched, report>>
  BY DEF WorkerRegisters, WorkerReturns, WorkerUnchanged
<1>3. burst[w] = 0 /\ tx_count[w] = 0 /\ Balanced(stats[w], 0, 0)
  BY <1>1, <1>2 DEF CountInv
<1>4. wpc'[w] \in {"poll", "done"} /\ \A v \in WorkerIds : v # w => wpc'[v] = wpc[v]
  BY <1>1, <1>2 DEF StatsTypeOK
<1>5. wpc' \in [WorkerIds -> {"idle", "register", "poll", "process", "done"}]
  BY <1>1, <1>2 DEF StatsTypeOK
<1>6. stats[w]["rx"] \in Nat /\ stats[w]["tx_accepted"] \in Nat
  BY <1>1 DEF StatsTypeOK, CounterValues, Counters
<1>7. wire.rx \in Nat /\ wire.tx \in Nat
  BY <1>1 DEF StatsTypeOK
<1>8. OwnStep(w)
  BY <1>1, <1>2, <1>3, <1>4, <1>5, <1>6, <1>7 DEF OwnStep, StatsTypeOK, Running
<1>9. QED
  BY <1>8, WorkerKeeps

(* What a step of a worker may count: u, when it takes the packets to       *)
(* process from b to b1 and the packets kept for TX from t to t1            *)
Accounts(u, b, t, b1, t1) ==
  /\ u["rx"] + b = u["parse_ok"] + u["parse_unsupported"] + u["parse_malformed"] + b1
  /\ u["parse_ok"] = u["flow_hit"] + u["route_hit"] + u["lookup_miss"]
  /\ u["parse_ok"] = u["action_drop"] + u["action_forward"] + u["action_rewrite"]
  /\ u["action_forward"] + u["action_rewrite"] + t = u["tx_accepted"] + u["tx_unsent"] + t1
  /\ u["drop"] = u["parse_unsupported"] + u["parse_malformed"] + u["action_drop"]
                 + u["tx_unsent"]

LEMMA BalancedStep ==
  ASSUME NEW s \in CounterValues, NEW u \in CounterValues, NEW z \in CounterValues,
         \A c \in Counters : z[c] = s[c] + u[c],
         NEW b \in Nat, NEW t \in Nat, NEW b1 \in Nat, NEW t1 \in Nat,
         Balanced(s, b, t), Accounts(u, b, t, b1, t1)
  PROVE  Balanced(z, b1, t1)
<1>1. \A c \in Counters : z[c] = s[c] + u[c] /\ s[c] \in Nat /\ u[c] \in Nat
  BY DEF CounterValues
<1>2. z["rx"] = z["parse_ok"] + z["parse_unsupported"] + z["parse_malformed"] + b1
  <2>1. {"rx", "parse_ok", "parse_unsupported", "parse_malformed"} \subseteq Counters
    BY DEF Counters
  <2>2. /\ s["rx"] = s["parse_ok"] + s["parse_unsupported"] + s["parse_malformed"] + b
        /\ u["rx"] + b = u["parse_ok"] + u["parse_unsupported"] + u["parse_malformed"] + b1
    BY DEF Balanced, Accounts
  <2>3. QED
    BY <1>1, <2>1, <2>2
<1>3. z["parse_ok"] = z["flow_hit"] + z["route_hit"] + z["lookup_miss"]
  <2>1. {"parse_ok", "flow_hit", "route_hit", "lookup_miss"} \subseteq Counters
    BY DEF Counters
  <2>2. /\ s["parse_ok"] = s["flow_hit"] + s["route_hit"] + s["lookup_miss"]
        /\ u["parse_ok"] = u["flow_hit"] + u["route_hit"] + u["lookup_miss"]
    BY DEF Balanced, Accounts
  <2>3. QED
    BY <1>1, <2>1, <2>2
<1>4. z["parse_ok"] = z["action_drop"] + z["action_forward"] + z["action_rewrite"]
  <2>1. {"parse_ok", "action_drop", "action_forward", "action_rewrite"} \subseteq Counters
    BY DEF Counters
  <2>2. /\ s["parse_ok"] = s["action_drop"] + s["action_forward"] + s["action_rewrite"]
        /\ u["parse_ok"] = u["action_drop"] + u["action_forward"] + u["action_rewrite"]
    BY DEF Balanced, Accounts
  <2>3. QED
    BY <1>1, <2>1, <2>2
<1>5. z["action_forward"] + z["action_rewrite"] = z["tx_accepted"] + z["tx_unsent"] + t1
  <2>1. {"action_forward", "action_rewrite", "tx_accepted", "tx_unsent"} \subseteq Counters
    BY DEF Counters
  <2>2. /\ s["action_forward"] + s["action_rewrite"] = s["tx_accepted"] + s["tx_unsent"] + t
        /\ u["action_forward"] + u["action_rewrite"] + t
             = u["tx_accepted"] + u["tx_unsent"] + t1
    BY DEF Balanced, Accounts
  <2> DEFINE i == s["action_forward"]  i1 == u["action_forward"]  i2 == z["action_forward"]
             j == s["action_rewrite"]  j1 == u["action_rewrite"]  j2 == z["action_rewrite"]
             k == s["tx_accepted"]     k1 == u["tx_accepted"]     k2 == z["tx_accepted"]
             l == s["tx_unsent"]       l1 == u["tx_unsent"]       l2 == z["tx_unsent"]
  <2>3. /\ i \in Nat /\ i1 \in Nat /\ i2 = i + i1 /\ j \in Nat /\ j1 \in Nat /\ j2 = j + j1
        /\ k \in Nat /\ k1 \in Nat /\ k2 = k + k1 /\ l \in Nat /\ l1 \in Nat /\ l2 = l + l1
    BY <1>1, <2>1
  <2>4. i + j = k + l + t /\ i1 + j1 + t = k1 + l1 + t1
    BY <2>2
  <2>5. i2 + j2 = k2 + l2 + t1
    <3> HIDE DEF i, j, k, l, i1, j1, k1, l1, i2, j2, k2, l2
    <3>1. QED
      BY <2>3, <2>4
  <2>6. QED
    BY <2>5
<1>6. z["drop"] = z["parse_unsupported"] + z["parse_malformed"] + z["action_drop"]
                 + z["tx_unsent"]
  <2>1. {"drop", "parse_unsupported", "parse_malformed", "action_drop", "tx_unsent"}
          \subseteq Counters
    BY DEF Counters
  <2>2. /\ s["drop"] = s["parse_unsupported"] + s["parse_malformed"] + s["action_drop"]
                 + s["tx_unsent"]
        /\ u["drop"] = u["parse_unsupported"] + u["parse_malformed"] + u["action_drop"]
                 + u["tx_unsent"]
    BY DEF Balanced, Accounts
  <2>3. QED
    BY <1>1, <2>1, <2>2
<1>7. QED
  BY <1>2, <1>3, <1>4, <1>5, <1>6 DEF Balanced

(* A step of a worker that counts u *)
LEMMA CountStep ==
  ASSUME StatsInv, NEW w \in WorkerIds, Running(w), NEW u \in CounterValues,
         stats' \in [WorkerIds -> CounterValues],
         \A v \in WorkerIds : v # w => stats'[v] = stats[v],
         \A c \in Counters : stats'[w][c] = stats[w][c] + u[c],
         NEW to \in {"poll", "process"}, wpc' = [wpc EXCEPT ![w] = to],
         NEW b1 \in Nat, burst' = [burst EXCEPT ![w] = b1],
         NEW t1 \in Nat, tx_count' = [tx_count EXCEPT ![w] = t1],
         to = "poll" => b1 = 0 /\ t1 = 0,
         Accounts(u, burst[w], tx_count[w], b1, t1),
         wire' = [rx |-> wire.rx + u["rx"], tx |-> wire.tx + u["tx_accepted"]],
         UNCHANGED <<setup_vars, pc, next, launched, report>>
  PROVE  StatsInv'
<1>1. StatsTypeOK /\ CountInv
  BY DEF StatsInv
<1>2. /\ wpc'[w] = to /\ burst'[w] = b1 /\ tx_count'[w] = t1
      /\ \A v \in WorkerIds : v # w => /\ wpc'[v] = wpc[v] /\ burst'[v] = burst[v]
                                       /\ tx_count'[v] = tx_count[v]
      /\ wpc' \in [WorkerIds -> {"idle", "register", "poll", "process", "done"}]
      /\ burst' \in [WorkerIds -> Nat] /\ tx_count' \in [WorkerIds -> Nat]
  BY <1>1 DEF StatsTypeOK
<1>3. Balanced(stats'[w], b1, t1)
  <2>1. /\ stats[w] \in CounterValues /\ stats'[w] \in CounterValues
        /\ burst[w] \in Nat /\ tx_count[w] \in Nat
    BY <1>1 DEF StatsTypeOK
  <2>2. Balanced(stats[w], burst[w], tx_count[w])
    BY <1>1 DEF CountInv
  <2>3. QED
    BY <2>1, <2>2, BalancedStep
<1>4. /\ u["rx"] \in Nat /\ stats'[w]["rx"] = stats[w]["rx"] + u["rx"]
      /\ u["tx_accepted"] \in Nat
      /\ stats'[w]["tx_accepted"] = stats[w]["tx_accepted"] + u["tx_accepted"]
  <2>1. "rx" \in Counters /\ "tx_accepted" \in Counters
    BY DEF Counters
  <2>2. QED
    BY <2>1 DEF CounterValues
<1>5. wire.rx \in Nat /\ wire.tx \in Nat
  BY <1>1 DEF StatsTypeOK
<1>6. /\ wire' \in [rx : Nat, tx : Nat]
      /\ wire'.rx >= wire.rx /\ wire'.rx - wire.rx = u["rx"]
      /\ wire'.tx >= wire.tx /\ wire'.tx - wire.tx = u["tx_accepted"]
  BY <1>4, <1>5
<1>7. OwnStep(w)
  BY <1>2, <1>3, <1>4, <1>6 DEF OwnStep
<1>8. QED
  BY <1>7, WorkerKeeps

(* The counters that Add increments, as a record of all counters *)
Counted(D, more) == [c \in Counters |-> IF c \in D THEN more[c] ELSE 0]

LEMMA AddCounts ==
  ASSUME stats \in [WorkerIds -> CounterValues], NEW w \in WorkerIds,
         NEW D \in SUBSET Counters, NEW more \in [D -> Nat], Add(w, more)
  PROVE  /\ Counted(D, more) \in CounterValues
         /\ stats' \in [WorkerIds -> CounterValues]
         /\ \A v \in WorkerIds : v # w => stats'[v] = stats[v]
         /\ \A c \in Counters : stats'[w][c] = stats[w][c] + Counted(D, more)[c]
<1>1. /\ stats' \in [WorkerIds -> CounterValues]
      /\ \A v \in WorkerIds : v # w => stats'[v] = stats[v]
      /\ \A c \in Counters : stats'[w][c] = IF c \in D THEN stats[w][c] + more[c]
                                             ELSE stats[w][c]
  BY AddStats
<1>2. \A c \in Counters : stats[w][c] \in Nat
  BY DEF CounterValues
<1>3. \A c \in Counters : Counted(D, more)[c] = IF c \in D THEN more[c] ELSE 0
  BY DEF Counted
<1>4. Counted(D, more) \in CounterValues
  BY DEF Counted, CounterValues
<1>5. \A c \in Counters : stats'[w][c] = stats[w][c] + Counted(D, more)[c]
  BY <1>1, <1>2, <1>3
<1>6. QED
  BY <1>1, <1>4, <1>5

LEMMA EmptyPollKeeps ==
  ASSUME StatsInv, NEW w \in WorkerIds, EmptyPoll(w)
  PROVE  StatsInv'
<1> DEFINE D == {"rx_bursts", "rx_empty_polls"}
           more == [rx_bursts |-> 1, rx_empty_polls |-> 1]
           u == Counted(D, more)
<1>1. StatsTypeOK /\ CountInv
  BY DEF StatsInv
<1>2. /\ wpc[w] = "poll" /\ Add(w, more) /\ UNCHANGED <<wpc, burst, tx_count, wire>>
      /\ UNCHANGED <<setup_vars, pc, next, launched, report>>
  BY DEF EmptyPoll, WorkerUnchanged
<1>3. D \in SUBSET Counters /\ more \in [D -> Nat]
  BY DEF Counters
<1>4. /\ u \in CounterValues /\ stats' \in [WorkerIds -> CounterValues]
      /\ \A v \in WorkerIds : v # w => stats'[v] = stats[v]
      /\ \A c \in Counters : stats'[w][c] = stats[w][c] + u[c]
  <2>1. stats \in [WorkerIds -> CounterValues] /\ Add(w, more)
    BY <1>1, <1>2 DEF StatsTypeOK
  <2> HIDE DEF D, more
  <2>2. QED
    BY <1>3, <2>1, AddCounts
<1>5. \A c \in Counters : c \notin D => u[c] = 0
  BY DEF Counted
<1>6. burst[w] = 0 /\ tx_count[w] = 0
  BY <1>1, <1>2 DEF CountInv
<1>7. /\ wpc' = [wpc EXCEPT ![w] = "poll"] /\ burst' = [burst EXCEPT ![w] = 0]
      /\ tx_count' = [tx_count EXCEPT ![w] = 0]
  BY <1>1, <1>2, <1>6 DEF StatsTypeOK
<1> HIDE DEF u, more
<1>8. Accounts(u, burst[w], tx_count[w], 0, 0)
  BY <1>5, <1>6 DEF Accounts, Counters
<1>9. wire' = [rx |-> wire.rx + u["rx"], tx |-> wire.tx + u["tx_accepted"]]
  <2>1. wire \in [rx : Nat, tx : Nat] /\ wire' = wire
    BY <1>1, <1>2 DEF StatsTypeOK
  <2>2. u["rx"] = 0 /\ u["tx_accepted"] = 0
    BY <1>5 DEF Counters
  <2>3. wire.rx + u["rx"] = wire.rx /\ wire.tx + u["tx_accepted"] = wire.tx
    BY <2>1, <2>2
  <2>4. QED
    BY <2>1, <2>3
<1>10. Running(w)
  BY <1>2 DEF Running
<1>11. QED
  BY <1>2, <1>4, <1>7, <1>8, <1>9, <1>10, CountStep

LEMMA RxBurstKeeps ==
  ASSUME StatsInv, NEW w \in WorkerIds, RxBurst(w)
  PROVE  StatsInv'
<1>1. StatsTypeOK /\ CountInv
  BY DEF StatsInv
<1>2. PICK n \in 1 .. BurstSize :
        /\ Add(w, [rx_bursts |-> 1, rx |-> n]) /\ burst' = [burst EXCEPT ![w] = n]
        /\ wire' = [wire EXCEPT !.rx = @ + n]
  BY DEF RxBurst
<1> DEFINE D == {"rx_bursts", "rx"}
           more == [rx_bursts |-> 1, rx |-> n]
           u == Counted(D, more)
<1>3. /\ wpc[w] = "poll" /\ wpc' = [wpc EXCEPT ![w] = "process"] /\ UNCHANGED tx_count
      /\ UNCHANGED <<setup_vars, pc, next, launched, report>>
  BY DEF RxBurst, WorkerUnchanged
<1>4. n \in Nat
  BY StatsAssumption
<1>5. D \in SUBSET Counters /\ more \in [D -> Nat]
  BY <1>4 DEF Counters
<1>6. /\ u \in CounterValues /\ stats' \in [WorkerIds -> CounterValues]
      /\ \A v \in WorkerIds : v # w => stats'[v] = stats[v]
      /\ \A c \in Counters : stats'[w][c] = stats[w][c] + u[c]
  <2>1. stats \in [WorkerIds -> CounterValues] /\ Add(w, more)
    BY <1>1, <1>2 DEF StatsTypeOK
  <2> HIDE DEF D, more
  <2>2. QED
    BY <1>5, <2>1, AddCounts
<1>7. u["rx"] = n /\ \A c \in Counters : c \notin D => u[c] = 0
  BY DEF Counted, Counters
<1>8. burst[w] = 0 /\ tx_count[w] = 0
  BY <1>1, <1>3 DEF CountInv
<1>9. tx_count' = [tx_count EXCEPT ![w] = 0]
  BY <1>1, <1>3, <1>8 DEF StatsTypeOK
<1> HIDE DEF u, more
<1>10. Accounts(u, burst[w], tx_count[w], n, 0)
  BY <1>4, <1>7, <1>8 DEF Accounts, Counters
<1>11. wire' = [rx |-> wire.rx + u["rx"], tx |-> wire.tx + u["tx_accepted"]]
  <2>1. wire \in [rx : Nat, tx : Nat] /\ u["tx_accepted"] = 0 /\ u["rx"] = n
    BY <1>1, <1>7 DEF StatsTypeOK, Counters
  <2>2. wire.tx + u["tx_accepted"] = wire.tx
    BY <2>1
  <2>3. QED
    BY <1>2, <2>1, <2>2
<1>12. Running(w)
  BY <1>3 DEF Running
<1>13. QED
  BY <1>2, <1>3, <1>4, <1>6, <1>9, <1>10, <1>11, <1>12, CountStep

(* A packet that increments the counters in D, and is kept for TX or not *)
LEMMA PacketCounts ==
  ASSUME StatsInv, NEW w \in WorkerIds, NEW D \in SUBSET Counters, Add(w, [c \in D |-> 1]),
         wpc[w] = "process", burst[w] > 0, burst' = [burst EXCEPT ![w] = @ - 1],
         NEW kept \in {0, 1}, tx_count' = [tx_count EXCEPT ![w] = @ + kept],
         Accounts(Counted(D, [c \in D |-> 1]), 1, 0, 0, kept), "rx" \notin D,
         "tx_accepted" \notin D, UNCHANGED <<wpc, wire>>,
         UNCHANGED <<setup_vars, pc, next, launched, report>>
  PROVE  StatsInv'
<1> DEFINE more == [c \in D |-> 1]
           u == Counted(D, more)
           b1 == burst[w] - 1
           t1 == tx_count[w] + kept
<1>1. StatsTypeOK /\ CountInv
  BY DEF StatsInv
<1>2. more \in [D -> Nat] /\ Add(w, more)
  OBVIOUS
<1>3. /\ u \in CounterValues /\ stats' \in [WorkerIds -> CounterValues]
      /\ \A v \in WorkerIds : v # w => stats'[v] = stats[v]
      /\ \A c \in Counters : stats'[w][c] = stats[w][c] + u[c]
  <2>1. stats \in [WorkerIds -> CounterValues]
    BY <1>1 DEF StatsTypeOK
  <2> HIDE DEF more
  <2>2. QED
    BY <1>2, <2>1, AddCounts
<1>4. u["rx"] = 0 /\ u["tx_accepted"] = 0
  <2>1. "rx" \in Counters /\ "tx_accepted" \in Counters
    BY DEF Counters
  <2>2. QED
    BY <2>1 DEF Counted
<1>5. /\ b1 \in Nat /\ t1 \in Nat /\ burst[w] \in Nat /\ tx_count[w] \in Nat
      /\ burst[w] = b1 + 1
  BY <1>1 DEF StatsTypeOK
<1>6. /\ wpc' = [wpc EXCEPT ![w] = "process"] /\ burst' = [burst EXCEPT ![w] = b1]
      /\ tx_count' = [tx_count EXCEPT ![w] = t1]
  BY <1>1 DEF StatsTypeOK
<1>7. Accounts(u, 1, 0, 0, kept)
  OBVIOUS
<1>8. t1 = tx_count[w] + kept
  OBVIOUS
<1> HIDE DEF u, more, b1, t1
<1>9. Accounts(u, burst[w], tx_count[w], b1, t1)
  <2>1. \A c \in Counters : u[c] \in Nat
    BY <1>3 DEF CounterValues
  <2>2. u["rx"] + burst[w]
          = u["parse_ok"] + u["parse_unsupported"] + u["parse_malformed"] + b1
    <3>1. u["rx"] + 1 = u["parse_ok"] + u["parse_unsupported"] + u["parse_malformed"] + 0
      BY <1>7 DEF Accounts
    <3>2. u["parse_ok"] \in Nat /\ u["parse_unsupported"] \in Nat /\ u["parse_malformed"] \in Nat
      BY <2>1 DEF Counters
    <3>3. QED
      BY <1>4, <1>5, <3>1, <3>2
  <2>3. u["action_forward"] + u["action_rewrite"] + tx_count[w]
          = u["tx_accepted"] + u["tx_unsent"] + t1
    <3>1. u["action_forward"] + u["action_rewrite"] + 0
            = u["tx_accepted"] + u["tx_unsent"] + kept
      BY <1>7 DEF Accounts
    <3>2. u["action_forward"] \in Nat /\ u["action_rewrite"] \in Nat /\ u["tx_unsent"] \in Nat
      BY <2>1 DEF Counters
    <3>3. QED
      BY <1>4, <1>5, <1>8, <3>1, <3>2
  <2>4. QED
    BY <1>7, <2>2, <2>3 DEF Accounts
<1>10. wire' = [rx |-> wire.rx + u["rx"], tx |-> wire.tx + u["tx_accepted"]]
  <2>1. wire \in [rx : Nat, tx : Nat] /\ wire' = wire
    BY <1>1 DEF StatsTypeOK
  <2>2. wire.rx + u["rx"] = wire.rx /\ wire.tx + u["tx_accepted"] = wire.tx
    BY <1>4, <2>1
  <2>3. QED
    BY <2>1, <2>2
<1>11. Running(w)
  BY DEF Running
<1>12. QED
  BY <1>3, <1>5, <1>6, <1>9, <1>10, <1>11, CountStep

LEMMA ProcessPacketKeeps ==
  ASSUME StatsInv, NEW w \in WorkerIds, ProcessPacket(w)
  PROVE  StatsInv'
<1> DEFINE one(D) == [c \in D |-> 1]
<1>1. /\ wpc[w] = "process" /\ burst[w] > 0 /\ burst' = [burst EXCEPT ![w] = @ - 1]
      /\ UNCHANGED <<wpc, wire>> /\ UNCHANGED <<setup_vars, pc, next, launched, report>>
  BY DEF ProcessPacket, WorkerUnchanged
<1>2. UNCHANGED tx_count => tx_count' = [tx_count EXCEPT ![w] = @ + 0]
  BY DEF StatsInv, StatsTypeOK
<1>3. ASSUME NEW why \in {"parse_unsupported", "parse_malformed"},
             Add(w, one({why, "drop"})), UNCHANGED tx_count
      PROVE  StatsInv'
  <2> DEFINE D == {why, "drop"}
             u == Counted(D, one(D))
  <2>1. D \in SUBSET Counters /\ "rx" \notin D /\ "tx_accepted" \notin D
    BY DEF Counters
  <2>2. u[why] = 1 /\ u["drop"] = 1 /\ \A c \in Counters : c \notin D => u[c] = 0
    BY <2>1 DEF Counted
  <2>3. Accounts(u, 1, 0, 0, 0)
    <3> HIDE DEF u
    <3>1. QED
      BY <2>2 DEF Accounts, Counters
  <2>4. QED
    BY <1>1, <1>2, <1>3, <2>1, <2>3, PacketCounts
<1>4. ASSUME NEW hit \in {"flow_hit", "route_hit", "lookup_miss"},
             Add(w, one({"parse_ok", hit, "action_drop", "drop"})), UNCHANGED tx_count
      PROVE  StatsInv'
  <2> DEFINE D == {"parse_ok", hit, "action_drop", "drop"}
             u == Counted(D, one(D))
  <2>1. D \in SUBSET Counters /\ "rx" \notin D /\ "tx_accepted" \notin D
    BY DEF Counters
  <2>2. /\ u["parse_ok"] = 1 /\ u[hit] = 1 /\ u["action_drop"] = 1 /\ u["drop"] = 1
        /\ \A c \in Counters : c \notin D => u[c] = 0
    BY <2>1 DEF Counted
  <2>3. Accounts(u, 1, 0, 0, 0)
    <3> HIDE DEF u
    <3>1. QED
      BY <2>2 DEF Accounts, Counters
  <2>4. QED
    BY <1>1, <1>2, <1>4, <2>1, <2>3, PacketCounts
<1>5. ASSUME NEW hit \in {"flow_hit", "route_hit"},
             NEW act \in {"action_forward", "action_rewrite"},
             Add(w, one({"parse_ok", hit, act})), tx_count' = [tx_count EXCEPT ![w] = @ + 1]
      PROVE  StatsInv'
  <2> DEFINE D == {"parse_ok", hit, act}
             u == Counted(D, one(D))
  <2>1. D \in SUBSET Counters /\ "rx" \notin D /\ "tx_accepted" \notin D
    BY DEF Counters
  <2>2. /\ u["parse_ok"] = 1 /\ u[hit] = 1 /\ u[act] = 1
        /\ \A c \in Counters : c \notin D => u[c] = 0
    BY <2>1 DEF Counted
  <2>3. Accounts(u, 1, 0, 0, 1)
    <3> HIDE DEF u
    <3>1. QED
      BY <2>2 DEF Accounts, Counters
  <2>4. QED
    BY <1>1, <1>5, <2>1, <2>3, PacketCounts
<1>6. QED
  BY <1>3, <1>4, <1>5 DEF ProcessPacket

LEMMA TxBurstKeeps ==
  ASSUME StatsInv, NEW w \in WorkerIds, TxBurst(w)
  PROVE  StatsInv'
<1> DEFINE D == {"tx_bursts", "tx_accepted", "tx_unsent", "drop"}
           more(sent) == [tx_bursts |-> IF tx_count[w] # 0 THEN 1 ELSE 0, tx_accepted |-> sent,
                          tx_unsent |-> tx_count[w] - sent, drop |-> tx_count[w] - sent]
<1>1. StatsTypeOK /\ CountInv
  BY DEF StatsInv
<1>2. PICK sent \in 0 .. tx_count[w] :
        Add(w, more(sent)) /\ wire' = [wire EXCEPT !.tx = @ + sent]
  BY DEF TxBurst
<1> DEFINE u == Counted(D, more(sent))
<1>3. /\ wpc[w] = "process" /\ burst[w] = 0 /\ wpc' = [wpc EXCEPT ![w] = "poll"]
      /\ tx_count' = [tx_count EXCEPT ![w] = 0] /\ UNCHANGED burst
      /\ UNCHANGED <<setup_vars, pc, next, launched, report>>
  BY DEF TxBurst, WorkerUnchanged
<1>4. sent \in Nat /\ tx_count[w] \in Nat /\ tx_count[w] - sent \in Nat
  BY <1>1 DEF StatsTypeOK
<1>5. D \in SUBSET Counters /\ more(sent) \in [D -> Nat]
  BY <1>4 DEF Counters
<1>6. /\ u \in CounterValues /\ stats' \in [WorkerIds -> CounterValues]
      /\ \A v \in WorkerIds : v # w => stats'[v] = stats[v]
      /\ \A c \in Counters : stats'[w][c] = stats[w][c] + u[c]
  <2> DEFINE m == more(sent)
  <2>1. Add(w, m) /\ m \in [D -> Nat] /\ u = Counted(D, m)
    BY <1>2, <1>5
  <2>2. stats \in [WorkerIds -> CounterValues] /\ D \in SUBSET Counters
    BY <1>1, <1>5 DEF StatsTypeOK
  <2> HIDE DEF D, m, u
  <2>3. QED
    BY <2>1, <2>2, AddCounts
<1>7. /\ u["tx_accepted"] = sent /\ u["tx_unsent"] = tx_count[w] - sent
      /\ u["drop"] = tx_count[w] - sent /\ \A c \in Counters : c \notin D => u[c] = 0
  BY DEF Counted, Counters
<1>8. burst' = [burst EXCEPT ![w] = 0]
  BY <1>1, <1>3 DEF StatsTypeOK
<1> HIDE DEF u
<1>9. Accounts(u, burst[w], tx_count[w], 0, 0)
  BY <1>3, <1>4, <1>7 DEF Accounts, Counters
<1>10. wire' = [rx |-> wire.rx + u["rx"], tx |-> wire.tx + u["tx_accepted"]]
  <2>1. wire \in [rx : Nat, tx : Nat] /\ u["rx"] = 0 /\ u["tx_accepted"] = sent
    BY <1>1, <1>7 DEF StatsTypeOK, Counters
  <2>2. wire.rx + u["rx"] = wire.rx
    BY <2>1
  <2>3. QED
    BY <1>2, <2>1, <2>2
<1>11. Running(w)
  BY <1>3 DEF Running
<1>12. QED
  <2> HIDE DEF D
  <2>1. 0 \in Nat /\ "poll" \in {"poll", "process"}
    OBVIOUS
  <2>2. QED
    BY <1>3, <1>6, <1>8, <1>9, <1>10, <1>11, <2>1, CountStep

-----------------------------------------------------------------------------
(* Steps of the owner: no counter changes, and the workers it starts had    *)
(* not been running.                                                        *)

LEMMA OwnerKeeps ==
  ASSUME StatsInv, UNCHANGED <<stats, wire, burst, tx_count>>,
         \A w \in WorkerIds : wpc'[w] = wpc[w] \/ (~ Running(w) /\ wpc'[w] = "register"),
         StatsTypeOK', QueuesExclusive', LaunchInv', ReportInv'
  PROVE  StatsInv'
<1>1. StatsTypeOK /\ CountInv /\ WireInv
  BY DEF StatsInv
<1>2. CountInv'
  <2>1. ASSUME NEW w \in WorkerIds
        PROVE  /\ Balanced(stats[w], burst[w], tx_count[w])
               /\ wpc'[w] # "process" => burst[w] = 0 /\ tx_count[w] = 0
               /\ wpc'[w] = "idle" => stats[w] = Zero
    <3>1. CASE wpc'[w] = wpc[w]
      BY <1>1, <3>1 DEF CountInv
    <3>2. CASE ~ Running(w) /\ wpc'[w] = "register"
      BY <1>1, <3>2 DEF CountInv, Running
    <3>3. QED
      BY <3>1, <3>2
  <2>2. QED
    BY <2>1 DEF CountInv, Balanced
<1>3. WireInv'
  BY <1>1, TotalSame DEF WireInv
<1>4. QED
  BY <1>2, <1>3 DEF StatsInv

(* Steps that start no worker and change neither the map nor the report *)
LEMMA ControlKeeps ==
  ASSUME StatsInv, UNCHANGED <<setup_vars, worker_vars, report, launched>>,
         pc' \in {"launch", "main", "join", "stopped"}, next' \in Nat, LaunchInv',
         pc \in {"run", "launch", "main", "join"}
  PROVE  StatsInv'
<1>1. StatsTypeOK /\ QueuesExclusive
  BY DEF StatsInv
<1>2. UNCHANGED <<enabled, main, worker_count, workers, wpc, burst, tx_count, stats, wire,
                  launched>>
  BY DEF setup_vars, eal_vars, worker_vars
<1>3. StatsTypeOK'
  BY <1>1, <1>2 DEF StatsTypeOK
<1>4. QueuesExclusive'
  BY <1>1, <1>2 DEF QueuesExclusive, StatsTypeOK
<1>5. ReportInv'
  BY DEF ReportInv
<1>6. QED
  BY <1>2, <1>3, <1>4, <1>5, OwnerKeeps

LEMMA MappedQueues ==
  ASSUME StatsTypeOK, NEW count \in Nat, setup_workers(count)
  PROVE  /\ \A w \in 0 .. count - 1 : workers'[w] = [lcore_id |-> LcoreOf(w),
                                                   rx_queue_id |-> w, tx_queue_id |-> w]
         /\ {LcoreOf(w) : w \in 0 .. count - 1} = enabled
         /\ 0 \in 0 .. count - 1
<1>1. count \in 1 .. MaxWorkers /\ Cardinality(enabled) = count /\ workers' = Mapped(count, count)
  BY DEF setup_workers, CountFits
<1>2. MaxWorkers \in Nat
  BY StatsAssumption
<1>3. 0 .. count - 1 \subseteq WorkerIds /\ \A w \in 0 .. count - 1 : w < count
  BY <1>1, <1>2 DEF WorkerIds
<1>4. ASSUME NEW w \in 0 .. count - 1
      PROVE  workers'[w] = [lcore_id |-> LcoreOf(w), rx_queue_id |-> w, tx_queue_id |-> w]
  BY <1>1, <1>3 DEF Mapped
<1>5. {LcoreOf(w) : w \in 0 .. count - 1} = enabled
  BY <1>1, LcoresAssigned DEF StatsTypeOK
<1>6. 0 \in 0 .. count - 1
  BY <1>1
<1>7. QED
  BY <1>4, <1>5, <1>6

LEMMA SetupKeeps ==
  ASSUME StatsInv, NEW count \in Nat, setup_workers(count)
  PROVE  StatsInv'
<1>1. StatsTypeOK /\ LaunchInv
  BY DEF StatsInv
<1>2. /\ pc = "setup" /\ pc' = "run" /\ worker_count' = count /\ count \in 1 .. MaxWorkers
      /\ UNCHANGED <<enabled, main, wpc, burst, tx_count, stats, wire, next, launched>>
  BY DEF setup_workers, CountFits, eal_vars, worker_vars
<1>3. MaxWorkers \in Nat
  BY StatsAssumption
<1>4. StatsTypeOK'
  BY <1>1, <1>2, <1>3 DEF StatsTypeOK
<1>5. QueuesExclusive'
  <2> DEFINE used == 0 .. count - 1
  <2>1. /\ \A w \in used : workers'[w] = [lcore_id |-> LcoreOf(w), rx_queue_id |-> w,
                                          tx_queue_id |-> w]
        /\ {LcoreOf(w) : w \in used} = enabled /\ 0 \in used
    BY <1>1, MappedQueues
  <2>2. LcoreOf(0) = main
    BY DEF LcoreOf
  <2>3. \A w \in used : /\ workers'[w].lcore_id = LcoreOf(w)
                        /\ workers'[w].rx_queue_id = w /\ workers'[w].tx_queue_id = w
    <3> HIDE DEF used
    <3>1. ASSUME NEW w \in used, NEW r, workers'[w] = r,
                 r = [lcore_id |-> LcoreOf(w), rx_queue_id |-> w, tx_queue_id |-> w]
          PROVE  r.lcore_id = LcoreOf(w) /\ r.rx_queue_id = w /\ r.tx_queue_id = w
      BY <3>1
    <3>2. QED
      BY <2>1, <3>1
  <2> HIDE DEF used
  <2>4. {workers'[w].rx_queue_id : w \in used} = used
    BY <2>3
  <2>5. {workers'[w].tx_queue_id : w \in used} = used
    BY <2>3
  <2>6. {workers'[w].lcore_id : w \in used} = enabled
    BY <2>1, <2>3
  <2>7. workers'[0].lcore_id = main
    BY <2>1, <2>2, <2>3
  <2>8. used = 0 .. worker_count' - 1 /\ enabled' = enabled /\ main' = main
    BY <1>2 DEF used
  <2>9. QED
    BY <2>4, <2>5, <2>6, <2>7, <2>8 DEF QueuesExclusive
<1>6. LaunchInv'
  BY <1>1, <1>2 DEF LaunchInv, Running
<1>7. ReportInv'
  BY <1>2 DEF ReportInv
<1>8. QED
  BY <1>2, <1>4, <1>5, <1>6, <1>7, OwnerKeeps

LEMMA SetupRejects ==
  ASSUME StatsInv, NEW count \in Nat,
         CountRejected(count) \/ SocketRejected(count) \/ SetupFails
  PROVE  StatsInv'
<1>1. StatsTypeOK /\ LaunchInv
  BY DEF StatsInv
<1>2. /\ pc \in {"setup", "run"} /\ pc' = "stopped"
      /\ worker_count' = worker_count \/ worker_count' \in 1 .. MaxWorkers
      /\ UNCHANGED <<enabled, main, wpc, burst, tx_count, stats, wire, next, launched>>
  BY DEF CountRejected, SocketRejected, SetupFails, CountFits, setup_vars, eal_vars, worker_vars
<1>3. MaxWorkers \in Nat
  BY StatsAssumption
<1>4. StatsTypeOK'
  BY <1>1, <1>2, <1>3 DEF StatsTypeOK
<1>5. QueuesExclusive' /\ ReportInv'
  BY <1>2 DEF QueuesExclusive, ReportInv
<1>6. LaunchInv'
  BY <1>1, <1>2 DEF LaunchInv, Running
<1>7. QED
  BY <1>2, <1>4, <1>5, <1>6, OwnerKeeps

LEMMA LaunchKeeps ==
  ASSUME StatsInv, RemoteLaunch \/ MainWorker
  PROVE  StatsInv'
<1>1. StatsTypeOK /\ QueuesExclusive /\ LaunchInv
  BY DEF StatsInv
<1>2. MaxWorkers \in Nat
  BY StatsAssumption
<1>3. /\ pc \in {"run", "launch"} /\ pc' \in {"launch", "main"}
      /\ UNCHANGED <<enabled, main, worker_count, workers, burst, tx_count, stats, wire>>
  BY DEF RemoteLaunch, MainWorker, setup_vars, eal_vars
<1>4. next = launched + 1 /\ \A w \in WorkerIds : Running(w) => 1 <= w /\ w <= launched
  BY <1>1, <1>3 DEF LaunchInv, Running
<1>5. /\ next \in Nat /\ launched \in Nat /\ worker_count \in 0 .. MaxWorkers
  BY <1>1, <1>3 DEF StatsTypeOK
<1>6. QueuesExclusive' /\ ReportInv'
  BY <1>1, <1>3 DEF QueuesExclusive, ReportInv
<1>7. CASE RemoteLaunch
  <2>1. /\ next < worker_count /\ wpc' = [wpc EXCEPT ![next] = "register"] /\ pc' = "launch"
        /\ next' = next + 1 /\ launched' = launched + 1
    BY <1>7 DEF RemoteLaunch
  <2>2. next \in WorkerIds /\ ~ Running(next) /\ next >= 1
    BY <1>2, <1>4, <1>5, <2>1 DEF WorkerIds
  <2>3. /\ wpc'[next] = "register" /\ \A w \in WorkerIds : w # next => wpc'[w] = wpc[w]
        /\ wpc' \in [WorkerIds -> {"idle", "register", "poll", "process", "done"}]
    BY <1>1, <2>1, <2>2 DEF StatsTypeOK
  <2>4. StatsTypeOK'
    BY <1>1, <1>3, <1>5, <2>1, <2>3 DEF StatsTypeOK
  <2>5. LaunchInv'
    <3>1. \A w \in WorkerIds : wpc'[w] # "idle" => w < worker_count'
      BY <1>1, <1>3, <2>1, <2>2, <2>3 DEF LaunchInv
    <3>2. \A w \in WorkerIds : Running(w)' => 1 <= w /\ w <= launched'
      <4>1. ASSUME NEW w \in WorkerIds, Running(w)' PROVE 1 <= w /\ w <= launched + 1
        <5>1. CASE w = next
          BY <1>4, <1>5, <2>2, <5>1
        <5>2. CASE w # next
          <6>1. Running(w)
            BY <2>3, <4>1, <5>2 DEF Running
          <6>2. w \in Int
            BY DEF WorkerIds
          <6>3. QED
            BY <1>4, <1>5, <6>1, <6>2
        <5>3. QED
          BY <5>1, <5>2
      <4>2. QED
        BY <2>1, <4>1
    <3>3. next' = launched' + 1 /\ next' >= 1
      BY <1>4, <1>5, <2>1
    <3>4. QED
      BY <2>1, <3>1, <3>2, <3>3 DEF LaunchInv
  <2>6. QED
    BY <1>3, <1>6, <2>2, <2>3, <2>4, <2>5, OwnerKeeps
<1>8. CASE MainWorker
  <2>1. /\ next = worker_count /\ wpc' = [wpc EXCEPT ![0] = "register"] /\ pc' = "main"
        /\ next' = next /\ launched' = launched
    BY <1>8 DEF MainWorker
  <2>2. 0 \in WorkerIds /\ ~ Running(0) /\ 0 < worker_count
    BY <1>2, <1>4, <1>5, <2>1 DEF WorkerIds
  <2>3. /\ wpc'[0] = "register" /\ \A w \in WorkerIds : w # 0 => wpc'[w] = wpc[w]
        /\ wpc' \in [WorkerIds -> {"idle", "register", "poll", "process", "done"}]
    BY <1>1, <2>1, <2>2 DEF StatsTypeOK
  <2>4. StatsTypeOK'
    BY <1>1, <1>3, <1>5, <2>1, <2>3 DEF StatsTypeOK
  <2>5. LaunchInv'
    <3>1. \A w \in WorkerIds : wpc'[w] # "idle" => w < worker_count'
      BY <1>1, <1>3, <2>1, <2>2, <2>3 DEF LaunchInv
    <3>2. \A w \in WorkerIds : Running(w)' => w <= launched'
      <4>1. ASSUME NEW w \in WorkerIds, Running(w)' PROVE w <= launched
        <5>1. CASE w = 0
          BY <1>5, <5>1
        <5>2. CASE w # 0
          <6>1. Running(w)
            BY <2>3, <4>1, <5>2 DEF Running
          <6>2. QED
            BY <1>4, <6>1
        <5>3. QED
          BY <5>1, <5>2
      <4>2. QED
        BY <2>1, <4>1
    <3>3. QED
      BY <2>1, <3>1, <3>2 DEF LaunchInv
  <2>6. QED
    BY <1>3, <1>6, <2>2, <2>3, <2>4, <2>5, OwnerKeeps
<1>9. QED
  BY <1>7, <1>8

LEMMA JoinKeeps ==
  ASSUME StatsInv, RemoteLaunchFails \/ MainWorkerReturns \/ JoinWorker \/ RunReturns
  PROVE  StatsInv'
<1>1. StatsTypeOK /\ LaunchInv
  BY DEF StatsInv
<1>2. /\ UNCHANGED <<setup_vars, worker_vars, report, launched>>
      /\ pc \in {"run", "launch", "main", "join"} /\ pc' \in {"join", "stopped"}
  BY DEF RemoteLaunchFails, MainWorkerReturns, JoinWorker, RunReturns
<1>3. UNCHANGED <<wpc, worker_count, launched>>
  BY <1>2 DEF setup_vars, worker_vars
<1>4. \A w \in WorkerIds : /\ Running(w)' => Running(w)
                           /\ w \in Nat
                           /\ wpc'[w] # "idle" => w < worker_count'
  BY <1>1, <1>3 DEF Running, LaunchInv, WorkerIds
<1>5. next \in Nat /\ launched \in Nat
  BY <1>1 DEF StatsTypeOK
<1>6. LaunchInv' /\ next' \in Nat
  <2>1. CASE RemoteLaunchFails
    <3>1. pc \in {"run", "launch"} /\ pc' = "join" /\ next' = 1
      BY <2>1 DEF RemoteLaunchFails
    <3>2. \A w \in WorkerIds : Running(w) => 1 <= w /\ w <= launched
      BY <1>1, <3>1 DEF LaunchInv, Running
    <3>3. QED
      BY <1>3, <1>4, <3>1, <3>2 DEF LaunchInv
  <2>2. CASE MainWorkerReturns
    <3>1. pc = "main" /\ pc' = "join" /\ next' = 1 /\ wpc[0] = "done"
      BY <2>2 DEF MainWorkerReturns
    <3>2. ASSUME NEW w \in WorkerIds, Running(w) PROVE 1 <= w /\ w <= launched
      <4>1. w # 0
        BY <3>1, <3>2 DEF Running
      <4>2. w <= launched
        BY <1>1, <3>1, <3>2 DEF LaunchInv
      <4>3. QED
        BY <1>4, <4>1, <4>2
    <3>3. QED
      BY <1>3, <1>4, <3>1, <3>2 DEF LaunchInv
  <2>3. CASE JoinWorker
    <3>1. pc = "join" /\ pc' = "join" /\ next' = next + 1 /\ wpc[next] = "done"
      BY <2>3 DEF JoinWorker
    <3>2. ASSUME NEW w \in WorkerIds, Running(w) PROVE next + 1 <= w /\ w <= launched
      <4>1. w # next
        BY <3>1, <3>2 DEF Running
      <4>2. next <= w /\ w <= launched
        BY <1>1, <3>1, <3>2 DEF LaunchInv
      <4>3. QED
        BY <1>4, <1>5, <4>1, <4>2
    <3>3. QED
      BY <1>3, <1>4, <1>5, <3>1, <3>2 DEF LaunchInv
  <2>4. CASE RunReturns
    <3>1. pc = "join" /\ pc' = "stopped" /\ next > launched /\ next' = next
      BY <2>4 DEF RunReturns
    <3>2. ASSUME NEW w \in WorkerIds PROVE ~ Running(w)
      <4>1. Running(w) => next <= w /\ w <= launched
        BY <1>1, <3>1 DEF LaunchInv
      <4>2. QED
        BY <1>4, <1>5, <3>1, <4>1
    <3>3. QED
      BY <1>3, <1>4, <1>5, <3>1, <3>2 DEF LaunchInv
  <2>5. QED
    BY <2>1, <2>2, <2>3, <2>4
<1>7. QED
  BY <1>2, <1>6, ControlKeeps

(* Nothing that the invariant is about changes, but for the report. *)
LEMMA ReportKeeps ==
  ASSUME StatsInv, \/ RequestStop \/ GetStats \/ UNCHANGED vars
  PROVE  StatsInv'
<1>1. StatsTypeOK /\ QueuesExclusive /\ LaunchInv /\ ReportInv
  BY DEF StatsInv
<1>2. /\ UNCHANGED <<enabled, main, worker_count, workers, wpc, burst, tx_count, stats, wire,
                     next, launched>>
      /\ UNCHANGED <<pc, report>> \/ (pc = "stopped" /\ pc' = "reported"
                                      /\ report' = dp_dataplane_get_stats)
  BY DEF RequestStop, GetStats, vars, setup_vars, eal_vars, worker_vars
<1>3. StatsTypeOK'
  BY <1>1, <1>2 DEF StatsTypeOK
<1>4. QueuesExclusive'
  BY <1>1, <1>2 DEF QueuesExclusive
<1>5. LaunchInv'
  BY <1>1, <1>2 DEF LaunchInv, Running
<1>6. ReportInv'
  <2>1. UNCHANGED dp_dataplane_get_stats
    BY <1>2, TotalSame DEF dp_dataplane_get_stats
  <2>2. QED
    BY <1>1, <1>2, <2>1 DEF ReportInv
<1>7. QED
  BY <1>2, <1>3, <1>4, <1>5, <1>6, OwnerKeeps

-----------------------------------------------------------------------------
(* Theorems *)

LEMMA StatsInit ==
  ASSUME Init
  PROVE  StatsInv
<1>1. MaxWorkers \in Nat
  BY StatsAssumption
<1>2. Zero \in CounterValues /\ Balanced(Zero, 0, 0)
  <2>1. Zero \in CounterValues
    BY DEF Zero, CounterValues
  <2>2. Balanced(Zero, 0, 0)
    BY DEF Balanced, Zero, Counters
  <2>3. QED
    BY <2>1, <2>2
<1>3. \A w \in WorkerIds : /\ stats[w] = Zero /\ burst[w] = 0 /\ tx_count[w] = 0
                           /\ wpc[w] = "idle"
  BY DEF Init
<1>4. StatsTypeOK
  BY <1>1, <1>2 DEF Init, StatsTypeOK
<1>5. QueuesExclusive /\ ReportInv
  BY DEF Init, QueuesExclusive, ReportInv
<1>6. LaunchInv
  BY <1>3 DEF Init, LaunchInv, Running
<1>7. CountInv
  BY <1>2, <1>3 DEF CountInv
<1>8. WireInv
  <2> DEFINE f == Total
             local == stats
  <2>1. SumsOf(f, local, MaxWorkers) /\ local \in Contexts(MaxWorkers)
    BY <1>4, TotalSums DEF StatsTypeOK, Contexts, WorkerIds
  <2>2. \A v \in 0 .. MaxWorkers - 1 : local[v] = Zero
    BY <1>3 DEF WorkerIds
  <2>3. f[MaxWorkers] = Zero
    <3> HIDE DEF f, local
    <3>1. 0 \in 0 .. MaxWorkers
      BY <1>1
    <3>2. f[MaxWorkers] = f[0]
      BY <1>1, <2>1, <2>2, <3>1, SumTail
    <3>3. f[0] = Zero
      BY <1>1, <2>1, SumSteps
    <3>4. QED
      BY <3>2, <3>3
  <2>4. Zero["rx"] = 0 /\ Zero["tx_accepted"] = 0 /\ wire.rx = 0 /\ wire.tx = 0
    BY DEF Zero, Counters, Init
  <2>5. Total[MaxWorkers] = Zero
    BY <2>3
  <2>6. QED
    BY <2>4, <2>5 DEF WireInv
<1>9. QED
  BY <1>4, <1>5, <1>6, <1>7, <1>8 DEF StatsInv

LEMMA StatsStep ==
  ASSUME StatsInv, [Next]_vars
  PROVE  StatsInv'
<1>1. ASSUME NEW count \in 0 .. MaxWorkers + 1,
             setup_workers(count) \/ CountRejected(count) \/ SocketRejected(count)
      PROVE  StatsInv'
  <2>1. count \in Nat
    BY StatsAssumption
  <2>2. QED
    BY <1>1, <2>1, SetupKeeps, SetupRejects
<1>2. ASSUME SetupFails PROVE StatsInv'
  BY <1>2, 0 \in Nat, SetupRejects
<1>3. ASSUME RemoteLaunch \/ MainWorker PROVE StatsInv'
  BY <1>3, LaunchKeeps
<1>4. ASSUME RemoteLaunchFails \/ MainWorkerReturns \/ JoinWorker \/ RunReturns PROVE StatsInv'
  BY <1>4, JoinKeeps
<1>5. ASSUME RequestStop \/ GetStats \/ UNCHANGED vars PROVE StatsInv'
  BY <1>5, ReportKeeps
<1>6. ASSUME NEW w \in WorkerIds, Worker(w) PROVE StatsInv'
  BY <1>6, WorkerIdles, EmptyPollKeeps, RxBurstKeeps, ProcessPacketKeeps, TxBurstKeeps DEF Worker
<1>7. QED
  BY <1>1, <1>2, <1>3, <1>4, <1>5, <1>6 DEF Next

(* In every reachable state the counters of a worker account for every      *)
(* packet it has received, also in the middle of a burst, the counters of   *)
(* all workers together are what has crossed the wire, and the workers that *)
(* run are the ones dp_dataplane_run still has to join.                     *)
THEOREM StatsInvariance == Spec => []StatsInv
<1>1. Init => StatsInv
  BY StatsInit
<1>2. StatsInv /\ [Next]_vars => StatsInv'
  BY StatsStep
<1>3. QED
  BY <1>1, <1>2, PTL DEF Spec

(* Whatever lcores are enabled, every queue and every lcore is used by      *)
(* exactly one worker.                                                      *)
THEOREM QueueOwnership == Spec => []QueuesExclusive
<1>1. StatsInv => QueuesExclusive
  BY DEF StatsInv
<1>2. QED
  BY <1>1, StatsInvariance, PTL

(* The report is exact for any number of workers and packets.               *)
THEOREM ExactReport == Spec => []ReportExact
<1>1. ASSUME StatsInv, pc = "reported"
      PROVE  /\ report = dp_dataplane_get_stats
             /\ Balanced(Total[worker_count], 0, 0)
             /\ Total[worker_count]["rx"] = wire.rx
             /\ Total[worker_count]["tx_accepted"] = wire.tx
             /\ \A w \in WorkerIds : ~ Running(w)
  <2>1. StatsTypeOK /\ LaunchInv /\ CountInv /\ WireInv /\ ReportInv
    BY <1>1 DEF StatsInv
  <2>2. report = dp_dataplane_get_stats /\ \A w \in WorkerIds : ~ Running(w)
    BY <1>1, <2>1 DEF ReportInv, LaunchInv
  <2>3. MaxWorkers \in Nat /\ worker_count \in 0 .. MaxWorkers
    BY <2>1, StatsAssumption DEF StatsTypeOK
  <2> DEFINE f == Total
             local == stats
  <2>4. SumsOf(f, local, MaxWorkers) /\ local \in Contexts(MaxWorkers)
    BY <2>1, TotalSums DEF StatsTypeOK, Contexts, WorkerIds
  <2>5. \A v \in WorkerIds : Balanced(local[v], 0, 0)
    <3>1. ASSUME NEW v \in WorkerIds PROVE Balanced(stats[v], 0, 0)
      <4>1. wpc[v] # "process"
        BY <2>2 DEF Running
      <4>2. Balanced(stats[v], burst[v], tx_count[v]) /\ burst[v] = 0 /\ tx_count[v] = 0
        BY <2>1, <4>1 DEF CountInv
      <4>3. QED
        BY <4>2
    <3>2. QED
      BY <3>1
  <2>6. \A v \in WorkerIds : v >= worker_count => local[v] = Zero
    <3>1. ASSUME NEW v \in WorkerIds, v >= worker_count PROVE stats[v] = Zero
      <4>1. ~ (v < worker_count)
        BY <2>3, <3>1 DEF WorkerIds
      <4>2. wpc[v] = "idle"
        BY <2>1, <4>1 DEF LaunchInv
      <4>3. QED
        BY <2>1, <4>2 DEF CountInv
    <3>2. QED
      BY <3>1
  <2>7. Balanced(f[worker_count], 0, 0) /\ f[MaxWorkers] = f[worker_count]
    <3> HIDE DEF f, local
    <3>1. \A v \in 0 .. MaxWorkers - 1 : /\ Balanced(local[v], 0, 0)
                                         /\ v >= worker_count => local[v] = Zero
      BY <2>5, <2>6 DEF WorkerIds
    <3>2. Balanced(f[worker_count], 0, 0)
      BY <2>3, <2>4, <3>1, SumBalanced
    <3>3. f[MaxWorkers] = f[worker_count]
      BY <2>3, <2>4, <3>1, SumTail
    <3>4. QED
      BY <3>2, <3>3
  <2>8. Balanced(Total[worker_count], 0, 0) /\ Total[MaxWorkers] = Total[worker_count]
    BY <2>7
  <2>9. wire.rx = Total[MaxWorkers]["rx"] /\ wire.tx = Total[MaxWorkers]["tx_accepted"]
    BY <2>1 DEF WireInv
  <2>10. QED
    BY <2>2, <2>8, <2>9
<1>2. StatsInv => ReportExact
  <2> SUFFICES ASSUME StatsInv, pc = "reported" PROVE ReportExact
    BY DEF ReportExact
  <2>1. /\ report = dp_dataplane_get_stats /\ Balanced(Total[worker_count], 0, 0)
        /\ Total[worker_count]["rx"] = wire.rx
        /\ Total[worker_count]["tx_accepted"] = wire.tx
        /\ \A w \in WorkerIds : ~ Running(w)
    BY <1>1
  <2> DEFINE t == Total[worker_count]
  <2>2. t["parse_ok"] \in Nat /\ t["parse_unsupported"] \in Nat
        /\ t["parse_malformed"] \in Nat /\ t["tx_accepted"] \in Nat /\ t["tx_unsent"] \in Nat
    <3> DEFINE f == Total
               local == stats
    <3>1. SumsOf(f, local, MaxWorkers) /\ local \in Contexts(MaxWorkers)
      BY TotalSums DEF StatsInv, StatsTypeOK, Contexts, WorkerIds
    <3>2. MaxWorkers \in Nat /\ worker_count \in 0 .. MaxWorkers
      BY StatsAssumption DEF StatsInv, StatsTypeOK
    <3>3. f[worker_count] \in CounterValues
      <4> HIDE DEF f, local
      <4>1. QED
        BY <3>1, <3>2, SumTypes
    <3>4. t \in CounterValues
      BY <3>3
    <3> HIDE DEF t
    <3>5. QED
      BY <3>4 DEF CounterValues, Counters
  <2>3. report.total = t
    BY <2>1 DEF dp_dataplane_get_stats
  <2>4. /\ DOMAIN report.rows = 0 .. worker_count - 1
        /\ \A w \in 0 .. worker_count - 1 : report.rows[w].packets = stats[w]
    BY <2>1 DEF dp_dataplane_get_stats
  <2>5. \A w \in 0 .. worker_count - 1 : w \in WorkerIds
    BY StatsAssumption DEF StatsInv, StatsTypeOK, WorkerIds
  <2>6. /\ t["rx"] = wire.rx /\ t["tx_accepted"] = wire.tx
        /\ t["rx"] = t["parse_ok"] + t["parse_unsupported"] + t["parse_malformed"]
        /\ t["parse_ok"] = t["flow_hit"] + t["route_hit"] + t["lookup_miss"]
        /\ t["parse_ok"] = t["action_drop"] + t["action_forward"] + t["action_rewrite"]
        /\ t["action_forward"] + t["action_rewrite"] = t["tx_accepted"] + t["tx_unsent"]
        /\ t["drop"] = t["parse_unsupported"] + t["parse_malformed"] + t["action_drop"]
                       + t["tx_unsent"]
    <3> Balanced(t, 0, 0)
      BY <2>1
    <3>1. t["rx"] = wire.rx /\ t["tx_accepted"] = wire.tx
      BY <2>1
    <3> HIDE DEF t
    <3>2. t["parse_ok"] + t["parse_unsupported"] + t["parse_malformed"] + 0
            = t["parse_ok"] + t["parse_unsupported"] + t["parse_malformed"]
      BY <2>2
    <3>3. t["tx_accepted"] + t["tx_unsent"] + 0 = t["tx_accepted"] + t["tx_unsent"]
      BY <2>2
    <3>4. QED
      BY <3>1, <3>2, <3>3 DEF Balanced
  <2> HIDE DEF t
  <2>7. QED
    BY <2>1, <2>3, <2>4, <2>5, <2>6 DEF ReportExact
<1>3. QED
  BY <1>2, StatsInvariance, PTL

=============================================================================
