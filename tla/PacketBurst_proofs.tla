------------------------- MODULE PacketBurst_proofs -------------------------
(***************************************************************************)
(* Proofs about PacketBurst, for every pool, every burst size and every    *)
(* number of bursts.                                                       *)
(***************************************************************************)
EXTENDS PacketBurst, TLAPS

(* The worker starts at its poll point with an empty array and no mbuf. *)
LEMMA InitBurst == Init => BurstInv
<1> SUFFICES ASSUME Init PROVE BurstInv
  OBVIOUS
<1> USE BurstAssumption, NoMbufAssumption DEF Init
<1>1. TypeOK
  BY DEF TypeOK, Slots, Counters
<1>2. ExactOwnership
  BY DEF ExactOwnership, Live
<1>3. BurstConserved /\ BurstControl
  BY DEF BurstConserved, BurstControl, Unread, RxLaw, LookupLaw, ActionLaw,
     TxLaw, DropLaw, Counters
<1>4. BurstOrdered
  BY DEF BurstOrdered
<1>5. QED
  BY <1>1, <1>2, <1>3, <1>4 DEF BurstInv

(* Counting keeps the statistics natural numbers. *)
LEMMA BumpType ==
  ASSUME stats \in [Counters -> Nat], NEW cs
  PROVE  Bump(cs) \in [Counters -> Nat]
BY DEF Bump

(* The counters the conservation laws speak of *)
LawCounters == {"rx", "parse_ok", "parse_unsupported", "parse_malformed",
                "flow_hit", "route_hit", "lookup_miss", "action_drop",
                "action_forward", "action_rewrite", "tx_accepted",
                "tx_unsent", "drop"}

(* Each counter is a natural number, as the arithmetic of the laws needs. *)
LEMMA CountersAreNat ==
  ASSUME TypeOK
  PROVE  \A c \in LawCounters : stats[c] \in Nat
BY DEF TypeOK, Counters, LawCounters

(* rte_eth_rx_burst fills the array with mbufs of the pool, in order. *)
LEMMA RxBurstStep ==
  ASSUME BurstInv, RxBurst
  PROVE  BurstInv'
<1> USE BurstAssumption DEF BurstInv
<1>1. PICK count \in 1 .. BurstSize :
      \E f \in [0 .. count - 1 -> {m \in Mbufs : owner[m] = "pool"}] :
       /\ \A j, k \in 0 .. count - 1 : f[j] = f[k] => j = k
       /\ n' = count
       /\ pkts' = [j \in Slots |-> IF j < count THEN f[j] ELSE pkts[j]]
       /\ owner' = Passed({f[j] : j \in 0 .. count - 1}, "pool", "app")
       /\ arrival' = [m \in Mbufs |->
                        IF \E j \in 0 .. count - 1 : f[j] = m
                        THEN CHOOSE j \in 0 .. count - 1 : f[j] = m
                        ELSE arrival[m]]
       /\ stats' = [Bump({"rx_bursts"}) EXCEPT !["rx"] = @ + count]
  BY DEF RxBurst
<1>2. PICK f \in [0 .. count - 1 -> {m \in Mbufs : owner[m] = "pool"}] :
       /\ \A j, k \in 0 .. count - 1 : f[j] = f[k] => j = k
       /\ n' = count
       /\ pkts' = [j \in Slots |-> IF j < count THEN f[j] ELSE pkts[j]]
       /\ owner' = Passed({f[j] : j \in 0 .. count - 1}, "pool", "app")
       /\ arrival' = [m \in Mbufs |->
                        IF \E j \in 0 .. count - 1 : f[j] = m
                        THEN CHOOSE j \in 0 .. count - 1 : f[j] = m
                        ELSE arrival[m]]
       /\ stats' = [Bump({"rx_bursts"}) EXCEPT !["rx"] = @ + count]
  BY <1>1
<1>3. /\ pc = "poll" /\ pc' = "process" /\ i' = 0 /\ tx_count' = 0 /\ sent' = sent
      /\ n' = count
  BY <1>2 DEF RxBurst
<1>4. ASSUME NEW j \in 0 .. count - 1
      PROVE  f[j] \in Mbufs /\ arrival'[f[j]] = j /\ pkts'[j] = f[j] /\ j \in Slots
  <2>1. f[j] \in Mbufs /\ j \in Slots /\ pkts'[j] = f[j]
    BY <1>2 DEF Slots
  <2>2. (CHOOSE k \in 0 .. count - 1 : f[k] = f[j]) = j
    BY <1>2
  <2>3. QED
    BY <1>2, <2>1, <2>2
<1>5. TypeOK'
  <2>1. arrival' \in [Mbufs -> Nat]
    <3>1. ASSUME NEW m \in Mbufs PROVE arrival'[m] \in Nat
      <4>1. CASE \E j \in 0 .. count - 1 : f[j] = m
        BY <1>2, <1>4, <4>1
      <4>2. CASE ~ \E j \in 0 .. count - 1 : f[j] = m
        BY <1>2, <4>2 DEF TypeOK
      <4>3. QED
        BY <4>1, <4>2
    <3>2. QED
      BY <1>2, <3>1
  <2>2. stats' \in [Counters -> Nat]
    <3>1. Bump({"rx_bursts"}) \in [Counters -> Nat] /\ "rx" \in Counters
      BY BumpType DEF TypeOK, Counters
    <3>2. count \in Nat /\ stats' = [Bump({"rx_bursts"}) EXCEPT !["rx"] = @ + count]
      BY <1>2
    <3>3. QED
      BY <3>1, <3>2
  <2>3. pkts' \in [Slots -> Mbufs \cup {"none"}]
    BY <1>2 DEF TypeOK, Slots
  <2>4. owner' \in [Mbufs -> {"pool", "app", "tx", "corrupt"}]
    BY <1>2 DEF TypeOK, Passed
  <2>5. QED
    BY <1>3, <2>1, <2>2, <2>3, <2>4 DEF TypeOK
<1>6. \A j : j \in Live' <=> j \in 0 .. count - 1
  BY <1>2, <1>3 DEF Live, Slots
<1>7. ExactOwnership'
  <2>1. \A m \in Mbufs : owner[m] # "app"
    BY <1>3 DEF ExactOwnership, Live
  <2>2. \A m \in Mbufs : /\ owner'[m] = "app" <=> \E j \in 0 .. count - 1 : f[j] = m
                         /\ owner'[m] # "corrupt"
    BY <1>2, <2>1 DEF Passed, ExactOwnership
  <2>3. \A j, k \in 0 .. count - 1 : f[j] = f[k] => j = k
    BY <1>2
  <2>4. QED
    BY <1>4, <1>6, <2>2, <2>3 DEF ExactOwnership
<1>8. BurstConserved'
  <2>1. stats' = [Bump({"rx_bursts"}) EXCEPT !["rx"] = @ + count]
    BY <1>2
  <2>2. stats'["rx"] = stats["rx"] + count
        /\ \A c \in LawCounters \ {"rx"} : stats'[c] = stats[c]
    BY <2>1 DEF Bump, Counters, LawCounters
  <2>3. Unread = 0 /\ Unread' = count /\ tx_count = 0 /\ tx_count' = 0
    BY <1>3 DEF Unread, BurstControl
  <2>4. RxLaw(Unread)'
    <3>1. RxLaw(Unread)
      BY DEF BurstConserved
    <3>2. QED
      BY <2>2, <2>3, <3>1, CountersAreNat DEF RxLaw, LawCounters
  <2>5. LookupLaw' /\ ActionLaw' /\ TxLaw(tx_count)' /\ DropLaw'
    BY <2>2, <2>3 DEF BurstConserved, LookupLaw, ActionLaw, TxLaw, DropLaw,
       LawCounters
  <2>6. QED
    BY <2>4, <2>5 DEF BurstConserved
<1>9. BurstOrdered'
  BY <1>2, <1>3, <1>4 DEF BurstOrdered, Slots
<1>10. BurstControl'
  BY <1>3 DEF BurstControl
<1>11. QED
  BY <1>5, <1>7, <1>8, <1>9, <1>10

(* Freeing pkts[i]: everything but the statistics, for any counters cs. *)
LEMMA DiscardStep ==
  ASSUME BurstInv, NEW cs, Discard(cs)
  PROVE  TypeOK' /\ ExactOwnership' /\ BurstControl' /\ BurstOrdered'
<1> USE BurstAssumption DEF BurstInv
<1>0. /\ pc = "process" /\ pc' = pc /\ i < n /\ i' = i + 1 /\ n' = n
      /\ tx_count' = tx_count /\ pkts' = pkts /\ arrival' = arrival /\ sent' = sent
      /\ n \in 0 .. BurstSize /\ i \in 0 .. n /\ tx_count \in 0 .. i
      /\ owner' = Passed({pkts[i]}, "app", "pool") /\ stats' = Bump(cs)
  BY DEF Discard, TypeOK
<1>1. i \in Slots /\ pkts[i] \in Mbufs /\ i \in Live
  BY <1>0 DEF Slots, BurstOrdered, Live
<1>2. TypeOK'
  <2>1. owner' \in [Mbufs -> {"pool", "app", "tx", "corrupt"}]
    BY <1>0 DEF Passed, TypeOK
  <2>2. stats' \in [Counters -> Nat]
    BY <1>0, BumpType DEF TypeOK
  <2>3. QED
    BY <1>0, <2>1, <2>2 DEF TypeOK
<1>3. Live' = Live \ {i}
  BY <1>0 DEF Live, Slots
<1>4. ExactOwnership'
  BY <1>0, <1>1, <1>3 DEF ExactOwnership, Passed
<1>5. BurstControl'
  BY <1>0 DEF BurstControl
<1>6. BurstOrdered'
  <2>1. ASSUME NEW j \in Slots, i + 1 <= j, j < n
        PROVE  pkts[j] \in Mbufs /\ arrival[pkts[j]] = j
    BY <1>0, <2>1 DEF BurstOrdered, Slots
  <2>2. ASSUME NEW j \in Slots, j < tx_count
        PROVE  pkts[j] \in Mbufs /\ arrival[pkts[j]] < i + 1
    <3>1. pkts[j] \in Mbufs /\ arrival[pkts[j]] < i
      BY <1>0, <2>2 DEF BurstOrdered
    <3>2. QED
      BY <1>0, <3>1 DEF TypeOK
  <2>3. QED
    BY <1>0, <2>1, <2>2 DEF BurstOrdered
<1>7. QED
  BY <1>2, <1>4, <1>5, <1>6

(* Moving pkts[i] to the front. *)
LEMMA KeepStep ==
  ASSUME BurstInv, NEW cs, Keep(cs)
  PROVE  TypeOK' /\ ExactOwnership' /\ BurstControl' /\ BurstOrdered'
<1> USE BurstAssumption DEF BurstInv
<1>0. /\ pc = "process" /\ pc' = pc /\ i < n /\ i' = i + 1 /\ n' = n
      /\ tx_count' = tx_count + 1 /\ arrival' = arrival /\ sent' = sent
      /\ n \in 0 .. BurstSize /\ i \in 0 .. n /\ tx_count \in 0 .. i
      /\ pkts' = [pkts EXCEPT ![tx_count] = pkts[i]]
      /\ owner' = owner /\ stats' = Bump(cs)
  BY DEF Keep, TypeOK
<1>1. i \in Slots /\ pkts[i] \in Mbufs /\ i \in Live /\ arrival[pkts[i]] = i
      /\ tx_count \in Slots
  BY <1>0 DEF Slots, BurstOrdered, Live
<1>2. TypeOK'
  <2>1. pkts' \in [Slots -> Mbufs \cup {"none"}]
    BY <1>0, <1>1 DEF TypeOK
  <2>2. stats' \in [Counters -> Nat]
    BY <1>0, BumpType DEF TypeOK
  <2>3. QED
    BY <1>0, <2>1, <2>2 DEF TypeOK
<1>3. /\ Live' = (Live \ {i}) \cup {tx_count}
      /\ tx_count \notin Live \ {i}
      /\ pkts'[tx_count] = pkts[i]
      /\ \A j \in Live \ {i} : pkts'[j] = pkts[j]
  BY <1>0, <1>1 DEF Live, Slots, TypeOK
<1>4. ExactOwnership'
  BY <1>0, <1>1, <1>3 DEF ExactOwnership
<1>5. BurstControl'
  BY <1>0 DEF BurstControl
<1>6. BurstOrdered'
  <2>0. \A j \in Slots : j # tx_count => pkts'[j] = pkts[j]
    BY <1>0, <1>1 DEF TypeOK
  <2>1. ASSUME NEW j \in Slots, i + 1 <= j, j < n
        PROVE  pkts'[j] \in Mbufs /\ arrival[pkts'[j]] = j
    BY <1>0, <2>0, <2>1 DEF BurstOrdered, Slots
  <2>2. ASSUME NEW j \in Slots, j < tx_count + 1
        PROVE  pkts'[j] \in Mbufs /\ arrival[pkts'[j]] < i + 1
    <3>1. CASE j = tx_count
      BY <1>0, <1>1, <1>3, <3>1
    <3>2. CASE j < tx_count
      <4>1. pkts'[j] = pkts[j] /\ pkts[j] \in Mbufs /\ arrival[pkts[j]] < i
        BY <1>0, <2>0, <3>2 DEF BurstOrdered, Slots
      <4>2. QED
        BY <1>0, <4>1 DEF TypeOK
    <3>3. QED
      BY <1>0, <2>2, <3>1, <3>2 DEF Slots
  <2>3. ASSUME NEW j \in Slots, NEW l \in Slots, j < l, l < tx_count + 1
        PROVE  arrival[pkts'[j]] < arrival[pkts'[l]]
    <3>1. pkts'[j] = pkts[j] /\ arrival[pkts[j]] < i
      BY <1>0, <2>0, <2>3 DEF BurstOrdered, Slots
    <3>2. CASE l = tx_count
      BY <1>1, <1>3, <3>1, <3>2
    <3>3. CASE l < tx_count
      BY <1>0, <2>0, <2>3, <3>1, <3>3 DEF BurstOrdered, Slots
    <3>4. QED
      BY <1>0, <2>3, <3>2, <3>3 DEF Slots
  <2>4. QED
    BY <1>0, <2>1, <2>2, <2>3 DEF BurstOrdered
<1>7. QED
  BY <1>2, <1>4, <1>5, <1>6

(* What one packet adds to a counter, when it is counted in cs *)
Added(cs, c) == IF c \in cs THEN 1 ELSE 0

(* Counting one packet keeps the laws when each side of a law grows alike. *)
LEMMA BumpConserves ==
  ASSUME TypeOK, BurstConserved, NEW cs, stats' = Bump(cs),
         pc = "process", pc' = "process", i' = i + 1, n' = n,
         tx_count' = tx_count + Added(cs, "action_forward") + Added(cs, "action_rewrite"),
         Added(cs, "rx") = 0, Added(cs, "tx_accepted") = 0, Added(cs, "tx_unsent") = 0,
         Added(cs, "parse_ok") + Added(cs, "parse_unsupported")
           + Added(cs, "parse_malformed") = 1,
         Added(cs, "parse_ok") = Added(cs, "flow_hit") + Added(cs, "route_hit")
                                   + Added(cs, "lookup_miss"),
         Added(cs, "parse_ok") = Added(cs, "action_drop") + Added(cs, "action_forward")
                                   + Added(cs, "action_rewrite"),
         Added(cs, "drop") = Added(cs, "parse_unsupported")
                               + Added(cs, "parse_malformed") + Added(cs, "action_drop")
  PROVE  BurstConserved'
<1>1. \A c \in LawCounters : stats[c] \in Nat /\ Added(cs, c) \in Nat
  BY CountersAreNat DEF Added
<1>2. \A c \in LawCounters : stats'[c] = stats[c] + Added(cs, c)
  BY <1>1 DEF Bump, Added, LawCounters, Counters
<1>3. Unread = n - i /\ Unread' = n - (i + 1) /\ n \in Int /\ i \in Int
      /\ tx_count \in Int
  BY DEF Unread, TypeOK
<1>4. RxLaw(Unread) /\ LookupLaw /\ ActionLaw /\ TxLaw(tx_count) /\ DropLaw
  BY DEF BurstConserved
<1>5. RxLaw(Unread)'
  BY <1>1, <1>2, <1>3, <1>4 DEF RxLaw, LawCounters
<1>6. LookupLaw'
  BY <1>1, <1>2, <1>4 DEF LookupLaw, LawCounters
<1>7. ActionLaw'
  BY <1>1, <1>2, <1>4 DEF ActionLaw, LawCounters
<1>8. TxLaw(tx_count)'
  <2>1. /\ stats'["tx_accepted"] = stats["tx_accepted"]
        /\ stats'["tx_unsent"] = stats["tx_unsent"]
        /\ stats["tx_accepted"] \in Nat /\ stats["tx_unsent"] \in Nat
    BY <1>1, <1>2 DEF LawCounters
  <2>2. /\ stats'["action_forward"] = stats["action_forward"] + Added(cs, "action_forward")
        /\ stats'["action_rewrite"] = stats["action_rewrite"] + Added(cs, "action_rewrite")
    BY <1>2 DEF LawCounters
  <2>3. /\ stats["action_forward"] \in Nat /\ stats["action_rewrite"] \in Nat
        /\ Added(cs, "action_forward") \in Nat /\ Added(cs, "action_rewrite") \in Nat
    BY <1>1 DEF LawCounters
  <2>4. stats["action_forward"] + stats["action_rewrite"]
          = stats["tx_accepted"] + stats["tx_unsent"] + tx_count
    BY <1>4 DEF TxLaw
  <2>5. QED
    BY <1>3, <2>1, <2>2, <2>3, <2>4 DEF TxLaw
<1>9. DropLaw'
  BY <1>1, <1>2, <1>4 DEF DropLaw, LawCounters
<1>10. QED
  BY <1>5, <1>6, <1>7, <1>8, <1>9 DEF BurstConserved

(* A packet that is counted in cs and freed keeps the invariant. *)
LEMMA DiscardConserves ==
  ASSUME BurstInv, NEW cs, Discard(cs),
         \/ cs \in {{"parse_unsupported", "drop"}, {"parse_malformed", "drop"}}
         \/ \E hit \in {"flow_hit", "route_hit", "lookup_miss"} :
              cs = {"parse_ok", hit, "action_drop", "drop"}
  PROVE  BurstInv'
<1>1. TypeOK /\ BurstConserved /\ tx_count \in Int
  BY DEF BurstInv, TypeOK
<1>2. /\ stats' = Bump(cs) /\ pc = "process" /\ pc' = "process" /\ i' = i + 1
      /\ n' = n /\ tx_count' = tx_count
  BY DEF Discard
<1>3. \A c \in {"rx", "tx_accepted", "tx_unsent", "action_forward",
               "action_rewrite"} : Added(cs, c) = 0
  BY DEF Added
<1>4. Added(cs, "parse_ok") + Added(cs, "parse_unsupported")
           + Added(cs, "parse_malformed") = 1
  BY DEF Added
<1>5. Added(cs, "parse_ok") = Added(cs, "flow_hit") + Added(cs, "route_hit")
                                   + Added(cs, "lookup_miss")
  BY DEF Added
<1>6. Added(cs, "parse_ok") = Added(cs, "action_drop") + Added(cs, "action_forward")
                                   + Added(cs, "action_rewrite")
  BY DEF Added
<1>7. Added(cs, "drop") = Added(cs, "parse_unsupported")
                            + Added(cs, "parse_malformed") + Added(cs, "action_drop")
  BY DEF Added
<1>8. tx_count' = tx_count + Added(cs, "action_forward") + Added(cs, "action_rewrite")
  BY <1>1, <1>2, <1>3
<1>9. Added(cs, "rx") = 0 /\ Added(cs, "tx_accepted") = 0 /\ Added(cs, "tx_unsent") = 0
  BY <1>3
<1>10. BurstConserved'
  BY <1>1, <1>2, <1>4, <1>5, <1>6, <1>7, <1>8, <1>9, BumpConserves
<1>11. QED
  BY <1>10, DiscardStep DEF BurstInv

(* A packet that is counted in cs and kept for transmission keeps it. *)
LEMMA KeepConserves ==
  ASSUME BurstInv, NEW cs, Keep(cs),
         \E hit \in {"flow_hit", "route_hit"} :
           \E act \in {"action_forward", "action_rewrite"} :
             cs = {"parse_ok", hit, act}
  PROVE  BurstInv'
<1>1. TypeOK /\ BurstConserved /\ tx_count \in Int
  BY DEF BurstInv, TypeOK
<1>2. /\ stats' = Bump(cs) /\ pc = "process" /\ pc' = "process" /\ i' = i + 1
      /\ n' = n /\ tx_count' = tx_count + 1
  BY DEF Keep
<1>3. Added(cs, "rx") = 0 /\ Added(cs, "tx_accepted") = 0 /\ Added(cs, "tx_unsent") = 0
  BY DEF Added
<1>4. Added(cs, "parse_ok") + Added(cs, "parse_unsupported")
           + Added(cs, "parse_malformed") = 1
  BY DEF Added
<1>5. Added(cs, "parse_ok") = Added(cs, "flow_hit") + Added(cs, "route_hit")
                                   + Added(cs, "lookup_miss")
  BY DEF Added
<1>6. Added(cs, "parse_ok") = Added(cs, "action_drop") + Added(cs, "action_forward")
                                   + Added(cs, "action_rewrite")
  BY DEF Added
<1>7. Added(cs, "drop") = Added(cs, "parse_unsupported")
                            + Added(cs, "parse_malformed") + Added(cs, "action_drop")
  BY DEF Added
<1>8. tx_count' = tx_count + Added(cs, "action_forward") + Added(cs, "action_rewrite")
  BY <1>1, <1>2 DEF Added
<1>9. BurstConserved'
  BY <1>1, <1>2, <1>3, <1>4, <1>5, <1>6, <1>7, <1>8, BumpConserves
<1>10. QED
  BY <1>9, KeepStep DEF BurstInv

(* The three actions of a packet that dp_process_packet frees *)
LEMMA FreedPacketStep ==
  ASSUME BurstInv, Unparsed \/ LookupMiss \/ ActionDrop
  PROVE  BurstInv'
<1>1. CASE Unparsed
  <2>1. PICK result \in {"parse_unsupported", "parse_malformed"} :
          Discard({result, "drop"})
    BY <1>1 DEF Unparsed
  <2>2. QED
    BY <2>1, DiscardConserves
<1>2. CASE LookupMiss
  BY <1>2, DiscardConserves DEF LookupMiss
<1>3. CASE ActionDrop
  <2>1. PICK hit \in {"flow_hit", "route_hit"} :
          Discard({"parse_ok", hit, "action_drop", "drop"})
    BY <1>3 DEF ActionDrop
  <2>2. QED
    BY <2>1, DiscardConserves
<1>4. QED
  BY <1>1, <1>2, <1>3

(* The two actions of a packet that dp_process_packet returns *)
LEMMA KeptPacketStep ==
  ASSUME BurstInv, ActionForward \/ ActionRewrite
  PROVE  BurstInv'
<1>1. CASE ActionForward
  <2>1. PICK hit \in {"flow_hit", "route_hit"} :
          Keep({"parse_ok", hit, "action_forward"})
    BY <1>1 DEF ActionForward
  <2>2. QED
    BY <2>1, KeepConserves
<1>2. CASE ActionRewrite
  <2>1. PICK hit \in {"flow_hit", "route_hit"} :
          Keep({"parse_ok", hit, "action_rewrite"})
    BY <1>2 DEF ActionRewrite
  <2>2. QED
    BY <2>1, KeepConserves
<1>3. QED
  BY <1>1, <1>2

(* An empty poll only counts itself. *)
LEMMA EmptyPollStep ==
  ASSUME BurstInv, EmptyPoll
  PROVE  BurstInv'
<1> USE DEF BurstInv
<1>0. UNCHANGED <<pc, owner, pkts, n, i, tx_count, sent, arrival>>
      /\ stats' = Bump({"rx_bursts", "rx_empty_polls"})
  BY DEF EmptyPoll
<1>1. TypeOK'
  <2>1. stats' \in [Counters -> Nat]
    BY <1>0, BumpType DEF TypeOK
  <2>2. QED
    BY <1>0, <2>1 DEF TypeOK
<1>2. \A c \in LawCounters : stats'[c] = stats[c]
  BY <1>0 DEF Bump, Counters, LawCounters
<1>3. BurstConserved'
  BY <1>0, <1>2 DEF BurstConserved, Unread, RxLaw, LookupLaw, ActionLaw, TxLaw,
     DropLaw, LawCounters
<1>4. ExactOwnership' /\ BurstControl' /\ BurstOrdered'
  BY <1>0 DEF ExactOwnership, Live, BurstControl, BurstOrdered
<1>5. QED
  BY <1>1, <1>3, <1>4

(* The end of the loop over the burst, and the return of the worker *)
LEMMA ControlStep ==
  ASSUME BurstInv, ProcessEnd \/ WorkerReturns
  PROVE  BurstInv'
<1> USE DEF BurstInv
<1>0. UNCHANGED <<owner, pkts, n, i, tx_count, sent, arrival, stats>>
  BY DEF ProcessEnd, WorkerReturns
<1>1. \/ /\ pc = "process" /\ i = n
         /\ pc' = IF tx_count # 0 THEN "transmit" ELSE "poll"
      \/ pc = "poll" /\ pc' = "done"
  BY DEF ProcessEnd, WorkerReturns
<1>2. n \in Int /\ i \in Int /\ tx_count \in 0 .. n
  BY BurstAssumption DEF TypeOK
<1>3. TypeOK'
  BY <1>0, <1>1 DEF TypeOK
<1>4. Live' = Live
  BY <1>0, <1>1, <1>2 DEF Live, Slots, BurstControl
<1>5. ExactOwnership'
  BY <1>0, <1>4 DEF ExactOwnership
<1>6. Unread' = Unread
  BY <1>0, <1>1, <1>2 DEF Unread
<1>7. BurstConserved'
  BY <1>0, <1>6 DEF BurstConserved, RxLaw, LookupLaw, ActionLaw, TxLaw, DropLaw
<1>8. BurstControl' /\ BurstOrdered'
  BY <1>0, <1>1 DEF BurstControl, BurstOrdered
<1>9. QED
  BY <1>3, <1>5, <1>7, <1>8

(* The TX queue takes a prefix of the survivors. *)
LEMMA TxBurstStep ==
  ASSUME BurstInv, TxBurst
  PROVE  BurstInv'
<1> USE BurstAssumption DEF BurstInv
<1>1. PICK accepted \in 0 .. tx_count :
       /\ sent' = accepted
       /\ owner' = Passed({pkts[j] : j \in 0 .. accepted - 1}, "app", "tx")
  BY DEF TxBurst
<1>2. /\ pc = "transmit" /\ pc' = "complete" /\ stats' = Bump({"tx_bursts"})
      /\ UNCHANGED <<pkts, n, i, tx_count, arrival>>
  BY DEF TxBurst
<1>3. n \in 0 .. BurstSize /\ tx_count \in 0 .. n /\ i = n
  BY <1>2 DEF TypeOK, BurstControl
<1>4. TypeOK'
  <2>1. stats' \in [Counters -> Nat]
    BY <1>2, BumpType DEF TypeOK
  <2>2. owner' \in [Mbufs -> {"pool", "app", "tx", "corrupt"}]
    BY <1>1 DEF TypeOK, Passed
  <2>3. QED
    BY <1>1, <1>2, <1>3, <2>1, <2>2 DEF TypeOK
<1>5. /\ \A j : j \in Live <=> j \in 0 .. tx_count - 1
      /\ \A j : j \in Live' <=> j \in accepted .. tx_count - 1
  BY <1>1, <1>2, <1>3 DEF Live, Slots
<1>6. ExactOwnership'
  <2>1. ASSUME NEW m \in Mbufs
        PROVE  /\ owner'[m] = "app" <=> \E j \in Live' : pkts'[j] = m
               /\ owner'[m] # "corrupt"
    <3>1. CASE \E j \in 0 .. accepted - 1 : pkts[j] = m
      BY <1>1, <1>2, <1>3, <1>5, <3>1 DEF ExactOwnership, Passed
    <3>2. CASE ~ \E j \in 0 .. accepted - 1 : pkts[j] = m
      BY <1>1, <1>2, <1>3, <1>5, <3>2 DEF ExactOwnership, Passed
    <3>3. QED
      BY <3>1, <3>2
  <2>2. \A j, k \in Live' : pkts'[j] = pkts'[k] => j = k
    BY <1>1, <1>2, <1>3, <1>5 DEF ExactOwnership
  <2>3. QED
    BY <2>1, <2>2 DEF ExactOwnership
<1>7. BurstConserved'
  <2>1. \A c \in LawCounters : stats'[c] = stats[c]
    BY <1>2 DEF Bump, Counters, LawCounters
  <2>2. Unread' = Unread
    BY <1>2 DEF Unread
  <2>3. QED
    BY <1>2, <2>1, <2>2 DEF BurstConserved, RxLaw, LookupLaw, ActionLaw, TxLaw,
       DropLaw, LawCounters
<1>8. BurstControl' /\ BurstOrdered'
  BY <1>1, <1>2, <1>3 DEF BurstControl, BurstOrdered
<1>9. QED
  BY <1>4, <1>6, <1>7, <1>8

(* Freeing the unsent suffix settles every survivor. *)
LEMMA CompleteTxStep ==
  ASSUME BurstInv, dp_complete_tx
  PROVE  BurstInv'
<1> USE BurstAssumption DEF BurstInv
<1>1. /\ pc = "complete" /\ pc' = "poll" /\ tx_count' = 0
      /\ owner' = Passed({pkts[j] : j \in sent .. tx_count - 1}, "app", "pool")
      /\ stats' = [stats EXCEPT !["tx_accepted"] = @ + sent,
                                !["tx_unsent"] = @ + (tx_count - sent),
                                !["drop"] = @ + (tx_count - sent)]
      /\ UNCHANGED <<pkts, n, i, sent, arrival>>
  BY DEF dp_complete_tx, CompleteTx
<1>2. /\ n \in 0 .. BurstSize /\ tx_count \in 0 .. n /\ sent \in 0 .. tx_count
      /\ i \in 0 .. n
  BY <1>1 DEF TypeOK, BurstControl
<1>3. \A c \in LawCounters : stats[c] \in Nat
  BY CountersAreNat
<1>4. /\ stats'["tx_accepted"] = stats["tx_accepted"] + sent
      /\ stats'["tx_unsent"] = stats["tx_unsent"] + (tx_count - sent)
      /\ stats'["drop"] = stats["drop"] + (tx_count - sent)
      /\ \A c \in LawCounters \ {"tx_accepted", "tx_unsent", "drop"} :
           stats'[c] = stats[c]
  BY <1>1 DEF TypeOK, Counters, LawCounters
<1>5. TypeOK'
  <2>1. tx_count - sent \in Nat /\ sent \in Nat /\ 0 \in 0 .. i
    BY <1>2
  <2>2. stats' \in [Counters -> Nat]
    BY <1>1, <2>1 DEF TypeOK, Counters
  <2>3. owner' \in [Mbufs -> {"pool", "app", "tx", "corrupt"}]
    BY <1>1 DEF Passed, TypeOK
  <2>4. QED
    BY <1>1, <1>2, <2>1, <2>2, <2>3 DEF TypeOK
<1>6. ExactOwnership'
  <2>1. Live' = {}
    BY <1>1 DEF Live
  <2>2. Live = sent .. tx_count - 1
    BY <1>1, <1>2 DEF Live, Slots
  <2>3. \A m \in Mbufs : owner'[m] \notin {"app", "corrupt"}
    BY <1>1, <2>2 DEF ExactOwnership, Passed
  <2>4. QED
    BY <2>1, <2>3 DEF ExactOwnership
<1>7. BurstConserved'
  <2>1. Unread = 0 /\ Unread' = 0
    BY <1>1 DEF Unread
  <2>2. RxLaw(Unread)' /\ LookupLaw' /\ ActionLaw'
    BY <1>4, <2>1 DEF BurstConserved, RxLaw, LookupLaw, ActionLaw, LawCounters
  <2>3. TxLaw(tx_count)'
    <3>1. stats["action_forward"] + stats["action_rewrite"]
            = stats["tx_accepted"] + stats["tx_unsent"] + tx_count
      BY DEF BurstConserved, TxLaw
    <3>2. /\ stats["tx_accepted"] \in Nat /\ stats["tx_unsent"] \in Nat
          /\ tx_count \in Nat /\ sent \in Nat
      BY <1>2, <1>3 DEF LawCounters
    <3>3. /\ stats'["action_forward"] = stats["action_forward"]
          /\ stats'["action_rewrite"] = stats["action_rewrite"]
      BY <1>4 DEF LawCounters
    <3>4. stats'["tx_accepted"] + stats'["tx_unsent"] + 0
            = stats["tx_accepted"] + stats["tx_unsent"] + tx_count
      BY <1>4, <3>2
    <3>5. QED
      BY <1>1, <3>1, <3>3, <3>4 DEF TxLaw
  <2>4. DropLaw'
    <3>1. DropLaw
      BY DEF BurstConserved
    <3>2. QED
      BY <1>2, <1>3, <1>4, <3>1 DEF DropLaw, LawCounters
  <2>5. QED
    BY <2>2, <2>3, <2>4 DEF BurstConserved
<1>8. BurstControl' /\ BurstOrdered'
  BY <1>1 DEF BurstControl, BurstOrdered
<1>9. QED
  BY <1>5, <1>6, <1>7, <1>8

(* The driver only frees what it was given. *)
LEMMA DriverFreesStep ==
  ASSUME BurstInv, DriverFrees
  PROVE  BurstInv'
<1> USE DEF BurstInv
<1>1. PICK m \in Mbufs : owner[m] = "tx" /\ owner' = Passed({m}, "tx", "pool")
  BY DEF DriverFrees
<1>2. UNCHANGED <<pc, pkts, n, i, tx_count, sent, arrival, stats>>
  BY DEF DriverFrees
<1>3. TypeOK'
  <2>1. owner' \in [Mbufs -> {"pool", "app", "tx", "corrupt"}]
    BY <1>1 DEF Passed, TypeOK
  <2>2. QED
    BY <1>2, <2>1 DEF TypeOK
<1>4. Live' = Live
  BY <1>2 DEF Live
<1>5. ExactOwnership'
  BY <1>1, <1>2, <1>4 DEF ExactOwnership, Passed
<1>6. BurstConserved' /\ BurstControl' /\ BurstOrdered'
  BY <1>2 DEF BurstConserved, Unread, RxLaw, LookupLaw, ActionLaw, TxLaw, DropLaw,
     BurstControl, BurstOrdered
<1>7. QED
  BY <1>3, <1>5, <1>6

(* BurstInv is an inductive invariant of the packet path. *)
THEOREM BurstInvariance == Spec => []BurstInv
<1>1. Init => BurstInv
  BY InitBurst
<1>2. BurstInv /\ [Next]_vars => BurstInv'
  <2> SUFFICES ASSUME BurstInv, [Next]_vars PROVE BurstInv'
    OBVIOUS
  <2>1. CASE RxBurst
    BY <2>1, RxBurstStep
  <2>2. CASE EmptyPoll
    BY <2>2, EmptyPollStep
  <2>3. CASE Unparsed \/ LookupMiss \/ ActionDrop
    BY <2>3, FreedPacketStep
  <2>4. CASE ActionForward \/ ActionRewrite
    BY <2>4, KeptPacketStep
  <2>5. CASE ProcessEnd \/ WorkerReturns
    BY <2>5, ControlStep
  <2>6. CASE TxBurst
    BY <2>6, TxBurstStep
  <2>7. CASE dp_complete_tx
    BY <2>7, CompleteTxStep
  <2>8. CASE DriverFrees
    BY <2>8, DriverFreesStep
  <2>9. CASE UNCHANGED vars
    BY <2>9 DEF vars, BurstInv, TypeOK, ExactOwnership, Live, BurstConserved, Unread,
       RxLaw, LookupLaw, ActionLaw, TxLaw, DropLaw, BurstControl, BurstOrdered
  <2>10. QED
    BY <2>1, <2>2, <2>3, <2>4, <2>5, <2>6, <2>7, <2>8, <2>9 DEF Next
<1>3. QED
  BY <1>1, <1>2, PTL DEF Spec

(* Whatever the pool, the burst size and the traffic, no mbuf of            *)
(* dp_worker_run is leaked, freed twice or used after it was given away.    *)
THEOREM MbufOwnership == Spec => []ExactOwnership
<1>1. BurstInv => ExactOwnership
  BY DEF BurstInv
<1>2. QED
  BY <1>1, BurstInvariance, PTL

(* In-place compaction keeps the survivors in their order of arrival.       *)
THEOREM TransmitOrder == Spec => []OrderPreserved
<1>1. BurstInv => OrderPreserved
  <2> SUFFICES ASSUME BurstInv, pc \in {"process", "transmit"},
                      NEW j \in 0 .. tx_count - 1, NEW k \in 0 .. tx_count - 1, j < k
               PROVE  arrival[pkts[j]] < arrival[pkts[k]]
    BY DEF OrderPreserved
  <2>1. j \in Slots /\ k \in Slots /\ k < tx_count
    BY BurstAssumption DEF Slots, BurstInv, TypeOK
  <2>2. QED
    BY <2>1 DEF BurstInv, BurstOrdered
<1>2. QED
  BY <1>1, BurstInvariance, PTL

(* The five conservation laws hold whenever the worker is between bursts.   *)
THEOREM Conservation == Spec => []StatsConserved
<1>1. BurstInv => StatsConserved
  BY DEF BurstInv, BurstConserved, BurstControl, StatsConserved, Unread, RxLaw, TxLaw
<1>2. QED
  BY <1>1, BurstInvariance, PTL
=============================================================================
