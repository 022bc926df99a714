----------------------------- MODULE PacketBurst -----------------------------
(***************************************************************************)
(* The packet path of one worker: a burst is received, every packet is     *)
(* parsed, looked up and acted upon, the survivors are compacted in place  *)
(* in the RX array, transmitted, and what the TX queue refuses is freed.   *)
(* Tracked are who owns each mbuf, the array pkts with its stale entries,  *)
(* and the worker's packet statistics.  A worker shares none of this with  *)
(* the other workers.                                                      *)
(***************************************************************************)
EXTENDS Integers, FiniteSets

CONSTANTS Mbufs,        \* the mbufs of the pool
          BurstSize,    \* DP_BURST_SIZE
          MaxBursts     \* bound: polls of the RX queue per run

ASSUME BurstAssumption == BurstSize \in Nat \ {0} /\ MaxBursts \in Nat
ASSUME NoMbufAssumption == "none" \notin Mbufs

VARIABLES pc,         \* "poll", "process", "transmit", "complete" or "done"
          owner,      \* who may use or free each mbuf: pool, app or tx queue;
                      \* "corrupt" once it was given away by someone else
          pkts,       \* the local array of dp_worker_run
          n, i,       \* packets received; index of the next one to process
          tx_count,   \* survivors, compacted in pkts[0 .. tx_count - 1]
          sent,       \* what rte_eth_tx_burst accepted
          arrival,    \* history: position of each mbuf in its RX burst
          stats       \* worker->stats

vars == <<pc, owner, pkts, n, i, tx_count, sent, arrival, stats>>

Slots == 0 .. BurstSize - 1
Counters == {"rx", "parse_ok", "parse_unsupported", "parse_malformed",
             "flow_hit", "route_hit", "lookup_miss", "action_drop",
             "action_forward", "action_rewrite", "tx_accepted", "tx_unsent",
             "drop", "rx_bursts", "rx_empty_polls", "tx_bursts"}

Init ==
  /\ pc = "poll"
  /\ owner = [m \in Mbufs |-> "pool"]
  /\ pkts = [j \in Slots |-> "none"]
  /\ n = 0 /\ i = 0 /\ tx_count = 0 /\ sent = 0
  /\ arrival = [m \in Mbufs |-> 0]
  /\ stats = [c \in Counters |-> 0]

(* One more of each counter in cs *)
Bump(cs) == [c \in Counters |-> IF c \in cs THEN stats[c] + 1 ELSE stats[c]]

(* The mbufs ms pass from one owner to another.  rte_pktmbuf_free and         *)
(* rte_eth_tx_burst take what they are given, whoever owns it.                *)
Passed(ms, from, to) ==
  [m \in Mbufs |-> IF m \notin ms THEN owner[m]
                  ELSE IF owner[m] = from THEN to ELSE "corrupt"]

(* rte_eth_rx_burst hands over count distinct mbufs of the pool *)
RxBurst ==
  /\ pc = "poll"
  /\ stats["rx_bursts"] < MaxBursts
  /\ \E count \in 1 .. BurstSize :
     \E f \in [0 .. count - 1 -> {m \in Mbufs : owner[m] = "pool"}] :
       /\ \A j, k \in 0 .. count - 1 : f[j] = f[k] => j = k
       /\ n' = count
       /\ pkts' = [j \in Slots |-> IF j < count THEN f[j] ELSE pkts[j]]
       /\ owner' = Passed({f[j] : j \in 0 .. count - 1}, "pool", "app")
       /\ arrival' = [m \in Mbufs |->
                        IF \E j \in 0 .. count - 1 : f[j] = m
                        THEN CHOOSE j \in 0 .. count - 1 : f[j] = m
                        ELSE arrival[m]]
       /\ stats' = [Bump({"rx_bursts"}) EXCEPT !["rx"] = @ + count]
  /\ i' = 0 /\ tx_count' = 0
  /\ pc' = "process"
  /\ UNCHANGED sent

EmptyPoll ==
  /\ pc = "poll"
  /\ stats["rx_bursts"] < MaxBursts
  /\ stats' = Bump({"rx_bursts", "rx_empty_polls"})
  /\ UNCHANGED <<pc, owner, pkts, n, i, tx_count, sent, arrival>>

(* Mutation: the last packet takes the place of the dropped one. *)
DiscardFillsHole(cs) ==
  /\ pc = "process" /\ i < n
  /\ owner' = Passed({pkts[i]}, "app", "pool")
  /\ pkts' = [pkts EXCEPT ![i] = pkts[n - 1]]
  /\ n' = n - 1
  /\ stats' = Bump(cs)
  /\ UNCHANGED <<pc, i, tx_count, sent, arrival>>

(* dp_process_packet frees the mbuf and returns NULL *)
Discard(cs) ==
  /\ pc = "process" /\ i < n
  /\ owner' = Passed({pkts[i]}, "app", "pool")
  /\ stats' = Bump(cs)
  /\ i' = i + 1
  /\ UNCHANGED <<pc, pkts, n, tx_count, sent, arrival>>

(* dp_process_packet returns the mbuf, which moves to the front of pkts *)
Keep(cs) ==
  /\ pc = "process" /\ i < n
  /\ pkts' = [pkts EXCEPT ![tx_count] = pkts[i]]
  /\ tx_count' = tx_count + 1
  /\ stats' = Bump(cs)
  /\ i' = i + 1
  /\ UNCHANGED <<pc, owner, n, sent, arrival>>

Unparsed == \E result \in {"parse_unsupported", "parse_malformed"} :
              Discard({result, "drop"})

(* Mutation: a miss is not counted as an action. *)
LookupMissUncounted == Discard({"parse_ok", "lookup_miss", "drop"})

LookupMiss == Discard({"parse_ok", "lookup_miss", "action_drop", "drop"})

(* DROP, or a REWRITE that dp_apply_action refuses *)
ActionDrop == \E hit \in {"flow_hit", "route_hit"} :
                Discard({"parse_ok", hit, "action_drop", "drop"})

ActionForward == \E hit \in {"flow_hit", "route_hit"} :
                   Keep({"parse_ok", hit, "action_forward"})

ActionRewrite == \E hit \in {"flow_hit", "route_hit"} :
                   Keep({"parse_ok", hit, "action_rewrite"})

(* The burst is processed; without survivors there is no TX call. *)
ProcessEnd ==
  /\ pc = "process" /\ i = n
  /\ pc' = IF tx_count # 0 THEN "transmit" ELSE "poll"
  /\ UNCHANGED <<owner, pkts, n, i, tx_count, sent, arrival, stats>>

(* rte_eth_tx_burst takes the first accepted mbufs of the array *)
TxBurst ==
  /\ pc = "transmit"
  /\ \E accepted \in 0 .. tx_count :
       /\ sent' = accepted
       /\ owner' = Passed({pkts[j] : j \in 0 .. accepted - 1}, "app", "tx")
  /\ stats' = Bump({"tx_bursts"})
  /\ pc' = "complete"
  /\ UNCHANGED <<pkts, n, i, tx_count, arrival>>

CompleteTx(first, unsent) ==
  /\ pc = "complete"
  /\ owner' = Passed({pkts[j] : j \in first .. tx_count - 1}, "app", "pool")
  /\ stats' = [stats EXCEPT !["tx_accepted"] = @ + sent,
                            !["tx_unsent"] = @ + unsent, !["drop"] = @ + unsent]
  /\ tx_count' = 0
  /\ pc' = "poll"
  /\ UNCHANGED <<pkts, n, i, sent, arrival>>

(* Mutation: the loop starts at 0. *)
CompleteTxFreesAll == CompleteTx(0, tx_count - sent)

(* What the TX queue did not take is freed and counted as dropped. *)
dp_complete_tx == CompleteTx(sent, tx_count - sent)

(* dp.stop is set: the worker leaves its loop at the next poll point. *)
WorkerReturns ==
  /\ pc = "poll"
  /\ pc' = "done"
  /\ UNCHANGED <<owner, pkts, n, i, tx_count, sent, arrival, stats>>

(* The driver has transmitted an mbuf and returns it to the pool. *)
DriverFrees ==
  /\ \E m \in Mbufs : owner[m] = "tx" /\ owner' = Passed({m}, "tx", "pool")
  /\ UNCHANGED <<pc, pkts, n, i, tx_count, sent, arrival, stats>>

Next == \/ RxBurst \/ EmptyPoll \/ Unparsed \/ LookupMiss \/ ActionDrop
        \/ ActionForward \/ ActionRewrite \/ ProcessEnd \/ TxBurst
        \/ dp_complete_tx \/ WorkerReturns \/ DriverFrees

Spec == Init /\ [][Next]_vars

-----------------------------------------------------------------------------
(* Properties *)

(* Indices stay inside the array and compaction never overtakes the reader. *)
TypeOK ==
  /\ pc \in {"poll", "process", "transmit", "complete", "done"}
  /\ owner \in [Mbufs -> {"pool", "app", "tx", "corrupt"}]
  /\ pkts \in [Slots -> Mbufs \cup {"none"}]
  /\ n \in 0 .. BurstSize /\ i \in 0 .. n /\ tx_count \in 0 .. i
  /\ sent \in 0 .. BurstSize
  /\ arrival \in [Mbufs -> Nat]
  /\ stats \in [Counters -> Nat]

(* The slots whose mbuf the worker has to free or hand over: survivors not  *)
(* yet accepted by the TX queue, and packets not yet processed.             *)
Live == {j \in Slots :
           \/ pc \in {"process", "transmit"} /\ j < tx_count
           \/ pc = "process" /\ i <= j /\ j < n
           \/ pc = "complete" /\ sent <= j /\ j < tx_count}

(* The worker owns exactly the mbufs of its live slots, each of them once:  *)
(* no mbuf is leaked, freed twice, or used after it was freed or accepted   *)
(* for transmission.  At the poll point and on return it owns nothing.       *)
ExactOwnership ==
  /\ \A m \in Mbufs : owner[m] = "app" <=> \E j \in Live : pkts[j] = m
  /\ \A j, k \in Live : pkts[j] = pkts[k] => j = k
  /\ \A m \in Mbufs : owner[m] # "corrupt"

(* The survivors are transmitted in the order in which they were received.  *)
OrderPreserved ==
  pc \in {"process", "transmit"} =>
    \A j, k \in 0 .. tx_count - 1 : j < k => arrival[pkts[j]] < arrival[pkts[k]]

(* The conservation laws, with the packets received and not yet processed,  *)
(* and the survivors that have no TX verdict yet                            *)
RxLaw(unread) == stats["rx"] = stats["parse_ok"] + stats["parse_unsupported"]
                                 + stats["parse_malformed"] + unread
LookupLaw == stats["parse_ok"] = stats["flow_hit"] + stats["route_hit"]
                                   + stats["lookup_miss"]
ActionLaw == stats["parse_ok"] = stats["action_drop"] + stats["action_forward"]
                                   + stats["action_rewrite"]
TxLaw(unsettled) == stats["action_forward"] + stats["action_rewrite"]
                      = stats["tx_accepted"] + stats["tx_unsent"] + unsettled
DropLaw == stats["drop"] = stats["parse_unsupported"] + stats["parse_malformed"]
                             + stats["action_drop"] + stats["tx_unsent"]

(* The five conservation laws of the packet statistics, at the quiescent    *)
(* point of every burst and when the worker has returned.                   *)
StatsConserved ==
  pc \in {"poll", "done"} =>
    RxLaw(0) /\ LookupLaw /\ ActionLaw /\ TxLaw(0) /\ DropLaw

-----------------------------------------------------------------------------
(* Inductive strengthenings *)

(* Packets counted in rx only *)
Unread == IF pc = "process" THEN n - i ELSE 0

(* The laws hold inside a burst as well. *)
BurstConserved ==
  RxLaw(Unread) /\ LookupLaw /\ ActionLaw /\ TxLaw(tx_count) /\ DropLaw

(* What the control point says of the counts *)
BurstControl ==
  /\ pc \in {"poll", "done"} => tx_count = 0
  /\ pc \in {"transmit", "complete"} => i = n
  /\ pc = "complete" => sent <= tx_count

(* An unprocessed packet still sits in its RX slot, behind every survivor.  *)
BurstOrdered ==
  pc \in {"process", "transmit"} =>
    /\ \A j \in Slots : i <= j /\ j < n => pkts[j] \in Mbufs /\ arrival[pkts[j]] = j
    /\ \A j \in Slots : j < tx_count => pkts[j] \in Mbufs /\ arrival[pkts[j]] < i
    /\ \A j, k \in Slots :
         j < k /\ k < tx_count => arrival[pkts[j]] < arrival[pkts[k]]

(* The inductive invariant: ownership, conservation and order, with what    *)
(* compaction in place makes true between two packets of a burst.           *)
BurstInv == /\ TypeOK /\ ExactOwnership /\ BurstConserved /\ BurstControl
            /\ BurstOrdered

=============================================================================
