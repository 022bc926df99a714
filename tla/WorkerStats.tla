----------------------------- MODULE WorkerStats -----------------------------
(***************************************************************************)
(* Workers, the lcores and queues they own, and the statistics of a run.   *)
(* Every worker counts the packets of its own queues in a context only it  *)
(* writes; once the workers are joined, dp_dataplane_get_stats adds the    *)
(* contexts up and GetStats copies the result to the control plane.        *)
(* The reader side of the rules is left to RulePublication, the mbufs of a *)
(* burst to PacketBurst.                                                   *)
(***************************************************************************)
EXTENDS Integers, FiniteSets

CONSTANTS LcoreIds,      \* lcores the machine has
          MaxWorkers,    \* DP_MAX_WORKERS
          BurstSize,     \* DP_BURST_SIZE
          MaxBursts,     \* bound: bursts with packets per worker
          MaxEmptyPolls  \* bound: bursts without packets per worker

ASSUME StatsAssumption == /\ LcoreIds \subseteq Nat /\ IsFiniteSet(LcoreIds)
                          /\ MaxWorkers \in Nat /\ BurstSize \in Nat \ {0}
                          /\ MaxBursts \in Nat /\ MaxEmptyPolls \in Nat

VARIABLES
  pc,                 \* control point of the owner
  enabled, main,      \* EAL: the enabled lcores, the main lcore
  near,               \* those on the socket of the main lcore
  worker_count, workers,
  stop,
  wpc,                \* control point of each worker
  burst, tx_count,    \* packets still to process, packets kept for TX
  stats,              \* dp.workers[w].stats
  next, launched,     \* loop index and locals of dp_dataplane_run
  report,             \* what GetStats has returned
  wire,               \* history: packets taken from RX and given to TX queues
  bursts              \* bursts with packets so far

eal_vars == <<enabled, main, near>>
setup_vars == <<eal_vars, worker_count, workers>>
worker_vars == <<wpc, burst, tx_count, stats, wire, bursts>>
vars == <<setup_vars, worker_vars, pc, stop, next, launched, report>>

Counters == {"rx", "parse_ok", "parse_unsupported", "parse_malformed", "flow_hit",
             "route_hit", "lookup_miss", "action_drop", "action_forward",
             "action_rewrite", "tx_accepted", "tx_unsent", "drop", "rx_bursts",
             "rx_empty_polls", "tx_bursts"}
Zero == [c \in Counters |-> 0]
NoReport == [total |-> Zero, rows |-> <<>>]

WorkerIds == 0 .. MaxWorkers - 1

Init ==
  /\ pc = "setup"
  /\ enabled \in SUBSET LcoreIds /\ main \in enabled /\ near \in SUBSET enabled
  /\ main \in near
  /\ worker_count = 0
  /\ workers = [w \in WorkerIds |-> [lcore_id |-> 0, rx_queue_id |-> 0, tx_queue_id |-> 0]]
  /\ stop = FALSE
  /\ wpc = [w \in WorkerIds |-> "idle"]
  /\ burst = [w \in WorkerIds |-> 0] /\ tx_count = [w \in WorkerIds |-> 0]
  /\ stats = [w \in WorkerIds |-> Zero]
  /\ next = 1 /\ launched = 0 /\ report = NoReport
  /\ wire = [rx |-> 0, tx |-> 0] /\ bursts = [w \in WorkerIds |-> 0]

-----------------------------------------------------------------------------
(* setup_workers *)

(* RTE_LCORE_FOREACH visits the enabled lcores in ascending order. *)
LcoreOf(w) ==
  IF w = 0 THEN main
  ELSE CHOOSE l \in enabled \ {main} :
         Cardinality({k \in enabled \ {main} : k < l}) = w - 1

(* Mutation: the queue has the number of the lcore. *)
QueueOfLcore(w) == LcoreOf(w)

QueueOf(w) == w

CountFits(count) == count \in 1 .. MaxWorkers /\ Cardinality(enabled) = count

(* Every worker gets its lcore, the first of them also their queues. *)
Mapped(count, checked) ==
  [w \in WorkerIds |->
     IF w < count THEN [lcore_id |-> LcoreOf(w),
                        rx_queue_id |-> IF w < checked THEN QueueOf(w) ELSE 0,
                        tx_queue_id |-> IF w < checked THEN QueueOf(w) ELSE 0]
     ELSE workers[w]]

(* Workers on another socket than the main lcore *)
Remote(count) == {w \in 0 .. count - 1 : LcoreOf(w) \notin near}

setup_workers(count) ==
  /\ pc = "setup" /\ pc' = "run" /\ CountFits(count) /\ Remote(count) = {}
  /\ worker_count' = count /\ workers' = Mapped(count, count)
  /\ UNCHANGED <<eal_vars, worker_vars, stop, next, launched, report>>

(* -EINVAL: nothing is stored. *)
CountRejected(count) ==
  /\ pc = "setup" /\ pc' = "stopped" /\ ~ CountFits(count)
  /\ UNCHANGED <<setup_vars, worker_vars, stop, next, launched, report>>

(* -EXDEV: the statistics of the failed start have rows without packets. *)
SocketRejected(count) ==
  /\ pc = "setup" /\ pc' = "stopped" /\ CountFits(count)
  /\ \E w \in Remote(count) : /\ \A v \in Remote(count) : w <= v
                              /\ workers' = Mapped(count, w)
  /\ worker_count' = count
  /\ UNCHANGED <<eal_vars, worker_vars, stop, next, launched, report>>

(* A later check or step of dp_dataplane_setup fails; there is no run. *)
SetupFails ==
  /\ pc = "run" /\ pc' = "stopped"
  /\ UNCHANGED <<setup_vars, worker_vars, stop, next, launched, report>>

-----------------------------------------------------------------------------
(* dp_dataplane_run *)

RemoteLaunch ==
  /\ pc \in {"run", "launch"} /\ pc' = "launch" /\ next < worker_count
  /\ wpc' = [wpc EXCEPT ![next] = "register"]
  /\ next' = next + 1 /\ launched' = launched + 1
  /\ UNCHANGED <<setup_vars, stop, burst, tx_count, stats, wire, bursts, report>>

(* The workers launched so far are stopped and joined; worker 0 never runs. *)
RemoteLaunchFails ==
  /\ pc \in {"run", "launch"} /\ pc' = "join" /\ next < worker_count
  /\ stop' = TRUE /\ next' = 1
  /\ UNCHANGED <<setup_vars, worker_vars, launched, report>>

MainWorker ==
  /\ pc \in {"run", "launch"} /\ pc' = "main" /\ next = worker_count
  /\ wpc' = [wpc EXCEPT ![0] = "register"]
  /\ UNCHANGED <<setup_vars, stop, burst, tx_count, stats, wire, bursts, next, launched,
                 report>>

MainWorkerReturns ==
  /\ pc = "main" /\ pc' = "join" /\ wpc[0] = "done"
  /\ next' = 1
  /\ UNCHANGED <<setup_vars, worker_vars, stop, launched, report>>

(* Mutation: the workers are not waited for. *)
JoinedAtOnce(w) == TRUE

(* rte_eal_wait_lcore *)
Joined(w) == wpc[w] = "done"

JoinWorker ==
  /\ pc = "join" /\ next <= launched /\ Joined(next)
  /\ next' = next + 1
  /\ UNCHANGED <<setup_vars, worker_vars, pc, stop, launched, report>>

RunReturns ==
  /\ pc = "join" /\ next > launched
  /\ pc' = "stopped"
  /\ UNCHANGED <<setup_vars, worker_vars, stop, next, launched, report>>

RequestStop ==
  /\ ~ stop /\ stop' = TRUE
  /\ UNCHANGED <<setup_vars, worker_vars, pc, next, launched, report>>

-----------------------------------------------------------------------------
(* dp_worker_run, counters only *)

Add(w, more) == stats' = [stats EXCEPT ![w] = [c \in Counters |->
                            IF c \in DOMAIN more THEN @[c] + more[c] ELSE @[c]]]

WorkerUnchanged == UNCHANGED <<setup_vars, pc, stop, next, launched, report>>

WorkerRegisters(w) ==
  /\ wpc[w] = "register" /\ wpc' = [wpc EXCEPT ![w] = "poll"]
  /\ UNCHANGED <<burst, tx_count, stats, wire, bursts>> /\ WorkerUnchanged

(* One turn of the loop with an empty queue *)
EmptyPoll(w) ==
  /\ wpc[w] = "poll" /\ ~ stop /\ stats[w].rx_empty_polls < MaxEmptyPolls
  /\ Add(w, [rx_bursts |-> 1, rx_empty_polls |-> 1])
  /\ UNCHANGED <<wpc, burst, tx_count, wire, bursts>> /\ WorkerUnchanged

RxBurst(w) ==
  /\ wpc[w] = "poll" /\ ~ stop /\ bursts[w] < MaxBursts
  /\ wpc' = [wpc EXCEPT ![w] = "process"]
  /\ \E n \in 1 .. BurstSize :
       /\ Add(w, [rx_bursts |-> 1, rx |-> n])
       /\ burst' = [burst EXCEPT ![w] = n]
       /\ wire' = [wire EXCEPT !.rx = @ + n]
  /\ bursts' = [bursts EXCEPT ![w] = @ + 1]
  /\ UNCHANGED tx_count /\ WorkerUnchanged

(* dp_process_packet: the packet is dropped or kept for TX *)
ProcessPacket(w) ==
  /\ wpc[w] = "process" /\ burst[w] > 0
  /\ burst' = [burst EXCEPT ![w] = @ - 1]
  /\ \/ /\ \E why \in {"parse_unsupported", "parse_malformed"} :
             Add(w, [c \in {why, "drop"} |-> 1])
        /\ UNCHANGED tx_count
     \/ /\ \E hit \in {"flow_hit", "route_hit", "lookup_miss"} :
             Add(w, [c \in {"parse_ok", hit, "action_drop", "drop"} |-> 1])
        /\ UNCHANGED tx_count
     \/ /\ \E hit \in {"flow_hit", "route_hit"}, act \in {"action_forward", "action_rewrite"} :
             Add(w, [c \in {"parse_ok", hit, act} |-> 1])
        /\ tx_count' = [tx_count EXCEPT ![w] = @ + 1]
  /\ UNCHANGED <<wpc, wire, bursts>> /\ WorkerUnchanged

(* rte_eth_tx_burst takes some of the packets; dp_complete_tx *)
TxBurst(w) ==
  /\ wpc[w] = "process" /\ burst[w] = 0
  /\ wpc' = [wpc EXCEPT ![w] = "poll"]
  /\ \E sent \in 0 .. tx_count[w] :
       /\ Add(w, [tx_bursts |-> IF tx_count[w] # 0 THEN 1 ELSE 0, tx_accepted |-> sent,
                  tx_unsent |-> tx_count[w] - sent, drop |-> tx_count[w] - sent])
       /\ wire' = [wire EXCEPT !.tx = @ + sent]
  /\ tx_count' = [tx_count EXCEPT ![w] = 0]
  /\ UNCHANGED <<burst, bursts>> /\ WorkerUnchanged

(* The stop flag is seen, or the reader could not be registered. *)
WorkerReturns(w) ==
  /\ wpc[w] = "register" \/ (wpc[w] = "poll" /\ stop)
  /\ wpc' = [wpc EXCEPT ![w] = "done"] /\ stop' = TRUE
  /\ UNCHANGED <<setup_vars, burst, tx_count, stats, wire, bursts, pc, next, launched, report>>

-----------------------------------------------------------------------------
(* dp_dataplane_get_stats and GetStats *)

dp_packet_stats_add(total, local) == [c \in Counters |-> total[c] + local[c]]

Total[k \in 0 .. MaxWorkers] ==
  IF k = 0 THEN Zero ELSE dp_packet_stats_add(Total[k - 1], stats[k - 1])

dp_dataplane_get_stats ==
  [total |-> Total[worker_count],
   rows |-> [w \in 0 .. worker_count - 1 |-> [info |-> workers[w], packets |-> stats[w]]]]

(* The counters go field by field and the rows one by one to the Go side. *)
GetStats ==
  /\ pc = "stopped" /\ pc' = "reported"
  /\ report' = dp_dataplane_get_stats
  /\ UNCHANGED <<setup_vars, worker_vars, stop, next, launched>>

Worker(w) == \/ WorkerRegisters(w) \/ EmptyPoll(w) \/ RxBurst(w) \/ ProcessPacket(w) \/ TxBurst(w)
             \/ WorkerReturns(w)

Next ==
  \/ \E count \in 0 .. MaxWorkers + 1 :
       setup_workers(count) \/ CountRejected(count) \/ SocketRejected(count)
  \/ SetupFails \/ RemoteLaunch \/ RemoteLaunchFails \/ MainWorker \/ MainWorkerReturns
  \/ JoinWorker \/ RunReturns \/ RequestStop \/ GetStats
  \/ \E w \in WorkerIds : Worker(w)

Spec == Init /\ [][Next]_vars

-----------------------------------------------------------------------------
(* Properties *)

Running(w) == wpc[w] \in {"register", "poll", "process"}

(* The queues the ports are set up with are 0 .. worker_count - 1, and each *)
(* is used by exactly one worker, each on an enabled lcore of its own, the  *)
(* first on the main lcore: no queue or worker context is shared and no     *)
(* configured queue is left unpolled (setup_workers).                       *)
QueuesExclusive ==
  pc \notin {"setup", "stopped", "reported"} =>
    LET used == 0 .. worker_count - 1 IN
    /\ {workers[w].rx_queue_id : w \in used} = used
    /\ {workers[w].tx_queue_id : w \in used} = used
    /\ {workers[w].lcore_id : w \in used} = enabled
    /\ workers[0].lcore_id = main

(* The report is exact: its totals count the packets that were taken from   *)
(* the RX queues and given to the TX queues, every packet is accounted for  *)
(* once per stage, no worker changes its row after it was read, and the     *)
(* rows add up, also when a launch has failed or a worker has ended early.  *)
ReportExact ==
  pc = "reported" =>
    LET t == report.total IN
    /\ t.rx = wire.rx /\ t.tx_accepted = wire.tx
    /\ t.rx = t.parse_ok + t.parse_unsupported + t.parse_malformed
    /\ t.parse_ok = t.flow_hit + t.route_hit + t.lookup_miss
    /\ t.parse_ok = t.action_drop + t.action_forward + t.action_rewrite
    /\ t.action_forward + t.action_rewrite = t.tx_accepted + t.tx_unsent
    /\ t.drop = t.parse_unsupported + t.parse_malformed + t.action_drop + t.tx_unsent
    /\ \A w \in DOMAIN report.rows : report.rows[w].packets = stats[w] /\ ~ Running(w)

=============================================================================
