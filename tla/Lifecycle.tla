------------------------------ MODULE Lifecycle ------------------------------
(***************************************************************************)
(* One process lifetime of the runtime: Start admits one attempt, and      *)
(* Runtime.owner drives the native library from EAL initialization to EAL  *)
(* cleanup.  Every native call may fail.  Tracked are the resources the    *)
(* library and the binding hold, what the EAL and the PMDs may still       *)
(* reference, the errors, and the teardown statistics that main prints.    *)
(* Workers and publications are the subject of RulePublication; here Run   *)
(* is one call that returns, with or without an error.                     *)
(***************************************************************************)
EXTENDS Integers, FiniteSets

Ports == {0, 1}           \* dp.ports: the RX and the TX device

VARIABLES
  pc,                     \* control point of the owner, or of the call it makes
  attempted,              \* lifecycle.attempted
  probe,                  \* cfg.Probe
  arguments,              \* "none", "live" or "freed": argv of the binding
  eal,                    \* "down", "up", "cleaned", or "partial" after an error
  initialized, rules_configured, rules_qsbr, active_rules,
  pool,                   \* "none", "live" or "freed"
  owned, started,         \* dp.owned, dp.started as sets of ports
  attached,               \* ports whose queues hold mbufs of the pool (PMD)
  ready, running, ran,    \* flags of dp
  stop,                   \* dp.stop
  first_error,            \* local of dp_dataplane_teardown
  next_port,              \* its loop index
  err,                    \* the error owner has collected so far
  teardownErr,            \* local of finishLifecycle
  stats,                  \* ports_closed, pool_freed, snapshot_freed, qsbr_freed
  readyCh, done,          \* closed channels
  failed                  \* history: some native call has failed

eal_vars == <<arguments, eal, initialized>>
rule_vars == <<rules_configured, rules_qsbr, active_rules>>
port_vars == <<owned, started, attached>>
run_vars == <<ready, running, ran>>
teardown_vars == <<first_error, next_port, teardownErr, stats>>
go_vars == <<attempted, probe, readyCh, done>>
vars == <<pc, eal_vars, pool, stop, err, failed, rule_vars, port_vars,
          run_vars, teardown_vars, go_vars>>

Init ==
  /\ pc = "start" /\ attempted = FALSE /\ probe = FALSE
  /\ arguments = "none" /\ eal = "down" /\ initialized = FALSE
  /\ rules_configured = FALSE /\ rules_qsbr = FALSE /\ active_rules = FALSE
  /\ pool = "none" /\ owned = {} /\ started = {} /\ attached = {}
  /\ ready = FALSE /\ running = FALSE /\ ran = FALSE /\ stop = FALSE
  /\ first_error = FALSE /\ next_port = 0 /\ err = FALSE /\ teardownErr = FALSE
  /\ stats = [ports_closed |-> 0, pool_freed |-> FALSE, snapshot_freed |-> FALSE,
              qsbr_freed |-> FALSE]
  /\ readyCh = FALSE /\ done = FALSE /\ failed = FALSE

Goes(from, to) == pc = from /\ pc' = to

(* A native call returns an error to owner, which goes on at to. *)
Fails(from, to) == Goes(from, to) /\ err' = TRUE /\ failed' = TRUE

NoError == UNCHANGED <<err, failed>>

-----------------------------------------------------------------------------
(* Start-up *)

(* The configuration is valid and this is the first attempt of the process; *)
(* any other call returns an error and starts nothing.                      *)
Start ==
  /\ Goes("start", "argv") /\ ~ attempted /\ NoError
  /\ attempted' = TRUE /\ probe' \in BOOLEAN
  /\ UNCHANGED <<eal_vars, pool, stop, rule_vars, port_vars,
                 run_vars, teardown_vars, readyCh, done>>

(* native.Init copies the arguments; freed again if there is no memory *)
AllocateArguments ==
  /\ \/ Goes("argv", "init") /\ NoError /\ arguments' = "live"
     \/ Fails("argv", "startEnd") /\ UNCHANGED arguments
  /\ UNCHANGED <<eal, initialized, pool, stop, rule_vars, port_vars, run_vars,
                 teardown_vars, go_vars>>

dp_runtime_init ==
  /\ Goes("init", "info") /\ NoError
  /\ eal' = "up" /\ initialized' = TRUE
  /\ UNCHANGED <<arguments, pool, stop, rule_vars, port_vars, run_vars, teardown_vars,
                 go_vars>>

(* Mutation: owner returns at once when the initialization fails. *)
AfterFailedInitReturn == "finish"

AfterFailedInit == "startEnd"

(* The version differs, or rte_eal_init fails half-way; arguments stay. *)
RuntimeInitFails ==
  /\ Fails("init", AfterFailedInit)
  /\ eal' \in {"down", "partial"}
  /\ UNCHANGED <<arguments, initialized, pool, stop, rule_vars, port_vars, run_vars,
                 teardown_vars, go_vars>>

(* It returns 0. *)
dp_runtime_get_info == initialized

(* GetInfo; the number of lcores may differ from the number of workers. *)
CheckInfo ==
  /\ \/ /\ Goes("info", IF probe THEN "startEnd" ELSE "configure")
        /\ dp_runtime_get_info /\ NoError
     \/ Fails("info", "startEnd")
  /\ UNCHANGED <<eal_vars, pool, stop, rule_vars, port_vars, run_vars,
                 teardown_vars, go_vars>>

dp_configure_rules ==
  /\ Goes("configure", "setup") /\ NoError
  /\ initialized /\ ~ (rules_configured \/ ready \/ running \/ ran)
  /\ rules_qsbr' = TRUE /\ active_rules' = TRUE /\ rules_configured' = TRUE
  /\ UNCHANGED <<eal_vars, pool, stop, port_vars, run_vars, teardown_vars, go_vars>>

(* dp_qsbr_create fails, or it succeeds and dp_snapshot_build fails. *)
ConfigureRulesFails ==
  /\ Fails("configure", "startEnd")
  /\ rules_qsbr' \in BOOLEAN
  /\ UNCHANGED <<eal_vars, pool, stop, rules_configured, active_rules,
                 port_vars, run_vars, teardown_vars, go_vars>>

(* dp_dataplane_setup up to the mempool: lcore mapping and port checks *)
SetupChecks ==
  /\ initialized /\ pool = "none" /\ ~ ready /\ rules_configured
  /\ \/ Goes("setup", "pool") /\ NoError /\ owned' = Ports
     \/ Fails("setup", "startEnd") /\ UNCHANGED owned
  /\ UNCHANGED <<eal_vars, pool, stop, rule_vars, started, attached, run_vars,
                 teardown_vars, go_vars>>

CreatePool ==
  /\ \/ Goes("pool", "port0") /\ NoError /\ pool' = "live"
     \/ Fails("pool", "startEnd") /\ UNCHANGED pool
  /\ UNCHANGED <<eal_vars, stop, rule_vars, port_vars, run_vars,
                 teardown_vars, go_vars>>

(* setup_port: a failure may leave queues behind that hold mbufs. *)
setup_port(i, from, to) ==
  /\ \/ /\ Goes(from, to) /\ NoError
        /\ started' = started \cup {i} /\ attached' = attached \cup {i}
     \/ /\ Fails(from, "startEnd")
        /\ attached' \in {attached, attached \cup {i}} /\ UNCHANGED started
  /\ UNCHANGED <<eal_vars, pool, stop, rule_vars, owned, run_vars,
                 teardown_vars, go_vars>>

SetupRxPort == setup_port(0, "port0", "port1")
SetupTxPort == setup_port(1, "port1", "setupDone")

(* Mutation: the set-up clears an earlier stop request. *)
StopCleared == FALSE

StopAfterSetup == stop

(* GetInfo again, for the ports and the workers *)
SetupReturns ==
  /\ Goes("setupDone", "startEnd")
  /\ err' = (err \/ ~ dp_runtime_get_info) /\ failed' = (failed \/ ~ dp_runtime_get_info)
  /\ ready' = TRUE /\ stop' = StopAfterSetup
  /\ UNCHANGED <<eal_vars, pool, rule_vars, port_vars, running, ran,
                 teardown_vars, go_vars>>

(* Mutation: a probe is not cleaned up. *)
AfterStartNoProbe == IF ~ err /\ ~ probe THEN "run"
                     ELSE IF initialized /\ ~ probe THEN "teardown" ELSE "finish"

AfterStart == IF ~ err /\ ~ probe THEN "run"
              ELSE IF initialized THEN "teardown" ELSE "finish"

(* startErr is published and Ready returns. *)
CloseReady ==
  /\ Goes("startEnd", AfterStart) /\ NoError
  /\ readyCh' = TRUE
  /\ UNCHANGED <<eal_vars, pool, stop, rule_vars, port_vars, run_vars,
                 teardown_vars, attempted, probe, done>>

-----------------------------------------------------------------------------
(* Run and Stop *)

RunBegins ==
  /\ Goes("run", "running") /\ ready /\ ~ ran /\ NoError
  /\ ran' = TRUE /\ running' = TRUE
  /\ UNCHANGED <<eal_vars, pool, stop, rule_vars, port_vars, ready,
                 teardown_vars, go_vars>>

(* Every worker has returned: after a stop, or because a launch or a worker *)
(* failed, which sets dp.stop as well.  A publication during the run has    *)
(* freed a snapshot and counted it.                                         *)
RunReturns ==
  /\ \/ stop /\ Goes("running", "teardown") /\ NoError
     \/ Fails("running", "teardown")
  /\ stop' = TRUE /\ running' = FALSE
  /\ \E published \in BOOLEAN : stats' = [stats EXCEPT !.snapshot_freed = published]
  /\ UNCHANGED <<eal_vars, pool, rule_vars, port_vars, ready, ran,
                 first_error, next_port, teardownErr, go_vars>>

(* Stop may be called as soon as Start has returned. *)
RequestStop ==
  /\ attempted /\ ~ stop /\ ~ done
  /\ stop' = TRUE
  /\ UNCHANGED <<pc, eal_vars, pool, err, failed, rule_vars, port_vars,
                 run_vars, teardown_vars, go_vars>>

-----------------------------------------------------------------------------
(* finishLifecycle *)

(* dp_dataplane_teardown up to its loop, dp_rules_teardown included; it is  *)
(* refused with -EBUSY, and touches nothing, while the workers run.         *)
TeardownBegins ==
  /\ \/ /\ ~ running /\ Goes("teardown", "closePort") /\ NoError
        /\ ready' = FALSE
        /\ active_rules' = FALSE /\ rules_qsbr' = FALSE /\ rules_configured' = FALSE
        /\ stats' = [stats EXCEPT !.snapshot_freed = @ \/ active_rules,
                                  !.qsbr_freed = @ \/ rules_qsbr]
        /\ first_error' = FALSE /\ next_port' = 0 /\ UNCHANGED teardownErr
     \/ /\ running /\ Goes("teardown", "stats")
        /\ teardownErr' = TRUE /\ failed' = TRUE
        /\ UNCHANGED <<err, ready, rule_vars, stats, first_error, next_port>>
  /\ UNCHANGED <<eal_vars, pool, stop, port_vars, running, ran, go_vars>>

(* Mutation: the result of rte_eth_dev_close is not looked at. *)
CloseUnseen(closes) == TRUE

CloseSeen(closes) == closes

(* One turn of the loop: stop the port if it was started, then close it.    *)
(* stops and closes are what happens, seen is what the code takes the close *)
(* to have returned.                                                        *)
CloseTurn(stops, closes, seen) ==
  LET i == next_port
      is_owned == i \in owned
      fails == is_owned /\ ((i \in started /\ ~ stops) \/ ~ seen)
  IN /\ pc = "closePort" /\ i \in Ports
     /\ started' = IF is_owned /\ stops THEN started \ {i} ELSE started
     /\ attached' = IF is_owned /\ closes THEN attached \ {i} ELSE attached
     /\ owned' = IF seen THEN owned \ {i} ELSE owned
     /\ stats' = [stats EXCEPT !.ports_closed = IF is_owned /\ seen THEN @ + 1 ELSE @]
     /\ first_error' = (first_error \/ fails)
     /\ failed' = (failed \/ fails)
     /\ next_port' = next_port + 1
     /\ UNCHANGED <<pc, eal_vars, pool, stop, err, rule_vars, run_vars,
                    teardownErr, go_vars>>

ClosePort == \E stops, closes \in BOOLEAN : CloseTurn(stops, closes, CloseSeen(closes))

(* Mutation: the pool is freed whatever became of the ports. *)
PoolReleasableAlways == pool = "live"

(* No port is left that could use the mbufs. *)
PoolReleasable == pool = "live" /\ owned = {}

(* The pool goes last. *)
TeardownReturns ==
  /\ Goes("closePort", "stats") /\ next_port \notin Ports
  /\ \E in_use \in BOOLEAN :
       LET frees == PoolReleasable /\ ~ in_use
           busy == PoolReleasable /\ in_use
       IN /\ pool' = IF frees THEN "freed" ELSE pool
          /\ stats' = [stats EXCEPT !.pool_freed = @ \/ frees]
          /\ teardownErr' = (first_error \/ busy)
          /\ failed' = (failed \/ busy)
  /\ UNCHANGED <<eal_vars, stop, err, rule_vars, port_vars, run_vars,
                 first_error, next_port, go_vars>>

(* Mutation: Cleanup is called whatever Teardown returned. *)
AfterStatsCleanup == "cleanup"

AfterStats == IF teardownErr THEN "finish" ELSE "cleanup"

combine(first, next) == first \/ next

(* Mutation: the error of GetStats is not combined with the others. *)
StatsErrorDropped(statsErr) == combine(err, teardownErr)

CombinedErrors(statsErr) == combine(combine(err, teardownErr), statsErr)

(* GetStats, then Cleanup only if Teardown succeeded.  GetStats is reached  *)
(* through the interface cleanupAPI, any implementation of which may return *)
(* an error; the native one does so with -EBUSY while the workers run.      *)
GetStats ==
  /\ Goes("stats", AfterStats)
  /\ \E statsErr \in BOOLEAN :
       /\ running => statsErr
       /\ err' = CombinedErrors(statsErr)
       /\ failed' = (failed \/ statsErr)
  /\ UNCHANGED <<eal_vars, pool, stop, rule_vars, port_vars,
                 run_vars, teardown_vars, go_vars>>

(* The guard of dp_runtime_cleanup, workers and writers aside *)
CleanupBusy == \/ running \/ pool = "live" \/ owned # {} \/ started # {}
               \/ active_rules \/ rules_qsbr \/ rules_configured

(* Mutation: the arguments are freed whatever Cleanup returned. *)
FreeArgumentsAlways(ok) == "freed"

freeArguments(ok) == IF ok THEN "freed" ELSE arguments

(* native.Cleanup: refused, or rte_eal_cleanup succeeds or fails *)
dp_runtime_cleanup ==
  /\ \/ /\ initialized /\ ~ CleanupBusy
        /\ initialized' = FALSE
        /\ \/ /\ Goes("cleanup", "finish") /\ NoError
              /\ eal' = "cleaned" /\ arguments' = freeArguments(TRUE)
           \/ /\ Fails("cleanup", "finish")
              /\ eal' = "partial" /\ arguments' = freeArguments(FALSE)
     \/ /\ ~ initialized \/ CleanupBusy
        /\ Fails("cleanup", "finish") /\ arguments' = freeArguments(FALSE)
        /\ UNCHANGED <<initialized, eal>>
  /\ UNCHANGED <<pool, stop, rule_vars, port_vars, run_vars, teardown_vars, go_vars>>

CloseDone ==
  /\ Goes("finish", "returned") /\ NoError
  /\ done' = TRUE
  /\ UNCHANGED <<eal_vars, pool, stop, rule_vars, port_vars, run_vars,
                 teardown_vars, attempted, probe, readyCh>>

Owner == \/ AllocateArguments \/ dp_runtime_init \/ RuntimeInitFails \/ CheckInfo
         \/ dp_configure_rules
         \/ ConfigureRulesFails \/ SetupChecks \/ CreatePool \/ SetupRxPort
         \/ SetupTxPort \/ SetupReturns \/ CloseReady \/ RunBegins \/ RunReturns
         \/ TeardownBegins \/ ClosePort \/ TeardownReturns \/ GetStats
         \/ dp_runtime_cleanup \/ CloseDone

Next == Start \/ Owner \/ RequestStop

(* The owner goroutine is scheduled; Run returns only after a stop. *)
Spec == Init /\ [][Next]_vars /\ WF_vars(Owner /\ (pc # "running" \/ stop))

-----------------------------------------------------------------------------
(* Properties *)

(* The mempool is never freed under a port whose queues still hold mbufs,   *)
(* whichever step of the set-up, the stop or the close has failed.          *)
PoolOutlivesPorts == pool = "freed" => attached = {}

(* rte_eal_cleanup never runs while anything that lives in EAL memory or    *)
(* devices is still held.                                                   *)
EalOutlivesAll ==
  eal \notin {"down", "up"} =>
    /\ attached = {} /\ owned = {} /\ started = {} /\ pool # "live"
    /\ ~ active_rules /\ ~ rules_qsbr

(* Whatever the EAL keeps of its arguments stays allocated: the binding     *)
(* frees argv only when the EAL is down for good, although every call in    *)
(* between may fail.                                                        *)
ArgumentsOutliveEal == eal \in {"up", "partial"} => arguments = "live"

(* The two halves of the cleanup rule agree: when finishLifecycle decides   *)
(* to call Cleanup, from Teardown's result alone, the guard of              *)
(* dp_runtime_cleanup has nothing to refuse.                                *)
CleanupAccepted == pc = "cleanup" => initialized /\ ~ CleanupBusy

(* Wait returns an error exactly when some call of the lifetime has failed, *)
(* in the start-up, the run, the teardown, the statistics or the cleanup;   *)
(* no later error replaces an earlier one and none is forgotten.            *)
ErrorsReported == done => (err <=> failed)

(* What main prints after a run without error is true: everything was       *)
(* released, both ports closed, pool, snapshot and QSBR freed.              *)
SuccessMeansReleased ==
  done /\ ~ err =>
    /\ eal = "cleaned"
    /\ ~ probe => /\ stats.ports_closed = 2 /\ stats.pool_freed
                  /\ stats.snapshot_freed /\ stats.qsbr_freed

(* A stop request ends the process lifetime, at whatever point of the       *)
(* start-up it arrives.                                                     *)
StopFinishes == stop ~> done

(* Ready returns after Start, with or without an error, without a Stop.     *)
ReadyReturns == attempted ~> readyCh
=============================================================================
