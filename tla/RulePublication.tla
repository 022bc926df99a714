--------------------------- MODULE RulePublication ---------------------------
(***************************************************************************)
(* Publication and reclamation of rule snapshots in the native data plane. *)
(*                                                                         *)
(* The owner thread configures generation 1, launches the workers, joins   *)
(* them, tears the rules down and cleans up the EAL.  Every worker polls   *)
(* its queue and reads the active snapshot once per burst.  Publisher      *)
(* threads replace the snapshot at any moment: they build a new one, swap  *)
(* the pointer, wait for a QSBR grace period and free the old one.         *)
(*                                                                         *)
(* A snapshot is identified by its generation; 0 is the NULL pointer.      *)
(* Every access to an atomic or to the QSBR variable that another thread   *)
(* can observe is a step of its own.                                       *)
(***************************************************************************)
EXTENDS QSBR, FiniteSets

CONSTANTS WorkerCount,   \* dp.worker_count
          Publishers,    \* the threads that call dp_publish_rules
          MaxCalls       \* bound: calls of dp_publish_rules per publisher

ASSUME WorkerCountAssumption == WorkerCount \in 1 .. ReaderCapacity
ASSUME MaxCallsAssumption == MaxCalls \in Nat

Workers == 0 .. WorkerCount - 1

Null == 0        \* the NULL snapshot pointer
Owner == "owner" \* the owner thread as holder of the writer lock
Free == "free"   \* nobody holds the writer lock

ASSUME PublishersAssumption == Owner \notin Publishers /\ Free \notin Publishers

VARIABLES
  \* struct dp_state: lifecycle flags, written by the owner only
  initialized, ready, running, ran, rules_configured,
  \* struct dp_state: atomics, the rules and the writer lock
  stop, active_rules, writer_lock, writer_active,
  active_workers, registered_readers,
  \* dp.stats.rules_*
  rules_generation, rules_publish_success, rules_publish_failed, rules_reclaimed,
  \* memory: allocated snapshots; whether dp.rules_qsbr, the variable of
  \* module QSBR, is allocated
  heap, rules_qsbr,
  \* per worker: control point, the local pointer, a loaded token, burst size,
  \* struct dp_worker_ctx
  wpc, snapshot, wtoken, burst, launched, reader_registered, result,
  \* per publisher: control point, locals, calls made so far
  ppc, new_snapshot, old_snapshot, ptoken, pending, calls,
  \* highest generation a dp_publish_rules call has returned to its caller
  returned,
  \* owner: control point, locals of dp_dataplane_run and dp_rules_teardown
  opc, oi, nlaunched, first_error, tsnapshot

lifecycle_vars == <<initialized, ready, running, ran, rules_configured>>
stat_vars == <<rules_generation, rules_publish_success, rules_publish_failed,
               rules_reclaimed>>
lock_vars == <<writer_lock, writer_active>>
local_vars == <<snapshot, wtoken, burst>>
count_vars == <<active_workers, registered_readers, reader_registered, result>>
worker_vars == <<wpc, launched, local_vars, count_vars>>
publisher_vars == <<ppc, new_snapshot, old_snapshot, ptoken, pending, calls,
                    returned>>
owner_vars == <<opc, oi, nlaunched, first_error, tsnapshot>>
vars == <<lifecycle_vars, stop, active_rules, lock_vars, stat_vars, heap,
          rules_qsbr, token, registered, cnt, worker_vars, publisher_vars,
          owner_vars>>

-----------------------------------------------------------------------------
(* Control points *)

WorkerPC == {"idle", "enter", "register", "online_load", "online_store",
             "count", "loop", "load", "process", "quiescent_load",
             "quiescent_store", "offline", "unregister", "leave", "fail",
             "done"}
PublisherPC == {"idle", "lock", "mark", "guard", "build", "exchange", "start",
                "scan", "check", "out", "unlock"}
OwnerPC == {"configure", "setup", "run", "launch", "main", "join", "teardown",
            "rules_lock", "rules_exchange", "rules_free", "rules_unlock",
            "cleanup", "busy", "done"}

(* dp_runtime_init has succeeded; nothing else has been called. *)
Init ==
  /\ initialized = TRUE /\ ready = FALSE /\ running = FALSE /\ ran = FALSE
  /\ rules_configured = FALSE
  /\ stop = FALSE /\ active_rules = Null
  /\ writer_lock = Free /\ writer_active = FALSE
  /\ active_workers = 0 /\ registered_readers = 0
  /\ rules_generation = 0 /\ rules_publish_success = 0
  /\ rules_publish_failed = 0 /\ rules_reclaimed = 0
  /\ heap = {} /\ rules_qsbr = FALSE
  /\ rte_rcu_qsbr_init
  /\ wpc = [w \in Workers |-> "idle"]
  /\ snapshot = [w \in Workers |-> Null]
  /\ wtoken = [w \in Workers |-> 0]
  /\ burst = [w \in Workers |-> FALSE]
  /\ launched = [w \in Workers |-> FALSE]
  /\ reader_registered = [w \in Workers |-> FALSE]
  /\ result = [w \in Workers |-> 0]
  /\ ppc = [p \in Publishers |-> "idle"]
  /\ new_snapshot = [p \in Publishers |-> Null]
  /\ old_snapshot = [p \in Publishers |-> Null]
  /\ ptoken = [p \in Publishers |-> 0]
  /\ pending = [p \in Publishers |-> {}]
  /\ calls = [p \in Publishers |-> 0]
  /\ returned = 0
  /\ opc = "configure" /\ oi = 0 /\ nlaunched = 0 /\ first_error = 0
  /\ tsnapshot = Null

-----------------------------------------------------------------------------
(* dp_worker_run, executed by worker w *)

WorkerGoto(w, from, to) ==
  /\ wpc[w] = from
  /\ wpc' = [wpc EXCEPT ![w] = to]
  /\ UNCHANGED <<lifecycle_vars, active_rules, lock_vars, stat_vars, heap,
                 rules_qsbr, launched, publisher_vars, owner_vars>>

WorkerEnter(w) ==
  /\ WorkerGoto(w, "enter", "register")
  /\ active_workers' = active_workers + 1
  /\ UNCHANGED <<stop, local_vars, registered_readers, reader_registered,
                 result, qsbr_vars>>

(* dp_rules_reader_register fails, or the worker failure hook fires: the   *)
(* worker asks every other worker to stop.                                 *)
WorkerRegisterFails(w) ==
  /\ WorkerGoto(w, "register", "fail")
  /\ result' = [result EXCEPT ![w] = -1]
  /\ stop' = TRUE
  /\ UNCHANGED <<local_vars, active_workers, registered_readers,
                 reader_registered, qsbr_vars>>

(* Mutation: the failing worker stays counted as active. *)
ActiveAfterFailureUncounted == active_workers

ActiveAfterFailure == active_workers - 1

WorkerFail(w) ==
  /\ WorkerGoto(w, "fail", "done")
  /\ active_workers' = ActiveAfterFailure
  /\ UNCHANGED <<stop, local_vars, registered_readers, reader_registered,
                 result, qsbr_vars>>

WorkerRegister(w) ==
  /\ rules_qsbr
  /\ WorkerGoto(w, "register", "online_load")
  /\ rte_rcu_qsbr_thread_register(w)
  /\ UNCHANGED <<stop, local_vars, count_vars>>

WorkerOnlineLoad(w) ==
  /\ WorkerGoto(w, "online_load", "online_store")
  /\ wtoken' = [wtoken EXCEPT ![w] = token]
  /\ UNCHANGED <<stop, snapshot, burst, count_vars, qsbr_vars>>

WorkerOnlineStore(w) ==
  /\ WorkerGoto(w, "online_store", "count")
  /\ qsbr_store(w, wtoken[w])
  /\ UNCHANGED <<stop, local_vars, count_vars>>

(* Both are read by the owner only, after the worker has returned. *)
WorkerCountReader(w) ==
  /\ WorkerGoto(w, "count", "loop")
  /\ registered_readers' = registered_readers + 1
  /\ reader_registered' = [reader_registered EXCEPT ![w] = TRUE]
  /\ UNCHANGED <<stop, local_vars, active_workers, result, qsbr_vars>>

(* The stop flag is clear; rte_eth_rx_burst returns packets, or none. *)
WorkerPoll(w) ==
  /\ ~stop
  /\ WorkerGoto(w, "loop", "load")
  /\ \E packets \in BOOLEAN : burst' = [burst EXCEPT ![w] = packets]
  /\ UNCHANGED <<stop, snapshot, wtoken, count_vars, qsbr_vars>>

(* Mutation: an empty poll does not report a quiescent state. *)
AfterLoadNotQuiescent(w) == IF burst[w] THEN "process" ELSE "loop"

(* An empty burst goes to its quiescent point. *)
AfterLoad(w) == IF burst[w] THEN "process" ELSE "quiescent_load"

(* Mutation: the pointer loaded for the first burst is kept. *)
dp_rules_active_load_once(w) == IF snapshot[w] = Null THEN active_rules ELSE snapshot[w]

dp_rules_active_load(w) == active_rules

WorkerLoad(w) ==
  /\ WorkerGoto(w, "load", AfterLoad(w))
  /\ snapshot' = [snapshot EXCEPT ![w] = dp_rules_active_load(w)]
  /\ UNCHANGED <<stop, wtoken, burst, count_vars, qsbr_vars>>

(* The lookups, the actions and the TX of the burst end here.  The worker   *)
(* dereferences its snapshot from WorkerLoad up to this step.               *)
WorkerProcess(w) ==
  /\ WorkerGoto(w, "process", "quiescent_load")
  /\ UNCHANGED <<stop, local_vars, count_vars, qsbr_vars>>

WorkerQuiescentLoad(w) ==
  /\ WorkerGoto(w, "quiescent_load", "quiescent_store")
  /\ wtoken' = [wtoken EXCEPT ![w] = token]
  /\ UNCHANGED <<stop, snapshot, burst, count_vars, qsbr_vars>>

WorkerQuiescentStore(w) ==
  /\ WorkerGoto(w, "quiescent_store", "loop")
  /\ qsbr_store(w, wtoken[w])
  /\ UNCHANGED <<stop, local_vars, count_vars>>

WorkerStop(w) ==
  /\ stop
  /\ WorkerGoto(w, "loop", "offline")
  /\ UNCHANGED <<stop, local_vars, count_vars, qsbr_vars>>

WorkerOffline(w) ==
  /\ WorkerGoto(w, "offline", "unregister")
  /\ rte_rcu_qsbr_thread_offline(w)
  /\ UNCHANGED <<stop, local_vars, count_vars>>

WorkerUnregister(w) ==
  /\ WorkerGoto(w, "unregister", "leave")
  /\ rte_rcu_qsbr_thread_unregister(w)
  /\ UNCHANGED <<stop, local_vars, count_vars>>

WorkerLeave(w) ==
  /\ WorkerGoto(w, "leave", "done")
  /\ registered_readers' = registered_readers - 1
  /\ reader_registered' = [reader_registered EXCEPT ![w] = FALSE]
  /\ result' = [result EXCEPT ![w] = 0]
  /\ active_workers' = active_workers - 1
  /\ UNCHANGED <<stop, local_vars, qsbr_vars>>

WorkerStep(w) ==
  \/ WorkerEnter(w) \/ WorkerRegisterFails(w) \/ WorkerFail(w)
  \/ WorkerRegister(w) \/ WorkerOnlineLoad(w) \/ WorkerOnlineStore(w)
  \/ WorkerCountReader(w) \/ WorkerPoll(w) \/ WorkerLoad(w)
  \/ WorkerProcess(w) \/ WorkerQuiescentLoad(w) \/ WorkerQuiescentStore(w)
  \/ WorkerStop(w) \/ WorkerOffline(w) \/ WorkerUnregister(w)
  \/ WorkerLeave(w)

-----------------------------------------------------------------------------
(* dp_publish_rules, executed by publisher p *)

PublisherGoto(p, from, to) ==
  /\ ppc[p] = from
  /\ ppc' = [ppc EXCEPT ![p] = to]
  /\ UNCHANGED <<lifecycle_vars, stop, rules_qsbr, worker_vars, owner_vars>>

(* The native layer itself has no guard in front of its writer lock. *)
PublishEnters(p) ==
  /\ calls[p] < MaxCalls
  /\ PublisherGoto(p, "idle", "lock")
  /\ calls' = [calls EXCEPT ![p] = @ + 1]
  /\ UNCHANGED <<active_rules, lock_vars, stat_vars, heap, qsbr_vars,
                 new_snapshot, old_snapshot, ptoken, pending, returned>>

(* The contract of the native layer alone: a publication does not overlap   *)
(* with dp_configure_rules, which takes no lock.  A call may come after the *)
(* teardown.  RuntimeRules shows that the Go runtime keeps the contract.    *)
PublishCall(p) == opc \notin {"configure", "setup"} /\ PublishEnters(p)

PublishLock(p) ==
  /\ writer_lock = Free
  /\ PublisherGoto(p, "lock", "mark")
  /\ writer_lock' = p
  /\ UNCHANGED <<active_rules, writer_active, stat_vars, heap, qsbr_vars,
                 new_snapshot, old_snapshot, ptoken, pending, calls, returned>>

PublishMark(p) ==
  /\ PublisherGoto(p, "mark", "guard")
  /\ writer_active' = TRUE
  /\ UNCHANGED <<active_rules, writer_lock, stat_vars, heap, qsbr_vars,
                 new_snapshot, old_snapshot, ptoken, pending, calls, returned>>

(* -ENODEV before configuration and after teardown *)
PublishGuard(p) ==
  /\ PublisherGoto(p, "guard",
       IF initialized /\ rules_configured /\ rules_qsbr /\ active_rules # Null
       THEN "build" ELSE "out")
  /\ UNCHANGED <<active_rules, lock_vars, stat_vars, heap, qsbr_vars,
                 new_snapshot, old_snapshot, ptoken, pending, calls, returned>>

(* Mutation: the generation is kept in an integer that is too narrow. *)
NextGenerationNarrow == 1 + (rules_generation % 2)

(* Mutation: a failed publication uses up a generation. *)
NextGenerationSkips == rules_generation + rules_publish_failed + 1

NextGeneration == rules_generation + 1

(* dp_snapshot_build succeeds *)
PublishBuild(p) ==
  /\ PublisherGoto(p, "build", "exchange")
  /\ new_snapshot' = [new_snapshot EXCEPT ![p] = NextGeneration]
  /\ heap' = heap \cup {NextGeneration}
  /\ UNCHANGED <<active_rules, lock_vars, stat_vars, qsbr_vars, old_snapshot,
                 ptoken, pending, calls, returned>>

(* dp_snapshot_build fails and has released everything it allocated *)
PublishBuildFails(p) ==
  /\ PublisherGoto(p, "build", "out")
  /\ rules_publish_failed' = rules_publish_failed + 1
  /\ UNCHANGED <<active_rules, lock_vars, rules_generation,
                 rules_publish_success, rules_reclaimed, heap, qsbr_vars,
                 new_snapshot, old_snapshot, ptoken, pending, calls, returned>>

(* Mutation: there is no grace period. *)
AfterExchangeNoGrace == "check"

AfterExchange == "start"

PublishExchange(p) ==
  /\ PublisherGoto(p, "exchange", AfterExchange)
  /\ old_snapshot' = [old_snapshot EXCEPT ![p] = active_rules]
  /\ active_rules' = new_snapshot[p]
  /\ rules_generation' = new_snapshot[p]
  /\ rules_publish_success' = rules_publish_success + 1
  /\ UNCHANGED <<lock_vars, rules_publish_failed, rules_reclaimed, heap,
                 qsbr_vars, new_snapshot, ptoken, pending, calls, returned>>

PublishStart(p) ==
  /\ PublisherGoto(p, "start", "scan")
  /\ rte_rcu_qsbr_start
  /\ ptoken' = [ptoken EXCEPT ![p] = token + 1]
  /\ UNCHANGED <<active_rules, lock_vars, stat_vars, heap, new_snapshot,
                 old_snapshot, pending, calls, returned>>

(* rte_rcu_qsbr_check: the first load of the bitmap *)
PublishScan(p) ==
  /\ PublisherGoto(p, "scan", "check")
  /\ pending' = [pending EXCEPT ![p] = registered]
  /\ UNCHANGED <<active_rules, lock_vars, stat_vars, heap, qsbr_vars,
                 new_snapshot, old_snapshot, ptoken, calls, returned>>

(* rte_rcu_qsbr_check visits a reader: passes it, or reloads the bitmap *)
PublishCheck(p) ==
  /\ PublisherGoto(p, "check", "check")
  /\ \E r \in pending[p] :
       pending' = [pending EXCEPT ![p] =
                     IF Acked(r, ptoken[p]) THEN @ \ {r} ELSE registered]
  /\ UNCHANGED <<active_rules, lock_vars, stat_vars, heap, qsbr_vars,
                 new_snapshot, old_snapshot, ptoken, calls, returned>>

(* Mutation: the memory is not given back. *)
dp_snapshot_free_nothing(s) == heap

(* The allocated snapshots without s *)
dp_snapshot_free(s) == heap \ {s}

(* Every reader has passed: the old snapshot goes, *generation is set. *)
PublishReclaim(p) ==
  /\ pending[p] = {}
  /\ PublisherGoto(p, "check", "out")
  /\ heap' = dp_snapshot_free(old_snapshot[p])
  /\ rules_reclaimed' = rules_reclaimed + 1
  /\ returned' = new_snapshot[p]
  /\ UNCHANGED <<active_rules, lock_vars, rules_generation,
                 rules_publish_success, rules_publish_failed, qsbr_vars,
                 new_snapshot, old_snapshot, ptoken, pending, calls>>

PublishClear(p) ==
  /\ PublisherGoto(p, "out", "unlock")
  /\ writer_active' = FALSE
  /\ UNCHANGED <<active_rules, writer_lock, stat_vars, heap, qsbr_vars,
                 new_snapshot, old_snapshot, ptoken, pending, calls, returned>>

PublishUnlock(p) ==
  /\ PublisherGoto(p, "unlock", "idle")
  /\ writer_lock' = Free
  /\ UNCHANGED <<active_rules, writer_active, stat_vars, heap, qsbr_vars,
                 new_snapshot, old_snapshot, ptoken, pending, calls, returned>>

PublishProgress(p) ==
  \/ PublishLock(p) \/ PublishMark(p) \/ PublishGuard(p) \/ PublishBuild(p)
  \/ PublishBuildFails(p) \/ PublishExchange(p) \/ PublishStart(p)
  \/ PublishScan(p) \/ PublishCheck(p) \/ PublishReclaim(p)
  \/ PublishClear(p) \/ PublishUnlock(p)

-----------------------------------------------------------------------------
(* The owner thread: dp_configure_rules, dp_dataplane_setup,               *)
(* dp_dataplane_run, dp_dataplane_teardown and dp_runtime_cleanup, in the  *)
(* order in which Runtime.owner calls them.                                *)

OwnerGoto(from, to) ==
  /\ opc = from
  /\ opc' = to
  /\ UNCHANGED publisher_vars

(* dp_qsbr_create, then dp_snapshot_build of generation 1.  No lock is taken. *)
ConfigureRules ==
  /\ OwnerGoto("configure", "setup")
  /\ initialized /\ ~(rules_configured \/ ready \/ running \/ ran)
  /\ rules_qsbr' = TRUE
  /\ heap' = heap \cup {1}
  /\ active_rules' = 1
  /\ rules_configured' = TRUE
  /\ rules_generation' = 1
  /\ rules_publish_success' = 1
  /\ UNCHANGED <<initialized, ready, running, ran, stop, lock_vars,
                 rules_publish_failed, rules_reclaimed, qsbr_vars,
                 worker_vars, oi, nlaunched, first_error, tsnapshot>>

(* dp_qsbr_create fails and leaves nothing, or it succeeds and the build   *)
(* fails: then the QSBR variable stays allocated.                          *)
ConfigureRulesFails ==
  /\ OwnerGoto("configure", "teardown")
  /\ \/ UNCHANGED <<rules_qsbr, rules_publish_failed>>
     \/ /\ rules_qsbr' = TRUE
        /\ rules_publish_failed' = rules_publish_failed + 1
  /\ UNCHANGED <<lifecycle_vars, stop, active_rules, lock_vars, heap,
                 rules_generation, rules_publish_success, rules_reclaimed,
                 qsbr_vars, worker_vars, oi, nlaunched, first_error, tsnapshot>>

(* dp_dataplane_setup: only a complete setup sets ready *)
Setup ==
  /\ \E ok \in BOOLEAN :
       /\ OwnerGoto("setup", IF ok THEN "run" ELSE "teardown")
       /\ ready' = ok
  /\ UNCHANGED <<initialized, running, ran, rules_configured, stop,
                 active_rules, lock_vars, stat_vars, heap, rules_qsbr,
                 qsbr_vars, worker_vars, oi, nlaunched, first_error, tsnapshot>>

RunBegin ==
  /\ OwnerGoto("run", "launch")
  /\ ready /\ ~ran
  /\ ran' = TRUE
  /\ running' = TRUE
  /\ oi' = 1
  /\ UNCHANGED <<initialized, ready, rules_configured, stop, active_rules,
                 lock_vars, stat_vars, heap, rules_qsbr, qsbr_vars,
                 worker_vars, nlaunched, first_error, tsnapshot>>

OwnerRunUnchanged ==
  UNCHANGED <<initialized, ready, ran, rules_configured, active_rules,
              lock_vars, stat_vars, heap, rules_qsbr, qsbr_vars, local_vars,
              count_vars, tsnapshot>>

(* rte_eal_remote_launch(worker oi); worker 0 runs on the owner's own lcore *)
RemoteLaunch ==
  /\ OwnerGoto("launch", "launch")
  /\ oi < WorkerCount
  /\ wpc' = [wpc EXCEPT ![oi] = "enter"]
  /\ launched' = [launched EXCEPT ![oi] = TRUE]
  /\ nlaunched' = nlaunched + 1
  /\ oi' = oi + 1
  /\ UNCHANGED <<running, stop, first_error>>
  /\ OwnerRunUnchanged

RemoteLaunchFails ==
  /\ OwnerGoto("launch", "join")
  /\ oi < WorkerCount
  /\ first_error' = -1
  /\ stop' = TRUE
  /\ oi' = 1
  /\ UNCHANGED <<running, wpc, launched, nlaunched>>
  /\ OwnerRunUnchanged

MainWorker ==
  /\ OwnerGoto("launch", "main")
  /\ oi >= WorkerCount
  /\ wpc' = [wpc EXCEPT ![0] = "enter"]
  /\ launched' = [launched EXCEPT ![0] = TRUE]
  /\ UNCHANGED <<running, stop, oi, nlaunched, first_error>>
  /\ OwnerRunUnchanged

MainWorkerReturns ==
  /\ OwnerGoto("main", "join")
  /\ wpc[0] = "done"
  /\ launched' = [launched EXCEPT ![0] = FALSE]
  /\ first_error' = IF result[0] < 0 THEN result[0] ELSE first_error
  /\ oi' = 1
  /\ UNCHANGED <<running, stop, wpc, nlaunched>>
  /\ OwnerRunUnchanged

(* Mutation: the worker is not waited for. *)
JoinedAtOnce == TRUE

(* rte_eal_wait_lcore has returned for worker oi *)
Joined == wpc[oi] = "done"

(* Mutation: the result of the last worker is the result of the run. *)
LastError == result[oi]

FirstError == IF result[oi] < 0 /\ first_error = 0 THEN result[oi] ELSE first_error

JoinWorker ==
  /\ OwnerGoto("join", "join")
  /\ oi <= nlaunched /\ Joined
  /\ launched' = [launched EXCEPT ![oi] = FALSE]
  /\ first_error' = FirstError
  /\ oi' = oi + 1
  /\ UNCHANGED <<running, stop, wpc, nlaunched>>
  /\ OwnerRunUnchanged

RunReturns ==
  /\ OwnerGoto("join", "teardown")
  /\ oi > nlaunched
  /\ running' = FALSE
  /\ UNCHANGED <<stop, wpc, launched, oi, nlaunched, first_error>>
  /\ OwnerRunUnchanged

(* dp_workers_stopped *)
WorkersStopped ==
  /\ active_workers = 0
  /\ registered_readers = 0
  /\ \A w \in Workers : ~launched[w] /\ ~reader_registered[w]

OwnerEndUnchanged ==
  UNCHANGED <<running, ran, stop, stat_vars, qsbr_vars, worker_vars, oi,
              nlaunched, first_error>>

(* The entry of dp_dataplane_teardown: -EBUSY while a worker may be alive *)
Teardown ==
  /\ OwnerGoto("teardown",
               IF running \/ ~WorkersStopped THEN "busy" ELSE "rules_lock")
  /\ ready' = (ready /\ (running \/ ~WorkersStopped))
  /\ UNCHANGED <<initialized, rules_configured, active_rules, lock_vars, heap,
                 rules_qsbr, tsnapshot>>
  /\ OwnerEndUnchanged

(* dp_rules_teardown.  The owner is the only reader of writer_active, so    *)
(* its own stores of it need no step of their own.                          *)
RulesLock ==
  /\ writer_lock = Free
  /\ OwnerGoto("rules_lock", "rules_exchange")
  /\ writer_lock' = Owner
  /\ writer_active' = TRUE
  /\ UNCHANGED <<initialized, ready, rules_configured, active_rules, heap,
                 rules_qsbr, tsnapshot>>
  /\ OwnerEndUnchanged

RulesExchange ==
  /\ OwnerGoto("rules_exchange", "rules_free")
  /\ tsnapshot' = active_rules
  /\ active_rules' = Null
  /\ UNCHANGED <<initialized, ready, rules_configured, lock_vars, heap,
                 rules_qsbr>>
  /\ OwnerEndUnchanged

RulesFree ==
  /\ OwnerGoto("rules_free", "rules_unlock")
  /\ heap' = dp_snapshot_free(tsnapshot)
  /\ rules_qsbr' = FALSE
  /\ rules_configured' = FALSE
  /\ UNCHANGED <<initialized, ready, active_rules, lock_vars, tsnapshot>>
  /\ OwnerEndUnchanged

(* The ports and the pool follow; when that part of the teardown fails,    *)
(* finishLifecycle does not call dp_runtime_cleanup.                       *)
RulesUnlock ==
  /\ \E ports_closed \in BOOLEAN :
       OwnerGoto("rules_unlock", IF ports_closed THEN "cleanup" ELSE "done")
  /\ writer_lock' = Free
  /\ writer_active' = FALSE
  /\ UNCHANGED <<initialized, ready, rules_configured, active_rules, heap,
                 rules_qsbr, tsnapshot>>
  /\ OwnerEndUnchanged

(* dp_runtime_cleanup: -EBUSY leaves the EAL initialized *)
CleanupBusy ==
  \/ running \/ ~WorkersStopped \/ active_rules # Null
  \/ rules_qsbr \/ writer_active \/ rules_configured

Cleanup ==
  /\ OwnerGoto("cleanup", "done")
  /\ initialized' = (initialized /\ CleanupBusy)
  /\ UNCHANGED <<ready, rules_configured, active_rules, lock_vars, heap,
                 rules_qsbr, tsnapshot>>
  /\ OwnerEndUnchanged

OwnerStep ==
  \/ ConfigureRules \/ ConfigureRulesFails \/ Setup
  \/ RunBegin \/ RemoteLaunch \/ RemoteLaunchFails \/ MainWorker
  \/ MainWorkerReturns \/ JoinWorker \/ RunReturns
  \/ Teardown \/ RulesLock \/ RulesExchange \/ RulesFree \/ RulesUnlock
  \/ Cleanup

(* dp_dataplane_request_stop, from any thread at any moment *)
RequestStop ==
  /\ ~stop
  /\ stop' = TRUE
  /\ UNCHANGED <<lifecycle_vars, active_rules, lock_vars, stat_vars, heap,
                 rules_qsbr, qsbr_vars, worker_vars, publisher_vars, owner_vars>>

Next ==
  \/ \E w \in Workers : WorkerStep(w)
  \/ \E p \in Publishers : PublishCall(p) \/ PublishProgress(p)
  \/ OwnerStep
  \/ RequestStop

SafeSpec == Init /\ [][Next]_vars

-----------------------------------------------------------------------------
(* Properties *)

Generations == Nat \ {0}

LifecycleTypeOK ==
  /\ initialized \in BOOLEAN /\ ready \in BOOLEAN /\ running \in BOOLEAN
  /\ ran \in BOOLEAN /\ rules_configured \in BOOLEAN
  /\ opc \in OwnerPC /\ oi \in Nat /\ nlaunched \in Nat
  /\ first_error \in Int /\ tsnapshot \in Nat

SharedTypeOK ==
  /\ stop \in BOOLEAN /\ active_rules \in Nat
  /\ writer_lock \in Publishers \cup {Owner, Free} /\ writer_active \in BOOLEAN
  /\ rules_generation \in Nat /\ rules_publish_success \in Nat
  /\ rules_publish_failed \in Nat /\ rules_reclaimed \in Nat
  /\ heap \in SUBSET Generations /\ rules_qsbr \in BOOLEAN
  /\ QSBRTypeOK

WorkerTypeOK ==
  /\ wpc \in [Workers -> WorkerPC]
  /\ snapshot \in [Workers -> Nat] /\ wtoken \in [Workers -> Nat]
  /\ burst \in [Workers -> BOOLEAN] /\ launched \in [Workers -> BOOLEAN]
  /\ reader_registered \in [Workers -> BOOLEAN]
  /\ result \in [Workers -> Int]
  /\ active_workers \in Int /\ registered_readers \in Int

PublisherTypeOK ==
  /\ ppc \in [Publishers -> PublisherPC]
  /\ new_snapshot \in [Publishers -> Nat]
  /\ old_snapshot \in [Publishers -> Nat]
  /\ ptoken \in [Publishers -> Nat]
  /\ pending \in [Publishers -> SUBSET Readers]
  /\ calls \in [Publishers -> Nat] /\ returned \in Nat

(* Every variable keeps the range its C type and its use in the code give it. *)
TypeOK == LifecycleTypeOK /\ SharedTypeOK /\ WorkerTypeOK /\ PublisherTypeOK

(* Worker w is between dp_rules_active_load and its quiescent point. *)
Reading(w) == wpc[w] = "process"

(* Publisher p has swapped the pointer and not yet freed the old snapshot. *)
Retiring(p) == ppc[p] \in {"start", "scan", "check"}

(* Worker w has not started or has returned. *)
Gone(w) == wpc[w] \in {"idle", "done"}

UsesQSBR(w) == wpc[w] \notin {"idle", "enter", "register", "fail", "leave", "done"}

(* No worker dereferences a freed or NULL snapshot (dp_worker_run lines     *)
(* 139-146), and the QSBR variable is allocated whenever a worker or a      *)
(* publisher calls into it.                                                 *)
MemorySafe ==
  /\ \A w \in Workers : Reading(w) => snapshot[w] \in heap
  /\ \A w \in Workers : UsesQSBR(w) => rules_qsbr
  /\ \A p \in Publishers : Retiring(p) => rules_qsbr

(* Every allocated snapshot has exactly one owner that will free it: the    *)
(* active pointer, the new_snapshot local before the swap, the old_snapshot *)
(* local during the grace period, or dp_rules_teardown.  Nothing leaks on   *)
(* any failure path and nothing that is still owned has been freed.         *)
HeapOwned ==
  heap = {g \in 1 .. rules_generation + 1 :
            \/ g = active_rules
            \/ opc = "rules_free" /\ g = tsnapshot
            \/ \E p \in Publishers : ppc[p] = "exchange" /\ g = new_snapshot[p]
            \/ \E p \in Publishers : Retiring(p) /\ g = old_snapshot[p]}

(* Once dp_publish_rules has reported a generation, no worker is still      *)
(* processing a burst with an older one: the call is synchronous.           *)
PublishIsSynchronous ==
  \A w \in Workers : Reading(w) => snapshot[w] >= returned

(* With no writer inside, the generation counts the successful publications *)
(* and every published snapshot but the last has been reclaimed.            *)
ReclaimAccounting ==
  writer_lock = Free /\ rules_publish_success > 0 =>
    /\ rules_generation = rules_publish_success
    /\ rules_reclaimed = rules_publish_success - 1

(* rte_eal_cleanup runs only when no worker is alive, every snapshot and    *)
(* the QSBR variable are freed, and no publisher can touch EAL memory.      *)
CleanupSafe ==
  ~initialized =>
    /\ heap = {} /\ ~rules_qsbr
    /\ \A w \in Workers : Gone(w)
    /\ \A p \in Publishers : ~Retiring(p) /\ ppc[p] \notin {"build", "exchange"}

(* The counters dp_workers_stopped reads agree with the workers: after      *)
(* dp_dataplane_run returns, on every failure path, dp_dataplane_teardown   *)
(* never refuses with -EBUSY and so never leaks the rules.                  *)
TeardownNeverBusy == opc # "busy"

(* A launch failed: fewer remote workers were launched than there are. *)
LaunchFailed == nlaunched < WorkerCount - 1

(* dp_dataplane_run returns an error exactly when a launch or a worker has  *)
(* failed, even if others ended well, and whichever of them it joined first *)
(* or last.                                                                 *)
FailureReported ==
  ran /\ ~running =>
    (first_error < 0 <=> LaunchFailed \/ \E w \in Workers : result[w] < 0)

(* The published snapshots seen by the readers follow the abstract protocol *)
(* of SafeReclamation: a step that frees memory is a step that may free it. *)
Held == [w \in Workers |-> IF Reading(w) THEN snapshot[w] ELSE Null]

SR == INSTANCE SafeReclamation
        WITH Holders <- Workers, live <- heap, current <- active_rules,
             held <- Held

ReclaimsSafely == SR!ASpec

(* A worker never goes back to an older generation from one burst to the    *)
(* next.                                                                    *)
MonotonicReads ==
  [][\A w \in Workers : snapshot'[w] >= snapshot[w]]_vars

-----------------------------------------------------------------------------
(* The inductive invariant behind the safety properties.                    *)

InsideLock == {"mark", "guard", "build", "exchange", "start", "scan", "check",
               "out", "unlock"}

(* The writer lock is held by whoever is inside the critical section. *)
LockInv ==
  /\ \A p \in Publishers : ppc[p] \in InsideLock <=> writer_lock = p
  /\ opc \in {"rules_exchange", "rules_free", "rules_unlock"}
       <=> writer_lock = Owner

(* A worker inside its loop is registered and online with a token that has  *)
(* been issued.                                                             *)
ReaderInv ==
  \A w \in Workers :
    /\ wpc[w] \in {"online_load", "online_store", "count", "loop", "load",
                   "process", "quiescent_load", "quiescent_store", "offline",
                   "unregister"} => w \in registered
    /\ wpc[w] \in {"count", "loop", "load", "process", "quiescent_load",
                   "quiescent_store", "offline"} => cnt[w] # 0
    /\ cnt[w] <= token
    /\ wpc[w] \in {"online_store", "quiescent_store"} => wtoken[w] \in 1 .. token

(* Which workers may be running at each point of the owner. *)
OwnerInv ==
  /\ opc \in {"configure", "setup", "run"} =>
       nlaunched = 0 /\ \A w \in Workers : wpc[w] = "idle"
  /\ opc = "launch" => /\ oi = nlaunched + 1 /\ oi <= WorkerCount
                       /\ \A w \in Workers : w = 0 \/ w >= oi => wpc[w] = "idle"
  /\ opc = "main" => nlaunched = WorkerCount - 1
  /\ opc = "join" => \A w \in Workers : w < oi \/ w > nlaunched => Gone(w)
  /\ opc \in {"launch", "main", "join"} =>
       running /\ oi >= 1 /\ nlaunched < WorkerCount
  /\ opc \in {"setup", "run", "launch", "main", "join"} => rules_configured
  /\ opc \notin {"launch", "main", "join"} =>
       ~running /\ \A w \in Workers : Gone(w)

(* The rules exist from dp_configure_rules to dp_rules_teardown, and a      *)
(* publisher past its guard runs inside that span.                          *)
RulesInv ==
  /\ rules_configured => initialized /\ rules_qsbr /\ opc # "configure"
  /\ active_rules = IF rules_configured /\ opc # "rules_free"
                    THEN rules_generation ELSE Null
  /\ rules_configured => rules_generation # 0
  /\ opc = "rules_free" => tsnapshot = IF rules_configured
                                       THEN rules_generation ELSE Null
  /\ ~initialized => opc = "done" /\ ~rules_qsbr
  /\ opc = "configure" => rules_generation = 0 /\ rules_reclaimed = 0
  /\ \A p \in Publishers :
       /\ ppc[p] \in {"build", "exchange", "start", "scan", "check"} =>
            rules_configured
       /\ ppc[p] = "exchange" => new_snapshot[p] = rules_generation + 1
       /\ Retiring(p) => /\ new_snapshot[p] = rules_generation
                         /\ old_snapshot[p] = rules_generation - 1
                         /\ old_snapshot[p] # Null
                         /\ returned <= old_snapshot[p]
       /\ ppc[p] \in {"scan", "check"} => ptoken[p] = token
  /\ returned <= rules_generation

(* The counters of successful and reclaimed publications. *)
CountInv ==
  /\ rules_generation = rules_publish_success
  /\ \A p \in Publishers : Retiring(p) => rules_reclaimed = rules_publish_success - 2
  /\ rules_publish_success # 0 /\ (\A p \in Publishers : ~Retiring(p)) =>
       rules_reclaimed = rules_publish_success - 1

(* A snapshot in use is the active one or one whose grace period cannot end *)
(* yet: its reader has not seen the token the publisher waits for, and the  *)
(* publisher has not passed that reader.                                    *)
GraceInv ==
  \A w \in Workers : Reading(w) =>
    \/ rules_configured /\ snapshot[w] = rules_generation
    \/ \E p \in Publishers :
         /\ Retiring(p) /\ snapshot[w] = old_snapshot[p]
         /\ ppc[p] \in {"scan", "check"} => cnt[w] < ptoken[p]
         /\ ppc[p] = "check" => w \in pending[p]

(* No worker has seen a generation that was not published. *)
SeenInv == \A w \in Workers : snapshot[w] <= rules_generation

(* The conjunction is preserved by every step; none of its parts but TypeOK *)
(* is preserved alone.                                                      *)
IInv == /\ TypeOK /\ LockInv /\ ReaderInv /\ OwnerInv /\ RulesInv /\ CountInv
        /\ GraceInv /\ SeenInv /\ HeapOwned

-----------------------------------------------------------------------------
(* The invariant behind the properties of the run control.                  *)

(* The workers that have counted themselves in active_workers *)
Active == {w \in Workers : wpc[w] \notin {"idle", "enter", "done"}}

(* The workers that have counted themselves in registered_readers *)
Counted == {w \in Workers :
              wpc[w] \in {"loop", "load", "process", "quiescent_load",
                          "quiescent_store", "offline", "unregister", "leave"}}

(* What dp_workers_stopped reads agrees with where the workers are, and a   *)
(* worker is marked as launched only until it is joined.                    *)
StoppedInv ==
  /\ active_workers = Cardinality(Active)
  /\ registered_readers = Cardinality(Counted)
  /\ \A w \in Workers : reader_registered[w] <=> w \in Counted
  /\ \A w \in Workers : launched[w] =>
       \/ opc = "launch" /\ 1 <= w /\ w < oi
       \/ opc = "main"
       \/ opc = "join" /\ oi <= w /\ w <= nlaunched
  /\ opc # "busy"

(* The launch loop of dp_dataplane_run is behind. *)
Launched == ran /\ opc \notin {"launch", "main"}

(* A failed launch, and a negative result that dp_dataplane_run will not    *)
(* look at any more, have become its own result; nothing else has.          *)
ResultInv ==
  /\ running => ran
  /\ first_error <= 0
  /\ Launched /\ LaunchFailed => first_error < 0
  /\ first_error < 0 => (Launched /\ LaunchFailed) \/ \E w \in Workers : result[w] < 0
  /\ \A w \in Workers :
       /\ result[w] <= 0
       /\ result[w] # 0 => wpc[w] \in {"fail", "done"}
       /\ result[w] # 0 /\ (opc = "join" => w < oi \/ w > nlaunched)
            => opc \in {"launch", "main"} \/ first_error < 0

RunInv == IInv /\ StoppedInv /\ ResultInv

=============================================================================
