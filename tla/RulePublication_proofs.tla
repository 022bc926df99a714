----------------------- MODULE RulePublication_proofs -----------------------
(***************************************************************************)
(* Proofs about RulePublication, for every number of workers, every set of *)
(* publishers and every number of calls.                                   *)
(***************************************************************************)
EXTENDS RulePublication, FiniteSetTheorems, TLAPS

USE DEF ActiveAfterFailure, AfterLoad, dp_rules_active_load, NextGeneration,
        AfterExchange, dp_snapshot_free, Joined, FirstError

-----------------------------------------------------------------------------
(* What the steps of one thread can change. *)

PublisherStep(p) == PublishCall(p) \/ PublishProgress(p)

(* A worker step moves one live worker and leaves the rules, the lock, the  *)
(* publishers, the owner and the token alone.                               *)
LEMMA WorkerFrame ==
  ASSUME TypeOK, NEW w \in Workers, WorkerStep(w)
  PROVE  /\ UNCHANGED <<lifecycle_vars, active_rules, lock_vars, stat_vars, heap,
                        rules_qsbr, launched, publisher_vars, owner_vars, token>>
         /\ ~Gone(w)
         /\ \E to \in WorkerPC \ {"idle"} : wpc' = [wpc EXCEPT ![w] = to]
<1> USE DEF WorkerGoto, Gone, WorkerPC, qsbr_vars, rte_rcu_qsbr_thread_register,
            qsbr_store, rte_rcu_qsbr_thread_offline,
            rte_rcu_qsbr_thread_unregister
<1>1. CASE WorkerEnter(w)
  BY <1>1 DEF WorkerEnter
<1>2. CASE WorkerRegisterFails(w)
  BY <1>2 DEF WorkerRegisterFails
<1>3. CASE WorkerFail(w)
  BY <1>3 DEF WorkerFail
<1>4. CASE WorkerRegister(w)
  BY <1>4 DEF WorkerRegister
<1>5. CASE WorkerOnlineLoad(w)
  BY <1>5 DEF WorkerOnlineLoad
<1>6. CASE WorkerOnlineStore(w)
  BY <1>6 DEF WorkerOnlineStore
<1>7. CASE WorkerCountReader(w)
  BY <1>7 DEF WorkerCountReader
<1>8. CASE WorkerPoll(w)
  BY <1>8 DEF WorkerPoll
<1>9. CASE WorkerLoad(w)
  BY <1>9 DEF WorkerLoad
<1>10. CASE WorkerProcess(w)
  BY <1>10 DEF WorkerProcess
<1>11. CASE WorkerQuiescentLoad(w)
  BY <1>11 DEF WorkerQuiescentLoad
<1>12. CASE WorkerQuiescentStore(w)
  BY <1>12 DEF WorkerQuiescentStore
<1>13. CASE WorkerStop(w)
  BY <1>13 DEF WorkerStop
<1>14. CASE WorkerOffline(w)
  BY <1>14 DEF WorkerOffline
<1>15. CASE WorkerUnregister(w)
  BY <1>15 DEF WorkerUnregister
<1>16. CASE WorkerLeave(w)
  BY <1>16 DEF WorkerLeave
<1>20. QED
  BY <1>1, <1>2, <1>3, <1>4, <1>5, <1>6, <1>7, <1>8, <1>9, <1>10, <1>11, <1>12, <1>13, <1>14, <1>15, <1>16 DEF WorkerStep

(* A step of dp_worker_run keeps the types. *)
LEMMA WorkerTypeStep ==
  ASSUME TypeOK, NEW w \in Workers, WorkerStep(w)
  PROVE  TypeOK'
<1>1. LifecycleTypeOK' /\ PublisherTypeOK'
  BY WorkerFrame DEF TypeOK, LifecycleTypeOK, PublisherTypeOK, lifecycle_vars,
     owner_vars, publisher_vars
<1>2. /\ stop \in BOOLEAN /\ active_rules \in Nat /\ QSBRTypeOK /\ WorkerTypeOK
      /\ w \in Readers /\ w \in Int
  BY WorkerCountAssumption, ReaderCapacityAssumption
  DEF TypeOK, SharedTypeOK, Workers, Readers
<1>3. stop' \in BOOLEAN /\ QSBRTypeOK' /\ WorkerTypeOK'
  <2> USE <1>2
      DEF WorkerTypeOK, QSBRTypeOK, WorkerGoto, WorkerPC, local_vars, count_vars,
          qsbr_vars, rte_rcu_qsbr_thread_register, qsbr_store,
          rte_rcu_qsbr_thread_offline, rte_rcu_qsbr_thread_unregister
  <2>1. CASE WorkerEnter(w)
    BY <2>1 DEF WorkerEnter
  <2>2. CASE WorkerRegisterFails(w)
    BY <2>2 DEF WorkerRegisterFails
  <2>3. CASE WorkerFail(w)
    BY <2>3 DEF WorkerFail
  <2>4. CASE WorkerRegister(w)
    BY <2>4 DEF WorkerRegister
  <2>5. CASE WorkerOnlineLoad(w)
    BY <2>5 DEF WorkerOnlineLoad
  <2>6. CASE WorkerOnlineStore(w)
    BY <2>6 DEF WorkerOnlineStore
  <2>7. CASE WorkerCountReader(w)
    BY <2>7 DEF WorkerCountReader
  <2>8. CASE WorkerPoll(w)
    BY <2>8 DEF WorkerPoll
  <2>9. CASE WorkerLoad(w)
    BY <2>9 DEF WorkerLoad
  <2>10. CASE WorkerProcess(w)
    BY <2>10 DEF WorkerProcess
  <2>11. CASE WorkerQuiescentLoad(w)
    BY <2>11 DEF WorkerQuiescentLoad
  <2>12. CASE WorkerQuiescentStore(w)
    BY <2>12 DEF WorkerQuiescentStore
  <2>13. CASE WorkerStop(w)
    BY <2>13 DEF WorkerStop
  <2>14. CASE WorkerOffline(w)
    BY <2>14 DEF WorkerOffline
  <2>15. CASE WorkerUnregister(w)
    BY <2>15 DEF WorkerUnregister
  <2>16. CASE WorkerLeave(w)
    BY <2>16 DEF WorkerLeave
  <2>20. QED
    BY <2>1, <2>2, <2>3, <2>4, <2>5, <2>6, <2>7, <2>8, <2>9, <2>10, <2>11, <2>12, <2>13, <2>14, <2>15, <2>16 DEF WorkerStep
<1>4. SharedTypeOK'
  BY <1>3, WorkerFrame DEF TypeOK, SharedTypeOK, lock_vars, stat_vars
<1>5. QED
  BY <1>1, <1>3, <1>4 DEF TypeOK

(* A publisher step moves one publisher and leaves the lifecycle, the       *)
(* workers, the owner and the readers' QSBR state alone.                    *)
LEMMA PublisherFrame ==
  ASSUME TypeOK, NEW p \in Publishers, PublisherStep(p)
  PROVE  /\ UNCHANGED <<lifecycle_vars, stop, rules_qsbr, worker_vars, owner_vars,
                        registered, cnt>>
         /\ token' \in {token, token + 1}
<1> USE DEF PublisherGoto, qsbr_vars, rte_rcu_qsbr_start
<1>1. CASE PublishCall(p)
  BY <1>1 DEF PublishCall, PublishEnters
<1>2. CASE PublishLock(p)
  BY <1>2 DEF PublishLock
<1>3. CASE PublishMark(p)
  BY <1>3 DEF PublishMark
<1>4. CASE PublishGuard(p)
  BY <1>4 DEF PublishGuard
<1>5. CASE PublishBuild(p)
  BY <1>5 DEF PublishBuild
<1>6. CASE PublishBuildFails(p)
  BY <1>6 DEF PublishBuildFails
<1>7. CASE PublishExchange(p)
  BY <1>7 DEF PublishExchange
<1>8. CASE PublishStart(p)
  BY <1>8 DEF PublishStart
<1>9. CASE PublishScan(p)
  BY <1>9 DEF PublishScan
<1>10. CASE PublishCheck(p)
  BY <1>10 DEF PublishCheck
<1>11. CASE PublishReclaim(p)
  BY <1>11 DEF PublishReclaim
<1>12. CASE PublishClear(p)
  BY <1>12 DEF PublishClear
<1>13. CASE PublishUnlock(p)
  BY <1>13 DEF PublishUnlock
<1>20. QED
  BY <1>1, <1>2, <1>3, <1>4, <1>5, <1>6, <1>7, <1>8, <1>9, <1>10, <1>11, <1>12, <1>13 DEF PublisherStep, PublishProgress

(* A step of dp_publish_rules keeps the types. *)
LEMMA PublisherTypeStep ==
  ASSUME TypeOK, NEW p \in Publishers, PublisherStep(p)
  PROVE  TypeOK'
<1>1. LifecycleTypeOK' /\ WorkerTypeOK'
  BY PublisherFrame DEF TypeOK, LifecycleTypeOK, WorkerTypeOK, lifecycle_vars,
     owner_vars, worker_vars, local_vars, count_vars
<1>2. SharedTypeOK'
  <2> USE PublisherFrame
      DEF TypeOK, SharedTypeOK, PublisherTypeOK, QSBRTypeOK, PublisherGoto,
          Generations, lock_vars, stat_vars, qsbr_vars
  <2>1. CASE PublishCall(p)
    BY <2>1 DEF PublishCall, PublishEnters
  <2>2. CASE PublishLock(p)
    BY <2>2 DEF PublishLock
  <2>3. CASE PublishMark(p)
    BY <2>3 DEF PublishMark
  <2>4. CASE PublishGuard(p)
    BY <2>4 DEF PublishGuard
  <2>5. CASE PublishBuild(p)
    BY <2>5 DEF PublishBuild
  <2>6. CASE PublishBuildFails(p)
    BY <2>6 DEF PublishBuildFails
  <2>7. CASE PublishExchange(p)
    BY <2>7 DEF PublishExchange
  <2>8. CASE PublishStart(p)
    BY <2>8 DEF PublishStart
  <2>9. CASE PublishScan(p)
    BY <2>9 DEF PublishScan
  <2>10. CASE PublishCheck(p)
    BY <2>10 DEF PublishCheck
  <2>11. CASE PublishReclaim(p)
    <3>1. heap' \subseteq heap /\ rules_reclaimed' \in Nat
      BY <2>11 DEF PublishReclaim
    <3>2. UNCHANGED <<stop, active_rules, lock_vars, rules_generation,
                      rules_publish_success, rules_publish_failed, rules_qsbr,
                      qsbr_vars>>
      BY <2>11 DEF PublishReclaim
    <3>3. QED
      BY <3>1, <3>2
  <2>12. CASE PublishClear(p)
    BY <2>12 DEF PublishClear
  <2>13. CASE PublishUnlock(p)
    BY <2>13 DEF PublishUnlock
  <2>20. QED
    BY <2>1, <2>2, <2>3, <2>4, <2>5, <2>6, <2>7, <2>8, <2>9, <2>10, <2>11, <2>12, <2>13 DEF PublisherStep, PublishProgress
<1>3. PublisherTypeOK'
  <2> USE DEF TypeOK, SharedTypeOK, PublisherTypeOK, QSBRTypeOK, PublisherGoto,
          PublisherPC
  <2>1. CASE PublishCall(p)
    BY <2>1 DEF PublishCall, PublishEnters
  <2>2. CASE PublishLock(p)
    BY <2>2 DEF PublishLock
  <2>3. CASE PublishMark(p)
    BY <2>3 DEF PublishMark
  <2>4. CASE PublishGuard(p)
    BY <2>4 DEF PublishGuard
  <2>5. CASE PublishBuild(p)
    BY <2>5 DEF PublishBuild
  <2>6. CASE PublishBuildFails(p)
    BY <2>6 DEF PublishBuildFails
  <2>7. CASE PublishExchange(p)
    BY <2>7 DEF PublishExchange
  <2>8. CASE PublishStart(p)
    BY <2>8 DEF PublishStart
  <2>9. CASE PublishScan(p)
    BY <2>9 DEF PublishScan
  <2>10. CASE PublishCheck(p)
    BY <2>10 DEF PublishCheck
  <2>11. CASE PublishReclaim(p)
    BY <2>11 DEF PublishReclaim
  <2>12. CASE PublishClear(p)
    BY <2>12 DEF PublishClear
  <2>13. CASE PublishUnlock(p)
    BY <2>13 DEF PublishUnlock
  <2>20. QED
    BY <2>1, <2>2, <2>3, <2>4, <2>5, <2>6, <2>7, <2>8, <2>9, <2>10, <2>11, <2>12, <2>13 DEF PublisherStep, PublishProgress
<1>4. QED
  BY <1>1, <1>2, <1>3 DEF TypeOK

(* An owner step leaves the publishers, the QSBR variable and what the      *)
(* workers have loaded alone.                                               *)
LEMMA OwnerFrame ==
  ASSUME OwnerStep
  PROVE  UNCHANGED <<publisher_vars, qsbr_vars, local_vars, count_vars>>
<1> USE DEF OwnerGoto, OwnerRunUnchanged, OwnerEndUnchanged, worker_vars
<1>1. CASE ConfigureRules
  BY <1>1 DEF ConfigureRules
<1>2. CASE ConfigureRulesFails
  BY <1>2 DEF ConfigureRulesFails
<1>3. CASE Setup
  BY <1>3 DEF Setup
<1>4. CASE RunBegin
  BY <1>4 DEF RunBegin
<1>5. CASE RemoteLaunch
  BY <1>5 DEF RemoteLaunch
<1>6. CASE RemoteLaunchFails
  BY <1>6 DEF RemoteLaunchFails
<1>7. CASE MainWorker
  BY <1>7 DEF MainWorker
<1>8. CASE MainWorkerReturns
  BY <1>8 DEF MainWorkerReturns
<1>9. CASE JoinWorker
  BY <1>9 DEF JoinWorker
<1>10. CASE RunReturns
  BY <1>10 DEF RunReturns
<1>11. CASE Teardown
  BY <1>11 DEF Teardown
<1>12. CASE RulesLock
  BY <1>12 DEF RulesLock
<1>13. CASE RulesExchange
  BY <1>13 DEF RulesExchange
<1>14. CASE RulesFree
  BY <1>14 DEF RulesFree
<1>15. CASE RulesUnlock
  BY <1>15 DEF RulesUnlock
<1>16. CASE Cleanup
  BY <1>16 DEF Cleanup
<1>20. QED
  BY <1>1, <1>2, <1>3, <1>4, <1>5, <1>6, <1>7, <1>8, <1>9, <1>10, <1>11, <1>12, <1>13, <1>14, <1>15, <1>16 DEF OwnerStep

(* A step of the owner keeps the types; a launch needs a valid index. *)
LEMMA OwnerTypeStep ==
  ASSUME TypeOK, OwnerInv, OwnerStep
  PROVE  TypeOK'
<1> USE DEF OwnerGoto, OwnerRunUnchanged, OwnerEndUnchanged
<1>1. PublisherTypeOK' /\ QSBRTypeOK'
  BY OwnerFrame DEF TypeOK, PublisherTypeOK, SharedTypeOK, QSBRTypeOK,
     publisher_vars, qsbr_vars
<1>2. SharedTypeOK'
  <2> USE <1>1 DEF TypeOK, SharedTypeOK, Generations, lock_vars, stat_vars, Null
  <2>1. CASE ConfigureRules
    BY <2>1 DEF ConfigureRules
  <2>2. CASE ConfigureRulesFails
    <3>1. rules_qsbr' \in BOOLEAN
      BY <2>2, Zenon DEF ConfigureRulesFails
    <3>2. rules_publish_failed' \in Nat
      BY <2>2 DEF ConfigureRulesFails
    <3>3. QED
      BY <2>2, <3>1, <3>2 DEF ConfigureRulesFails
  <2>3. CASE Setup
    BY <2>3 DEF Setup
  <2>4. CASE RunBegin
    BY <2>4 DEF RunBegin
  <2>5. CASE RemoteLaunch
    BY <2>5 DEF RemoteLaunch
  <2>6. CASE RemoteLaunchFails
    BY <2>6 DEF RemoteLaunchFails
  <2>7. CASE MainWorker
    BY <2>7 DEF MainWorker
  <2>8. CASE MainWorkerReturns
    BY <2>8 DEF MainWorkerReturns
  <2>9. CASE JoinWorker
    BY <2>9 DEF JoinWorker
  <2>10. CASE RunReturns
    BY <2>10 DEF RunReturns
  <2>11. CASE Teardown
    BY <2>11 DEF Teardown
  <2>12. CASE RulesLock
    BY <2>12 DEF RulesLock
  <2>13. CASE RulesExchange
    BY <2>13 DEF RulesExchange
  <2>14. CASE RulesFree
    BY <2>14 DEF RulesFree
  <2>15. CASE RulesUnlock
    BY <2>15 DEF RulesUnlock
  <2>16. CASE Cleanup
    BY <2>16 DEF Cleanup
  <2>20. QED
    BY <2>1, <2>2, <2>3, <2>4, <2>5, <2>6, <2>7, <2>8, <2>9, <2>10, <2>11, <2>12, <2>13, <2>14, <2>15, <2>16 DEF OwnerStep
<1>3. WorkerTypeOK'
  <2> USE WorkerCountAssumption
      DEF TypeOK, WorkerTypeOK, WorkerPC, Workers, worker_vars, local_vars,
          count_vars
  <2>1. CASE ConfigureRules
    BY <2>1 DEF ConfigureRules
  <2>2. CASE ConfigureRulesFails
    BY <2>2 DEF ConfigureRulesFails
  <2>3. CASE Setup
    BY <2>3 DEF Setup
  <2>4. CASE RunBegin
    BY <2>4 DEF RunBegin
  <2>5. CASE RemoteLaunch
    BY <2>5 DEF RemoteLaunch
  <2>6. CASE RemoteLaunchFails
    BY <2>6 DEF RemoteLaunchFails
  <2>7. CASE MainWorker
    BY <2>7 DEF MainWorker
  <2>8. CASE MainWorkerReturns
    BY <2>8 DEF MainWorkerReturns
  <2>9. CASE JoinWorker
    BY <2>9 DEF JoinWorker
  <2>10. CASE RunReturns
    BY <2>10 DEF RunReturns
  <2>11. CASE Teardown
    BY <2>11 DEF Teardown
  <2>12. CASE RulesLock
    BY <2>12 DEF RulesLock
  <2>13. CASE RulesExchange
    BY <2>13 DEF RulesExchange
  <2>14. CASE RulesFree
    BY <2>14 DEF RulesFree
  <2>15. CASE RulesUnlock
    BY <2>15 DEF RulesUnlock
  <2>16. CASE Cleanup
    BY <2>16 DEF Cleanup
  <2>20. QED
    BY <2>1, <2>2, <2>3, <2>4, <2>5, <2>6, <2>7, <2>8, <2>9, <2>10, <2>11, <2>12, <2>13, <2>14, <2>15, <2>16 DEF OwnerStep
<1>4. LifecycleTypeOK'
  <2> USE DEF TypeOK, LifecycleTypeOK, WorkerTypeOK, SharedTypeOK, OwnerPC,
          Workers, lifecycle_vars, owner_vars
  <2>1. CASE ConfigureRules
    BY <2>1 DEF ConfigureRules
  <2>2. CASE ConfigureRulesFails
    BY <2>2 DEF ConfigureRulesFails
  <2>3. CASE Setup
    BY <2>3 DEF Setup
  <2>4. CASE RunBegin
    BY <2>4 DEF RunBegin
  <2>5. CASE RemoteLaunch
    BY <2>5 DEF RemoteLaunch
  <2>6. CASE RemoteLaunchFails
    BY <2>6 DEF RemoteLaunchFails
  <2>7. CASE MainWorker
    BY <2>7 DEF MainWorker
  <2>8. CASE MainWorkerReturns
    BY <2>8 DEF MainWorkerReturns
  <2>9. CASE JoinWorker
    BY <2>9, WorkerCountAssumption, ReaderCapacityAssumption
    DEF JoinWorker, OwnerInv
  <2>10. CASE RunReturns
    BY <2>10 DEF RunReturns
  <2>11. CASE Teardown
    BY <2>11 DEF Teardown
  <2>12. CASE RulesLock
    BY <2>12 DEF RulesLock
  <2>13. CASE RulesExchange
    BY <2>13 DEF RulesExchange
  <2>14. CASE RulesFree
    BY <2>14 DEF RulesFree
  <2>15. CASE RulesUnlock
    BY <2>15 DEF RulesUnlock
  <2>16. CASE Cleanup
    BY <2>16 DEF Cleanup
  <2>20. QED
    BY <2>1, <2>2, <2>3, <2>4, <2>5, <2>6, <2>7, <2>8, <2>9, <2>10, <2>11, <2>12, <2>13, <2>14, <2>15, <2>16 DEF OwnerStep
<1>5. QED
  BY <1>1, <1>2, <1>3, <1>4 DEF TypeOK

-----------------------------------------------------------------------------
(* LockInv *)

(* Workers never touch the writer lock. *)
LEMMA WorkerLockInv ==
  ASSUME IInv, NEW w \in Workers, WorkerStep(w)
  PROVE  LockInv'
BY WorkerFrame DEF IInv, LockInv, lock_vars, publisher_vars, owner_vars

(* dp_publish_rules is in its critical section when it has the lock. *)
LEMMA PublisherLockInv ==
  ASSUME IInv, NEW p \in Publishers, PublisherStep(p)
  PROVE  LockInv'
<1> USE PublishersAssumption
    DEF IInv, PublisherGoto, LockInv, InsideLock, TypeOK, PublisherTypeOK, SharedTypeOK,
            PublisherPC, owner_vars, lock_vars, Owner, Free
<1>1. CASE PublishCall(p)
  BY <1>1 DEF PublishCall, PublishEnters
<1>2. CASE PublishLock(p)
  BY <1>2 DEF PublishLock
<1>3. CASE PublishMark(p)
  BY <1>3 DEF PublishMark
<1>4. CASE PublishGuard(p)
  BY <1>4 DEF PublishGuard
<1>5. CASE PublishBuild(p)
  BY <1>5 DEF PublishBuild
<1>6. CASE PublishBuildFails(p)
  BY <1>6 DEF PublishBuildFails
<1>7. CASE PublishExchange(p)
  BY <1>7 DEF PublishExchange
<1>8. CASE PublishStart(p)
  BY <1>8 DEF PublishStart
<1>9. CASE PublishScan(p)
  BY <1>9 DEF PublishScan
<1>10. CASE PublishCheck(p)
  BY <1>10 DEF PublishCheck
<1>11. CASE PublishReclaim(p)
  BY <1>11 DEF PublishReclaim
<1>12. CASE PublishClear(p)
  BY <1>12 DEF PublishClear
<1>13. CASE PublishUnlock(p)
  BY <1>13 DEF PublishUnlock
<1>20. QED
  BY <1>1, <1>2, <1>3, <1>4, <1>5, <1>6, <1>7, <1>8, <1>9, <1>10, <1>11, <1>12,
     <1>13
  DEF PublisherStep, PublishProgress

(* So is dp_rules_teardown. *)
LEMMA OwnerLockInv ==
  ASSUME IInv, OwnerStep
  PROVE  LockInv'
<1> USE PublishersAssumption
    DEF IInv, OwnerGoto, OwnerRunUnchanged, OwnerEndUnchanged,
            LockInv, InsideLock, TypeOK, PublisherTypeOK,
            publisher_vars, lock_vars, Owner, Free
<1>1. CASE ConfigureRules
  BY <1>1 DEF ConfigureRules
<1>2. CASE ConfigureRulesFails
  BY <1>2 DEF ConfigureRulesFails
<1>3. CASE Setup
  BY <1>3 DEF Setup
<1>4. CASE RunBegin
  BY <1>4 DEF RunBegin
<1>5. CASE RemoteLaunch
  BY <1>5 DEF RemoteLaunch
<1>6. CASE RemoteLaunchFails
  BY <1>6 DEF RemoteLaunchFails
<1>7. CASE MainWorker
  BY <1>7 DEF MainWorker
<1>8. CASE MainWorkerReturns
  BY <1>8 DEF MainWorkerReturns
<1>9. CASE JoinWorker
  BY <1>9 DEF JoinWorker
<1>10. CASE RunReturns
  BY <1>10 DEF RunReturns
<1>11. CASE Teardown
  BY <1>11 DEF Teardown
<1>12. CASE RulesLock
  BY <1>12 DEF RulesLock
<1>13. CASE RulesExchange
  BY <1>13 DEF RulesExchange
<1>14. CASE RulesFree
  BY <1>14 DEF RulesFree
<1>15. CASE RulesUnlock
  BY <1>15 DEF RulesUnlock
<1>16. CASE Cleanup
  BY <1>16 DEF Cleanup
<1>20. QED
  BY <1>1, <1>2, <1>3, <1>4, <1>5, <1>6, <1>7, <1>8, <1>9, <1>10, <1>11, <1>12,
     <1>13, <1>14, <1>15, <1>16
  DEF OwnerStep

-----------------------------------------------------------------------------
(* ReaderInv *)

(* A worker registers and goes online before its loop. *)
LEMMA WorkerReaderInv ==
  ASSUME IInv, NEW w \in Workers, WorkerStep(w)
  PROVE  ReaderInv'
<1>0. ReaderInv /\ QSBRTypeOK /\ WorkerTypeOK /\ Workers \subseteq Readers
  BY WorkerCountAssumption, ReaderCapacityAssumption
  DEF IInv, TypeOK, SharedTypeOK, Workers, Readers
<1> USE <1>0
    DEF WorkerGoto, ReaderInv, WorkerTypeOK, QSBRTypeOK, WorkerPC, local_vars,
        qsbr_vars, rte_rcu_qsbr_thread_register, qsbr_store,
        rte_rcu_qsbr_thread_offline, rte_rcu_qsbr_thread_unregister
<1>1. CASE WorkerEnter(w)
  BY <1>1 DEF WorkerEnter
<1>2. CASE WorkerRegisterFails(w)
  BY <1>2 DEF WorkerRegisterFails
<1>3. CASE WorkerFail(w)
  BY <1>3 DEF WorkerFail
<1>4. CASE WorkerRegister(w)
  BY <1>4 DEF WorkerRegister
<1>5. CASE WorkerOnlineLoad(w)
  BY <1>5 DEF WorkerOnlineLoad
<1>6. CASE WorkerOnlineStore(w)
  BY <1>6 DEF WorkerOnlineStore
<1>7. CASE WorkerCountReader(w)
  BY <1>7 DEF WorkerCountReader
<1>8. CASE WorkerPoll(w)
  BY <1>8 DEF WorkerPoll
<1>9. CASE WorkerLoad(w)
  BY <1>9 DEF WorkerLoad
<1>10. CASE WorkerProcess(w)
  BY <1>10 DEF WorkerProcess
<1>11. CASE WorkerQuiescentLoad(w)
  BY <1>11 DEF WorkerQuiescentLoad
<1>12. CASE WorkerQuiescentStore(w)
  BY <1>12 DEF WorkerQuiescentStore
<1>13. CASE WorkerStop(w)
  BY <1>13 DEF WorkerStop
<1>14. CASE WorkerOffline(w)
  BY <1>14 DEF WorkerOffline
<1>15. CASE WorkerUnregister(w)
  BY <1>15 DEF WorkerUnregister
<1>16. CASE WorkerLeave(w)
  BY <1>16 DEF WorkerLeave
<1>20. QED
  BY <1>1, <1>2, <1>3, <1>4, <1>5, <1>6, <1>7, <1>8, <1>9, <1>10, <1>11, <1>12,
     <1>13, <1>14, <1>15, <1>16
  DEF WorkerStep

(* A publisher only advances the token. *)
LEMMA PublisherReaderInv ==
  ASSUME IInv, NEW p \in Publishers, PublisherStep(p)
  PROVE  ReaderInv'
<1>1. UNCHANGED <<wpc, wtoken, registered, cnt>> /\ token' \in {token, token + 1}
  BY PublisherFrame DEF IInv, worker_vars, local_vars
<1>2. token \in Nat /\ cnt \in [Readers -> Nat] /\ wtoken \in [Workers -> Nat]
      /\ Workers \subseteq Readers
  BY WorkerCountAssumption, ReaderCapacityAssumption
  DEF IInv, TypeOK, SharedTypeOK, WorkerTypeOK, QSBRTypeOK, Workers, Readers
<1>3. QED
  BY <1>1, <1>2 DEF IInv, ReaderInv

(* The owner launches workers that are not registered yet. *)
LEMMA OwnerReaderInv ==
  ASSUME IInv, OwnerStep
  PROVE  ReaderInv'
<1> USE DEF IInv, OwnerGoto, OwnerRunUnchanged, OwnerEndUnchanged,
            ReaderInv, OwnerInv, TypeOK, WorkerTypeOK, Workers,
            worker_vars, local_vars, qsbr_vars, LifecycleTypeOK
<1>1. CASE ConfigureRules
  BY <1>1 DEF ConfigureRules
<1>2. CASE ConfigureRulesFails
  BY <1>2 DEF ConfigureRulesFails
<1>3. CASE Setup
  BY <1>3 DEF Setup
<1>4. CASE RunBegin
  BY <1>4 DEF RunBegin
<1>5. CASE RemoteLaunch
  BY <1>5 DEF RemoteLaunch
<1>6. CASE RemoteLaunchFails
  BY <1>6 DEF RemoteLaunchFails
<1>7. CASE MainWorker
  BY <1>7 DEF MainWorker
<1>8. CASE MainWorkerReturns
  BY <1>8 DEF MainWorkerReturns
<1>9. CASE JoinWorker
  BY <1>9 DEF JoinWorker
<1>10. CASE RunReturns
  BY <1>10 DEF RunReturns
<1>11. CASE Teardown
  BY <1>11 DEF Teardown
<1>12. CASE RulesLock
  BY <1>12 DEF RulesLock
<1>13. CASE RulesExchange
  BY <1>13 DEF RulesExchange
<1>14. CASE RulesFree
  BY <1>14 DEF RulesFree
<1>15. CASE RulesUnlock
  BY <1>15 DEF RulesUnlock
<1>16. CASE Cleanup
  BY <1>16 DEF Cleanup
<1>20. QED
  BY <1>1, <1>2, <1>3, <1>4, <1>5, <1>6, <1>7, <1>8, <1>9, <1>10, <1>11, <1>12,
     <1>13, <1>14, <1>15, <1>16
  DEF OwnerStep

-----------------------------------------------------------------------------
(* OwnerInv *)

(* A worker that has not been launched or has returned does not move. *)
LEMMA WorkerOwnerInv ==
  ASSUME IInv, NEW w \in Workers, WorkerStep(w)
  PROVE  OwnerInv'
BY WorkerFrame DEF IInv, OwnerInv, Gone, WorkerPC, TypeOK, WorkerTypeOK,
   lifecycle_vars, owner_vars

(* A publisher moves neither the owner nor a worker. *)
LEMMA PublisherOwnerInv ==
  ASSUME IInv, NEW p \in Publishers, PublisherStep(p)
  PROVE  OwnerInv'
BY PublisherFrame DEF IInv, OwnerInv, Gone, lifecycle_vars, owner_vars, worker_vars

(* Launching and joining account for every worker. *)
LEMMA OwnerOwnerInv ==
  ASSUME IInv, OwnerStep
  PROVE  OwnerInv'
<1> USE WorkerCountAssumption, ReaderCapacityAssumption
    DEF IInv, OwnerGoto, OwnerRunUnchanged, OwnerEndUnchanged,
            OwnerInv, Gone, TypeOK, WorkerTypeOK, LifecycleTypeOK,
            OwnerPC, Workers, worker_vars, lifecycle_vars
<1>1. CASE ConfigureRules
  BY <1>1 DEF ConfigureRules
<1>2. CASE ConfigureRulesFails
  BY <1>2 DEF ConfigureRulesFails
<1>3. CASE Setup
  BY <1>3 DEF Setup
<1>4. CASE RunBegin
  BY <1>4 DEF RunBegin
<1>5. CASE RemoteLaunch
  BY <1>5 DEF RemoteLaunch
<1>6. CASE RemoteLaunchFails
  BY <1>6 DEF RemoteLaunchFails
<1>7. CASE MainWorker
  BY <1>7 DEF MainWorker
<1>8. CASE MainWorkerReturns
  BY <1>8 DEF MainWorkerReturns
<1>9. CASE JoinWorker
  BY <1>9 DEF JoinWorker
<1>10. CASE RunReturns
  BY <1>10 DEF RunReturns
<1>11. CASE Teardown
  BY <1>11 DEF Teardown
<1>12. CASE RulesLock
  BY <1>12 DEF RulesLock
<1>13. CASE RulesExchange
  BY <1>13 DEF RulesExchange
<1>14. CASE RulesFree
  BY <1>14 DEF RulesFree
<1>15. CASE RulesUnlock
  BY <1>15 DEF RulesUnlock
<1>16. CASE Cleanup
  BY <1>16 DEF Cleanup
<1>20. QED
  BY <1>1, <1>2, <1>3, <1>4, <1>5, <1>6, <1>7, <1>8, <1>9, <1>10, <1>11, <1>12,
     <1>13, <1>14, <1>15, <1>16
  DEF OwnerStep

-----------------------------------------------------------------------------
(* RulesInv *)

(* Workers do not change the rules. *)
LEMMA WorkerRulesInv ==
  ASSUME IInv, NEW w \in Workers, WorkerStep(w)
  PROVE  RulesInv'
BY WorkerFrame DEF IInv, RulesInv, Retiring, lifecycle_vars, stat_vars, publisher_vars,
   owner_vars

(* A publication replaces generation g by g + 1, under the lock. *)
LEMMA PublisherRulesInv ==
  ASSUME IInv, NEW p \in Publishers, PublisherStep(p)
  PROVE  RulesInv'
<1> USE PublishersAssumption
    DEF IInv, PublisherGoto, RulesInv, LockInv, Retiring, InsideLock, TypeOK,
            SharedTypeOK, QSBRTypeOK, PublisherTypeOK, PublisherPC, Null,
            lifecycle_vars, stat_vars, owner_vars, qsbr_vars, rte_rcu_qsbr_start,
            Owner, Free
<1>1. CASE PublishCall(p)
  BY <1>1 DEF PublishCall, PublishEnters
<1>2. CASE PublishLock(p)
  BY <1>2 DEF PublishLock
<1>3. CASE PublishMark(p)
  BY <1>3 DEF PublishMark
<1>4. CASE PublishGuard(p)
  BY <1>4 DEF PublishGuard
<1>5. CASE PublishBuild(p)
  BY <1>5 DEF PublishBuild
<1>6. CASE PublishBuildFails(p)
  BY <1>6 DEF PublishBuildFails
<1>7. CASE PublishExchange(p)
  BY <1>7 DEF PublishExchange
<1>8. CASE PublishStart(p)
  BY <1>8 DEF PublishStart
<1>9. CASE PublishScan(p)
  BY <1>9 DEF PublishScan
<1>10. CASE PublishCheck(p)
  BY <1>10 DEF PublishCheck
<1>11. CASE PublishReclaim(p)
  BY <1>11 DEF PublishReclaim
<1>12. CASE PublishClear(p)
  BY <1>12 DEF PublishClear
<1>13. CASE PublishUnlock(p)
  BY <1>13 DEF PublishUnlock
<1>20. QED
  BY <1>1, <1>2, <1>3, <1>4, <1>5, <1>6, <1>7, <1>8, <1>9, <1>10, <1>11, <1>12,
     <1>13
  DEF PublisherStep, PublishProgress

(* Configuration and teardown delimit the life of the rules. *)
LEMMA OwnerRulesInv ==
  ASSUME IInv, OwnerStep
  PROVE  RulesInv'
<1> USE PublishersAssumption
    DEF IInv, OwnerGoto, OwnerRunUnchanged, OwnerEndUnchanged,
            RulesInv, LockInv, CountInv, Retiring, InsideLock, TypeOK,
            SharedTypeOK, LifecycleTypeOK, PublisherTypeOK, CleanupBusy, Null,
            lifecycle_vars, stat_vars, publisher_vars, qsbr_vars
<1>1. CASE ConfigureRules
  BY <1>1 DEF ConfigureRules
<1>2. CASE ConfigureRulesFails
  BY <1>2 DEF ConfigureRulesFails
<1>3. CASE Setup
  BY <1>3 DEF Setup
<1>4. CASE RunBegin
  BY <1>4 DEF RunBegin
<1>5. CASE RemoteLaunch
  BY <1>5 DEF RemoteLaunch
<1>6. CASE RemoteLaunchFails
  BY <1>6 DEF RemoteLaunchFails
<1>7. CASE MainWorker
  BY <1>7 DEF MainWorker
<1>8. CASE MainWorkerReturns
  BY <1>8 DEF MainWorkerReturns
<1>9. CASE JoinWorker
  BY <1>9 DEF JoinWorker
<1>10. CASE RunReturns
  BY <1>10 DEF RunReturns
<1>11. CASE Teardown
  BY <1>11 DEF Teardown
<1>12. CASE RulesLock
  BY <1>12 DEF RulesLock
<1>13. CASE RulesExchange
  BY <1>13 DEF RulesExchange
<1>14. CASE RulesFree
  BY <1>14 DEF RulesFree
<1>15. CASE RulesUnlock
  BY <1>15 DEF RulesUnlock
<1>16. CASE Cleanup
  BY <1>16 DEF Cleanup
<1>20. QED
  BY <1>1, <1>2, <1>3, <1>4, <1>5, <1>6, <1>7, <1>8, <1>9, <1>10, <1>11, <1>12,
     <1>13, <1>14, <1>15, <1>16
  DEF OwnerStep

-----------------------------------------------------------------------------
(* CountInv *)

(* Workers do not change the publication counters. *)
LEMMA WorkerCountInv ==
  ASSUME IInv, NEW w \in Workers, WorkerStep(w)
  PROVE  CountInv'
BY WorkerFrame DEF IInv, CountInv, Retiring, stat_vars, publisher_vars

(* Each exchange is followed by one reclamation, under the lock. *)
LEMMA PublisherCountInv ==
  ASSUME IInv, NEW p \in Publishers, PublisherStep(p)
  PROVE  CountInv'
<1> USE DEF IInv, PublisherGoto, CountInv, RulesInv, LockInv, Retiring, InsideLock,
            TypeOK, SharedTypeOK, PublisherTypeOK, PublisherPC, stat_vars
<1>1. CASE PublishCall(p)
  BY <1>1 DEF PublishCall, PublishEnters
<1>2. CASE PublishLock(p)
  BY <1>2 DEF PublishLock
<1>3. CASE PublishMark(p)
  BY <1>3 DEF PublishMark
<1>4. CASE PublishGuard(p)
  BY <1>4 DEF PublishGuard
<1>5. CASE PublishBuild(p)
  BY <1>5 DEF PublishBuild
<1>6. CASE PublishBuildFails(p)
  BY <1>6 DEF PublishBuildFails
<1>7. CASE PublishExchange(p)
  BY <1>7 DEF PublishExchange
<1>8. CASE PublishStart(p)
  BY <1>8 DEF PublishStart
<1>9. CASE PublishScan(p)
  BY <1>9 DEF PublishScan
<1>10. CASE PublishCheck(p)
  BY <1>10 DEF PublishCheck
<1>11. CASE PublishReclaim(p)
  BY <1>11 DEF PublishReclaim
<1>12. CASE PublishClear(p)
  BY <1>12 DEF PublishClear
<1>13. CASE PublishUnlock(p)
  BY <1>13 DEF PublishUnlock
<1>20. QED
  BY <1>1, <1>2, <1>3, <1>4, <1>5, <1>6, <1>7, <1>8, <1>9, <1>10, <1>11, <1>12,
     <1>13
  DEF PublisherStep, PublishProgress

(* The configuration is the first publication. *)
LEMMA OwnerCountInv ==
  ASSUME IInv, OwnerStep
  PROVE  CountInv'
<1> USE DEF IInv, OwnerGoto, OwnerRunUnchanged, OwnerEndUnchanged,
            CountInv, RulesInv, Retiring, TypeOK, SharedTypeOK,
            stat_vars, publisher_vars
<1>1. CASE ConfigureRules
  BY <1>1 DEF ConfigureRules
<1>2. CASE ConfigureRulesFails
  BY <1>2 DEF ConfigureRulesFails
<1>3. CASE Setup
  BY <1>3 DEF Setup
<1>4. CASE RunBegin
  BY <1>4 DEF RunBegin
<1>5. CASE RemoteLaunch
  BY <1>5 DEF RemoteLaunch
<1>6. CASE RemoteLaunchFails
  BY <1>6 DEF RemoteLaunchFails
<1>7. CASE MainWorker
  BY <1>7 DEF MainWorker
<1>8. CASE MainWorkerReturns
  BY <1>8 DEF MainWorkerReturns
<1>9. CASE JoinWorker
  BY <1>9 DEF JoinWorker
<1>10. CASE RunReturns
  BY <1>10 DEF RunReturns
<1>11. CASE Teardown
  BY <1>11 DEF Teardown
<1>12. CASE RulesLock
  BY <1>12 DEF RulesLock
<1>13. CASE RulesExchange
  BY <1>13 DEF RulesExchange
<1>14. CASE RulesFree
  BY <1>14 DEF RulesFree
<1>15. CASE RulesUnlock
  BY <1>15 DEF RulesUnlock
<1>16. CASE Cleanup
  BY <1>16 DEF Cleanup
<1>20. QED
  BY <1>1, <1>2, <1>3, <1>4, <1>5, <1>6, <1>7, <1>8, <1>9, <1>10, <1>11, <1>12,
     <1>13, <1>14, <1>15, <1>16
  DEF OwnerStep

-----------------------------------------------------------------------------
(* GraceInv *)

(* A worker that starts a burst reads the active snapshot; one that is in a *)
(* burst does not acknowledge the token.                                    *)
LEMMA WorkerGraceInv ==
  ASSUME IInv, NEW w \in Workers, WorkerStep(w)
  PROVE  GraceInv'
<1> USE WorkerCountAssumption, ReaderCapacityAssumption
    DEF IInv, WorkerGoto, GraceInv, RulesInv, ReaderInv, Reading, Retiring,
            TypeOK, WorkerTypeOK, SharedTypeOK, QSBRTypeOK, Workers, Readers,
            lifecycle_vars, stat_vars, local_vars, publisher_vars,
            qsbr_vars, rte_rcu_qsbr_thread_register, qsbr_store,
            rte_rcu_qsbr_thread_offline, rte_rcu_qsbr_thread_unregister
<1>1. CASE WorkerEnter(w)
  BY <1>1 DEF WorkerEnter
<1>2. CASE WorkerRegisterFails(w)
  BY <1>2 DEF WorkerRegisterFails
<1>3. CASE WorkerFail(w)
  BY <1>3 DEF WorkerFail
<1>4. CASE WorkerRegister(w)
  BY <1>4 DEF WorkerRegister
<1>5. CASE WorkerOnlineLoad(w)
  BY <1>5 DEF WorkerOnlineLoad
<1>6. CASE WorkerOnlineStore(w)
  BY <1>6 DEF WorkerOnlineStore
<1>7. CASE WorkerCountReader(w)
  BY <1>7 DEF WorkerCountReader
<1>8. CASE WorkerPoll(w)
  BY <1>8 DEF WorkerPoll
<1>9. CASE WorkerLoad(w)
  <2>1. rules_configured /\ active_rules = rules_generation
    BY <1>9 DEF WorkerLoad, OwnerInv, Gone
  <2>2. snapshot'[w] = rules_generation
    BY <1>9, <2>1 DEF WorkerLoad
  <2>3. QED
    BY <1>9, <2>1, <2>2 DEF WorkerLoad
<1>10. CASE WorkerProcess(w)
  BY <1>10 DEF WorkerProcess
<1>11. CASE WorkerQuiescentLoad(w)
  BY <1>11 DEF WorkerQuiescentLoad
<1>12. CASE WorkerQuiescentStore(w)
  BY <1>12 DEF WorkerQuiescentStore
<1>13. CASE WorkerStop(w)
  BY <1>13 DEF WorkerStop
<1>14. CASE WorkerOffline(w)
  BY <1>14 DEF WorkerOffline
<1>15. CASE WorkerUnregister(w)
  BY <1>15 DEF WorkerUnregister
<1>16. CASE WorkerLeave(w)
  BY <1>16 DEF WorkerLeave
<1>20. QED
  BY <1>1, <1>2, <1>3, <1>4, <1>5, <1>6, <1>7, <1>8, <1>9, <1>10, <1>11, <1>12,
     <1>13, <1>14, <1>15, <1>16
  DEF WorkerStep

(* rte_rcu_qsbr_check does not pass an online reader with an older token. *)
LEMMA NotAcked ==
  ASSUME NEW r, NEW t \in Nat, cnt[r] \in Nat, cnt[r] # 0, cnt[r] < t
  PROVE  ~Acked(r, t)
BY DEF Acked

(* The exchange comes before the token, so a reader of the old snapshot has *)
(* acknowledged an older one only, and the check does not pass it.          *)
LEMMA PublisherGraceInv ==
  ASSUME IInv, NEW p \in Publishers, PublisherStep(p)
  PROVE  GraceInv'
<1> USE WorkerCountAssumption, ReaderCapacityAssumption
    DEF IInv, PublisherGoto, GraceInv, RulesInv, LockInv, ReaderInv, Reading,
            Retiring, InsideLock, Acked, TypeOK, SharedTypeOK, QSBRTypeOK,
            PublisherTypeOK, WorkerTypeOK, Workers, Readers, lifecycle_vars,
            stat_vars, worker_vars, local_vars, qsbr_vars, rte_rcu_qsbr_start
<1>1. CASE PublishCall(p)
  BY <1>1 DEF PublishCall, PublishEnters
<1>2. CASE PublishLock(p)
  BY <1>2 DEF PublishLock
<1>3. CASE PublishMark(p)
  BY <1>3 DEF PublishMark
<1>4. CASE PublishGuard(p)
  BY <1>4 DEF PublishGuard
<1>5. CASE PublishBuild(p)
  BY <1>5 DEF PublishBuild
<1>6. CASE PublishBuildFails(p)
  BY <1>6 DEF PublishBuildFails
<1>7. CASE PublishExchange(p)
  <2>1. writer_lock = p /\ rules_configured /\ opc # "rules_free"
    BY <1>7, PublishersAssumption DEF PublishExchange
  <2>2. \A q \in Publishers : ~Retiring(q)
    BY <1>7, <2>1 DEF PublishExchange
  <2>3. old_snapshot'[p] = rules_generation /\ ppc'[p] = "start"
    BY <1>7, <2>1 DEF PublishExchange
  <2>4. ASSUME NEW w \in Workers, Reading(w)'
        PROVE  snapshot'[w] = old_snapshot'[p]
    BY <1>7, <2>2, <2>3, <2>4 DEF PublishExchange
  <2>5. QED
    BY <2>3, <2>4
<1>8. CASE PublishStart(p)
  <2>1. \A q \in Publishers : Retiring(q) => q = p
    BY <1>8 DEF PublishStart
  <2>2. ppc'[p] = "scan" /\ old_snapshot' = old_snapshot /\ ptoken'[p] = token + 1
    BY <1>8 DEF PublishStart
  <2>3. ASSUME NEW w \in Workers
        PROVE  cnt'[w] < ptoken'[p]
    <3>1. w \in Readers /\ cnt' = cnt
      BY <1>8 DEF PublishStart
    <3>2. cnt[w] \in Nat /\ token \in Nat /\ cnt[w] <= token
      BY <3>1
    <3>3. QED
      BY <2>2, <3>1, <3>2
  <2>4. UNCHANGED <<wpc, snapshot, rules_configured, rules_generation>>
    BY <1>8 DEF PublishStart
  <2>5. QED
    <3>1. SUFFICES ASSUME NEW w \in Workers, Reading(w)',
                          ~(rules_configured /\ snapshot[w] = rules_generation)'
                   PROVE  snapshot'[w] = old_snapshot'[p]
      BY <2>2, <2>3
    <3>2. PICK q \in Publishers : Retiring(q) /\ snapshot[w] = old_snapshot[q]
      BY <2>4, <3>1
    <3>3. QED
      BY <2>1, <2>2, <2>4, <3>2
<1>9. CASE PublishScan(p)
  BY <1>9 DEF PublishScan
<1>10. CASE PublishCheck(p)
  <2>1. \A q \in Publishers : Retiring(q) => q = p
    BY <1>10 DEF PublishCheck
  <2>2. PICK r \in pending[p] :
          pending' = [pending EXCEPT ![p] =
                        IF Acked(r, ptoken[p]) THEN @ \ {r} ELSE registered]
    BY <1>10 DEF PublishCheck
  <2>3. UNCHANGED <<wpc, snapshot, rules_configured, rules_generation, ppc,
                    old_snapshot, ptoken, cnt>>
    BY <1>10 DEF PublishCheck
  <2>4. ASSUME NEW w \in Workers, Reading(w), w \in pending[p],
               cnt[w] < ptoken[p]
        PROVE  w \in pending'[p]
    <3>1. cnt[w] # 0 /\ w \in registered
      BY <2>4
    <3>2. ~Acked(w, ptoken[p])
      <4>1. w \in Readers
        BY DEF Workers, Readers
      <4>2. cnt[w] \in Nat /\ ptoken[p] \in Nat
        BY <4>1
      <4>3. QED
        BY <2>4, <3>1, <4>2, NotAcked
    <3>3. QED
      BY <2>2, <2>4, <3>1, <3>2
  <2>5. ASSUME NEW w \in Workers, Reading(w)'
        PROVE  \/ rules_configured' /\ snapshot'[w] = rules_generation'
               \/ /\ Retiring(p)' /\ snapshot'[w] = old_snapshot'[p]
                  /\ ppc'[p] \in {"scan", "check"} => cnt'[w] < ptoken'[p]
                  /\ ppc'[p] = "check" => w \in pending'[p]
    <3>1. Reading(w)
      BY <2>3, <2>5
    <3>2. ppc[p] = "check"
      BY <1>10 DEF PublishCheck
    <3>3. CASE rules_configured /\ snapshot[w] = rules_generation
      BY <2>3, <3>3
    <3>4. CASE /\ Retiring(p) /\ snapshot[w] = old_snapshot[p]
               /\ cnt[w] < ptoken[p] /\ w \in pending[p]
      BY <2>3, <2>4, <3>1, <3>4
    <3>5. QED
      BY <2>1, <3>1, <3>2, <3>3, <3>4
  <2>6. QED
    BY <2>5
<1>11. CASE PublishReclaim(p)
  BY <1>11 DEF PublishReclaim
<1>12. CASE PublishClear(p)
  BY <1>12 DEF PublishClear
<1>13. CASE PublishUnlock(p)
  BY <1>13 DEF PublishUnlock
<1>20. QED
  BY <1>1, <1>2, <1>3, <1>4, <1>5, <1>6, <1>7, <1>8, <1>9, <1>10, <1>11, <1>12,
     <1>13
  DEF PublisherStep, PublishProgress

(* The owner withdraws the rules when no worker is in a burst. *)
LEMMA OwnerGraceInv ==
  ASSUME IInv, OwnerStep
  PROVE  GraceInv'
<1> USE DEF IInv, OwnerGoto, OwnerRunUnchanged, OwnerEndUnchanged,
            GraceInv, OwnerInv, Gone, Reading, Retiring, TypeOK,
            WorkerTypeOK, worker_vars, local_vars, publisher_vars,
            qsbr_vars, stat_vars, lifecycle_vars
<1>1. CASE ConfigureRules
  BY <1>1 DEF ConfigureRules
<1>2. CASE ConfigureRulesFails
  BY <1>2 DEF ConfigureRulesFails
<1>3. CASE Setup
  BY <1>3 DEF Setup
<1>4. CASE RunBegin
  BY <1>4 DEF RunBegin
<1>5. CASE RemoteLaunch
  BY <1>5 DEF RemoteLaunch
<1>6. CASE RemoteLaunchFails
  BY <1>6 DEF RemoteLaunchFails
<1>7. CASE MainWorker
  BY <1>7 DEF MainWorker
<1>8. CASE MainWorkerReturns
  BY <1>8 DEF MainWorkerReturns
<1>9. CASE JoinWorker
  BY <1>9 DEF JoinWorker
<1>10. CASE RunReturns
  BY <1>10 DEF RunReturns
<1>11. CASE Teardown
  BY <1>11 DEF Teardown
<1>12. CASE RulesLock
  BY <1>12 DEF RulesLock
<1>13. CASE RulesExchange
  BY <1>13 DEF RulesExchange
<1>14. CASE RulesFree
  BY <1>14 DEF RulesFree
<1>15. CASE RulesUnlock
  BY <1>15 DEF RulesUnlock
<1>16. CASE Cleanup
  BY <1>16 DEF Cleanup
<1>20. QED
  BY <1>1, <1>2, <1>3, <1>4, <1>5, <1>6, <1>7, <1>8, <1>9, <1>10, <1>11, <1>12,
     <1>13, <1>14, <1>15, <1>16
  DEF OwnerStep

-----------------------------------------------------------------------------
(* HeapOwned *)

(* Workers allocate and free nothing. *)
LEMMA WorkerHeapOwned ==
  ASSUME IInv, NEW w \in Workers, WorkerStep(w)
  PROVE  HeapOwned'
BY WorkerFrame DEF IInv, HeapOwned, Retiring, stat_vars, publisher_vars, owner_vars

(* A publisher hands its new snapshot to the pointer and frees the old one. *)
LEMMA PublisherHeapOwned ==
  ASSUME IInv, NEW p \in Publishers, PublisherStep(p)
  PROVE  HeapOwned'
<1> USE DEF IInv, PublisherGoto, HeapOwned, RulesInv, LockInv, Retiring, InsideLock,
            TypeOK, SharedTypeOK, PublisherTypeOK, stat_vars, owner_vars, Null
<1>1. CASE PublishCall(p)
  BY <1>1 DEF PublishCall, PublishEnters
<1>2. CASE PublishLock(p)
  BY <1>2 DEF PublishLock
<1>3. CASE PublishMark(p)
  BY <1>3 DEF PublishMark
<1>4. CASE PublishGuard(p)
  BY <1>4 DEF PublishGuard
<1>5. CASE PublishBuild(p)
  BY <1>5 DEF PublishBuild
<1>6. CASE PublishBuildFails(p)
  BY <1>6 DEF PublishBuildFails
<1>7. CASE PublishExchange(p)
  BY <1>7 DEF PublishExchange
<1>8. CASE PublishStart(p)
  BY <1>8 DEF PublishStart
<1>9. CASE PublishScan(p)
  BY <1>9 DEF PublishScan
<1>10. CASE PublishCheck(p)
  BY <1>10 DEF PublishCheck
<1>11. CASE PublishReclaim(p)
  BY <1>11 DEF PublishReclaim
<1>12. CASE PublishClear(p)
  BY <1>12 DEF PublishClear
<1>13. CASE PublishUnlock(p)
  BY <1>13 DEF PublishUnlock
<1>20. QED
  BY <1>1, <1>2, <1>3, <1>4, <1>5, <1>6, <1>7, <1>8, <1>9, <1>10, <1>11, <1>12,
     <1>13
  DEF PublisherStep, PublishProgress

(* Configuration allocates the first snapshot, teardown frees the last. *)
LEMMA OwnerHeapOwned ==
  ASSUME IInv, OwnerStep
  PROVE  HeapOwned'
<1> USE PublishersAssumption
    DEF IInv, OwnerGoto, OwnerRunUnchanged, OwnerEndUnchanged,
            HeapOwned, RulesInv, LockInv, Retiring, InsideLock,
            TypeOK, SharedTypeOK, PublisherTypeOK, LifecycleTypeOK, stat_vars,
            publisher_vars, Null
<1>1. CASE ConfigureRules
  BY <1>1 DEF ConfigureRules
<1>2. CASE ConfigureRulesFails
  BY <1>2 DEF ConfigureRulesFails
<1>3. CASE Setup
  BY <1>3 DEF Setup
<1>4. CASE RunBegin
  BY <1>4 DEF RunBegin
<1>5. CASE RemoteLaunch
  BY <1>5 DEF RemoteLaunch
<1>6. CASE RemoteLaunchFails
  BY <1>6 DEF RemoteLaunchFails
<1>7. CASE MainWorker
  BY <1>7 DEF MainWorker
<1>8. CASE MainWorkerReturns
  BY <1>8 DEF MainWorkerReturns
<1>9. CASE JoinWorker
  BY <1>9 DEF JoinWorker
<1>10. CASE RunReturns
  BY <1>10 DEF RunReturns
<1>11. CASE Teardown
  BY <1>11 DEF Teardown
<1>12. CASE RulesLock
  BY <1>12 DEF RulesLock
<1>13. CASE RulesExchange
  BY <1>13 DEF RulesExchange
<1>14. CASE RulesFree
  BY <1>14 DEF RulesFree
<1>15. CASE RulesUnlock
  BY <1>15 DEF RulesUnlock
<1>16. CASE Cleanup
  BY <1>16 DEF Cleanup
<1>20. QED
  BY <1>1, <1>2, <1>3, <1>4, <1>5, <1>6, <1>7, <1>8, <1>9, <1>10, <1>11, <1>12,
     <1>13, <1>14, <1>15, <1>16
  DEF OwnerStep

-----------------------------------------------------------------------------
(* SeenInv *)

(* The snapshot local of a worker changes only when it loads the active     *)
(* pointer, which then is the newest generation.                            *)
LEMMA WorkerLoads ==
  ASSUME IInv, NEW w \in Workers, WorkerStep(w)
  PROVE  \/ UNCHANGED snapshot
         \/ snapshot' = [snapshot EXCEPT ![w] = rules_generation]
<1> USE DEF local_vars
<1>9. CASE WorkerLoad(w)
  BY <1>9 DEF WorkerLoad, WorkerGoto, IInv, OwnerInv, RulesInv, Gone
<1>20. QED
  BY <1>9 DEF WorkerStep, WorkerEnter, WorkerRegisterFails, WorkerFail, WorkerRegister,
     WorkerOnlineLoad, WorkerOnlineStore, WorkerCountReader,
     WorkerPoll, WorkerProcess, WorkerQuiescentLoad,
     WorkerQuiescentStore, WorkerStop, WorkerOffline,
     WorkerUnregister, WorkerLeave

(* No step shows a worker a generation that was not published. *)
LEMMA SeenInvStep ==
  ASSUME IInv, [Next]_vars
  PROVE  SeenInv'
<1>0. SeenInv /\ snapshot \in [Workers -> Nat] /\ rules_generation \in Nat
  BY DEF IInv, TypeOK, WorkerTypeOK, SharedTypeOK
<1>1. ASSUME NEW w \in Workers, WorkerStep(w)
      PROVE  SeenInv'
  BY <1>0, <1>1, WorkerLoads, WorkerFrame DEF SeenInv, IInv, stat_vars
<1>2. ASSUME NEW p \in Publishers, PublisherStep(p)
      PROVE  SeenInv'
  <2>1. UNCHANGED snapshot
    BY <1>2, PublisherFrame DEF IInv, worker_vars, local_vars
  <2>2. rules_generation' \in {rules_generation, rules_generation + 1}
    BY <1>2 DEF PublisherStep, PublishProgress, PublishCall, PublishEnters, PublishLock,
       PublishMark, PublishGuard, PublishBuild, PublishBuildFails,
       PublishExchange, PublishStart, PublishScan, PublishCheck,
       PublishReclaim, PublishClear, PublishUnlock, PublisherGoto, stat_vars,
       IInv, RulesInv
  <2>3. QED
    BY <1>0, <2>1, <2>2 DEF SeenInv
<1>3. ASSUME OwnerStep
      PROVE  SeenInv'
  <2>1. UNCHANGED snapshot
    BY <1>3, OwnerFrame DEF local_vars
  <2>2. rules_generation' = rules_generation \/ rules_generation' > rules_generation
    BY <1>3 DEF OwnerStep, ConfigureRules, ConfigureRulesFails, Setup, RunBegin,
       RemoteLaunch, RemoteLaunchFails, MainWorker, MainWorkerReturns,
       JoinWorker, RunReturns, Teardown, RulesLock, RulesExchange, RulesFree,
       RulesUnlock, Cleanup, OwnerGoto, OwnerRunUnchanged, OwnerEndUnchanged,
       stat_vars, IInv, RulesInv
  <2>3. rules_generation' \in Nat
    BY <1>3, OwnerTypeStep DEF IInv, TypeOK, SharedTypeOK
  <2>4. QED
    BY <1>0, <2>1, <2>2, <2>3 DEF SeenInv
<1>4. CASE UNCHANGED <<snapshot, rules_generation>>
  BY <1>0, <1>4 DEF SeenInv
<1>5. QED
  BY <1>1, <1>2, <1>3, <1>4
  DEF Next, PublisherStep, RequestStop, vars, worker_vars, local_vars, stat_vars

-----------------------------------------------------------------------------
(* The invariant and what follows from it *)

(* The invariant holds after dp_runtime_init. *)
LEMMA InitIInv == Init => IInv
<1> SUFFICES ASSUME Init PROVE IInv
  OBVIOUS
<1> USE WorkerCountAssumption, ReaderCapacityAssumption, PublishersAssumption
    DEF Init, rte_rcu_qsbr_init
<1>1. TypeOK
  <2>1. LifecycleTypeOK
    <3>1. /\ initialized \in BOOLEAN /\ ready \in BOOLEAN /\ running \in BOOLEAN
          /\ ran \in BOOLEAN /\ rules_configured \in BOOLEAN
      BY Zenon
    <3>2. QED
      BY <3>1 DEF LifecycleTypeOK, OwnerPC, Null
  <2>2. SharedTypeOK
    <3>1. stop \in BOOLEAN /\ writer_active \in BOOLEAN /\ rules_qsbr \in BOOLEAN
      BY Zenon
    <3>2. QSBRTypeOK
      BY DEF QSBRTypeOK
    <3>3. QED
      BY <3>1, <3>2 DEF SharedTypeOK, Null
  <2>3. WorkerTypeOK
    BY DEF WorkerTypeOK, WorkerPC, Null
  <2>4. PublisherTypeOK
    BY DEF PublisherTypeOK, PublisherPC, Null
  <2>5. QED
    BY <2>1, <2>2, <2>3, <2>4 DEF TypeOK
<1>2. LockInv /\ ReaderInv /\ OwnerInv
  BY DEF LockInv, InsideLock, ReaderInv, OwnerInv, Gone, Workers, Readers,
     Owner, Free
<1>3. RulesInv /\ CountInv /\ GraceInv /\ SeenInv /\ HeapOwned
  BY DEF RulesInv, CountInv, GraceInv, SeenInv, HeapOwned, Retiring, Reading,
     Null
<1>4. QED
  BY <1>1, <1>2, <1>3 DEF IInv

(* Every step of a worker, a publisher or the owner preserves the           *)
(* invariant.                                                               *)
LEMMA NextIInv == IInv /\ [Next]_vars => IInv'
<1> SUFFICES ASSUME IInv, [Next]_vars PROVE IInv'
  OBVIOUS
<1>1. ASSUME NEW w \in Workers, WorkerStep(w)
      PROVE  IInv'
  BY <1>1, WorkerTypeStep, WorkerLockInv, WorkerReaderInv, WorkerOwnerInv,
     WorkerRulesInv, WorkerCountInv, WorkerGraceInv, SeenInvStep,
     WorkerHeapOwned DEF IInv
<1>2. ASSUME NEW p \in Publishers, PublisherStep(p)
      PROVE  IInv'
  BY <1>2, PublisherTypeStep, PublisherLockInv, PublisherReaderInv,
     PublisherOwnerInv, PublisherRulesInv, PublisherCountInv,
     PublisherGraceInv, SeenInvStep, PublisherHeapOwned DEF IInv
<1>3. CASE OwnerStep
  BY <1>3, OwnerTypeStep, OwnerLockInv, OwnerReaderInv, OwnerOwnerInv,
     OwnerRulesInv, OwnerCountInv, OwnerGraceInv, SeenInvStep,
     OwnerHeapOwned DEF IInv
<1>4. CASE RequestStop \/ UNCHANGED vars
  <2>1. UNCHANGED <<lifecycle_vars, active_rules, lock_vars, stat_vars, heap,
                    rules_qsbr, qsbr_vars, worker_vars, publisher_vars,
                    owner_vars>> /\ stop' \in {stop, TRUE}
    BY <1>4 DEF RequestStop, vars, qsbr_vars
  <2> USE <2>1 DEF lifecycle_vars, lock_vars, stat_vars, qsbr_vars, worker_vars,
      local_vars, count_vars, publisher_vars, owner_vars, IInv
  <2>2. TypeOK'
    <3>1. LifecycleTypeOK'
      BY DEF TypeOK, LifecycleTypeOK
    <3>2. SharedTypeOK'
      BY DEF TypeOK, SharedTypeOK, QSBRTypeOK
    <3>3. WorkerTypeOK'
      BY DEF TypeOK, WorkerTypeOK
    <3>4. PublisherTypeOK'
      BY DEF TypeOK, PublisherTypeOK
    <3>5. QED
      BY <3>1, <3>2, <3>3, <3>4 DEF TypeOK
  <2>3. LockInv' /\ ReaderInv' /\ OwnerInv'
    BY DEF LockInv, ReaderInv, OwnerInv, Gone
  <2>4. RulesInv' /\ CountInv'
    BY DEF RulesInv, CountInv, Retiring
  <2>5. GraceInv' /\ HeapOwned'
    BY DEF GraceInv, HeapOwned, Retiring, Reading
  <2>6. QED
    BY <2>2, <2>3, <2>4, <2>5, SeenInvStep
<1>5. QED
  BY <1>1, <1>2, <1>3, <1>4 DEF Next, PublisherStep

(* The strengthened invariant holds in every reachable state. *)
THEOREM Invariance == SafeSpec => []IInv
BY InitIInv, NextIInv, PTL DEF SafeSpec

(* Every variable keeps its type. *)
THEOREM TypeCorrectness == SafeSpec => []TypeOK
BY Invariance, PTL DEF IInv

(* The snapshot of a burst is the active one or one in its grace period,    *)
(* and both are allocated.                                                  *)
LEMMA IInvMemorySafe == IInv => MemorySafe
<1> SUFFICES ASSUME IInv PROVE MemorySafe
  OBVIOUS
<1>1. ASSUME NEW w \in Workers, Reading(w)
      PROVE  snapshot[w] \in heap
  <2>1. rules_configured /\ opc # "rules_free"
    BY <1>1 DEF IInv, OwnerInv, Gone, Reading
  <2>2. active_rules = rules_generation /\ rules_generation \in Nat \ {0}
    BY <2>1 DEF IInv, RulesInv, TypeOK, SharedTypeOK
  <2>3. CASE snapshot[w] = rules_generation
    BY <2>2, <2>3 DEF IInv, HeapOwned
  <2>4. ASSUME NEW p \in Publishers, Retiring(p), snapshot[w] = old_snapshot[p]
        PROVE  snapshot[w] \in heap
    <3>1. old_snapshot[p] \in 1 .. rules_generation + 1
      BY <2>2, <2>4 DEF IInv, RulesInv, TypeOK, PublisherTypeOK, Null
    <3>2. QED
      BY <2>4, <3>1 DEF IInv, HeapOwned
  <2>5. QED
    BY <1>1, <2>3, <2>4 DEF IInv, GraceInv
<1>2. ASSUME NEW w \in Workers, UsesQSBR(w)
      PROVE  rules_qsbr
  BY <1>2 DEF IInv, OwnerInv, RulesInv, Gone, UsesQSBR
<1>3. ASSUME NEW p \in Publishers, Retiring(p)
      PROVE  rules_qsbr
  BY <1>3 DEF IInv, RulesInv, Retiring
<1>4. QED
  BY <1>1, <1>2, <1>3 DEF MemorySafe

(* No worker ever dereferences a freed or NULL snapshot, and the QSBR       *)
(* variable outlives every use of it, whatever the interleaving of          *)
(* publications, bursts, stops and teardown.                                *)
THEOREM MemorySafety == SafeSpec => []MemorySafe
BY IInvMemorySafe, Invariance, PTL

(* Every snapshot is owned by exactly one pointer that will free it. *)
THEOREM HeapOwnership == SafeSpec => []HeapOwned
BY Invariance, PTL DEF IInv

(* When dp_publish_rules has reported a generation, no worker still uses an *)
(* older one.                                                               *)
THEOREM SynchronousPublication == SafeSpec => []PublishIsSynchronous
<1>1. IInv => PublishIsSynchronous
  <2> SUFFICES ASSUME IInv, NEW w \in Workers, Reading(w)
               PROVE  snapshot[w] >= returned
    BY DEF PublishIsSynchronous
  <2>1. returned <= rules_generation
        /\ \A p \in Publishers : Retiring(p) => returned <= old_snapshot[p]
    BY DEF IInv, RulesInv
  <2>2. snapshot[w] \in Nat /\ returned \in Nat
    BY DEF IInv, TypeOK, WorkerTypeOK, PublisherTypeOK
  <2>3. snapshot[w] = rules_generation
        \/ \E p \in Publishers : Retiring(p) /\ snapshot[w] = old_snapshot[p]
    BY DEF IInv, GraceInv
  <2>4. QED
    BY <2>1, <2>2, <2>3
<1>2. QED
  BY <1>1, Invariance, PTL

(* Outside the critical section every published snapshot but the last has   *)
(* been reclaimed.                                                          *)
THEOREM ExactAccounting == SafeSpec => []ReclaimAccounting
<1>1. IInv => ReclaimAccounting
  <2> SUFFICES ASSUME IInv, writer_lock = Free, rules_publish_success > 0
               PROVE  /\ rules_generation = rules_publish_success
                      /\ rules_reclaimed = rules_publish_success - 1
    BY DEF ReclaimAccounting
  <2>1. \A p \in Publishers : ~Retiring(p)
    BY PublishersAssumption DEF IInv, LockInv, InsideLock, Retiring
  <2>2. QED
    BY <2>1 DEF IInv, CountInv
<1>2. QED
  BY <1>1, Invariance, PTL

(* dp_runtime_cleanup closes the EAL only when nothing can use it any more. *)
THEOREM SafeCleanup == SafeSpec => []CleanupSafe
<1>1. IInv => CleanupSafe
  <2> SUFFICES ASSUME IInv, ~initialized
               PROVE  /\ heap = {} /\ ~rules_qsbr
                      /\ \A w \in Workers : Gone(w)
                      /\ \A p \in Publishers :
                           ~Retiring(p) /\ ppc[p] \notin {"build", "exchange"}
    BY DEF CleanupSafe
  <2>1. opc = "done" /\ ~rules_qsbr /\ ~rules_configured
    BY DEF IInv, RulesInv
  <2>2. \A w \in Workers : Gone(w)
    BY <2>1 DEF IInv, OwnerInv
  <2>3. \A p \in Publishers :
          ~Retiring(p) /\ ppc[p] \notin {"build", "exchange"}
    BY <2>1 DEF IInv, RulesInv, Retiring
  <2>4. active_rules = 0
    BY <2>1 DEF IInv, RulesInv, Null
  <2>5. heap = {}
    BY <2>1, <2>3, <2>4 DEF IInv, HeapOwned
  <2>6. QED
    BY <2>1, <2>2, <2>3, <2>5
<1>2. QED
  BY <1>1, Invariance, PTL

(* From burst to burst a worker sees the same or a newer generation. *)
THEOREM MonotonicGenerations == SafeSpec => MonotonicReads
<1>1. IInv /\ [Next]_vars =>
        [\A w \in Workers : snapshot'[w] >= snapshot[w]]_vars
  <2> SUFFICES ASSUME IInv, [Next]_vars, NEW v \in Workers
               PROVE  snapshot'[v] >= snapshot[v]
    OBVIOUS
  <2>0. snapshot \in [Workers -> Nat] /\ rules_generation \in Nat
        /\ snapshot[v] <= rules_generation
    BY DEF IInv, TypeOK, WorkerTypeOK, SharedTypeOK, SeenInv
  <2>1. ASSUME NEW w \in Workers, WorkerStep(w)
        PROVE  snapshot'[v] >= snapshot[v]
    BY <2>0, <2>1, WorkerLoads
  <2>2. ASSUME NEW p \in Publishers, PublisherStep(p)
        PROVE  UNCHANGED snapshot
    BY <2>2, PublisherFrame DEF IInv, worker_vars, local_vars
  <2>3. CASE OwnerStep
    BY <2>0, <2>3, OwnerFrame DEF local_vars
  <2>4. CASE UNCHANGED snapshot
    BY <2>0, <2>4
  <2>5. QED
    BY <2>1, <2>2, <2>3, <2>4
    DEF Next, PublisherStep, RequestStop, vars, worker_vars, local_vars
<1>2. QED
  BY <1>1, Invariance, PTL DEF SafeSpec, MonotonicReads

-----------------------------------------------------------------------------
(* RulePublication implements SafeReclamation *)

(* A worker step is an acquisition, a release, or invisible. *)
LEMMA WorkerRefines ==
  ASSUME IInv, NEW w \in Workers, WorkerStep(w)
  PROVE  SR!Acquire(w) \/ SR!Release(w) \/ UNCHANGED SR!abstract_vars
<1>0. UNCHANGED <<heap, active_rules>> /\ snapshot \in [Workers -> Nat]
      /\ wpc \in [Workers -> WorkerPC]
  BY WorkerFrame DEF IInv, TypeOK, WorkerTypeOK
<1>1. CASE WorkerLoad(w) /\ burst[w]
  <2>1. active_rules # Null
    BY <1>1 DEF WorkerLoad, WorkerGoto, IInv, OwnerInv, RulesInv, Gone, Null
  <2>2. Held[w] = Null /\ Held' = [Held EXCEPT ![w] = active_rules]
    BY <1>0, <1>1 DEF WorkerLoad, WorkerGoto, Held, Reading
  <2>3. QED
    BY <1>0, <2>1, <2>2 DEF SR!Acquire, SR!Nothing, Null
<1>2. CASE WorkerProcess(w)
  <2>1. Held[w] # Null
    BY <1>2, IInvMemorySafe DEF MemorySafe, WorkerProcess, WorkerGoto, Held,
       Reading, Null, IInv, TypeOK, SharedTypeOK, Generations
  <2>2. Held' = [Held EXCEPT ![w] = Null]
    BY <1>0, <1>2 DEF WorkerProcess, WorkerGoto, Held, Reading, local_vars
  <2>3. QED
    BY <1>0, <2>1, <2>2 DEF SR!Release, SR!Nothing, Null
<1>3. ASSUME ~Reading(w), ~Reading(w)', \A v \in Workers \ {w} :
                wpc'[v] = wpc[v] /\ snapshot'[v] = snapshot[v]
      PROVE  UNCHANGED SR!abstract_vars
  <2>1. Held' = Held
    BY <1>3 DEF Held, Reading
  <2>2. QED
    BY <1>0, <2>1 DEF SR!abstract_vars
<1>4. CASE WorkerLoad(w) /\ ~burst[w]
  BY <1>0, <1>3, <1>4 DEF WorkerLoad, WorkerGoto, Reading
<1>5. QED
  <2>1. CASE WorkerLoad(w)
    BY <1>1, <1>4, <2>1
  <2>2. CASE ~WorkerLoad(w) /\ ~WorkerProcess(w)
    BY <1>0, <1>3, <2>2 DEF WorkerStep, WorkerGoto, Reading, local_vars,
       WorkerEnter, WorkerRegisterFails, WorkerFail, WorkerRegister,
       WorkerOnlineLoad, WorkerOnlineStore, WorkerCountReader, WorkerPoll,
       WorkerQuiescentLoad, WorkerQuiescentStore, WorkerStop, WorkerOffline,
       WorkerUnregister, WorkerLeave
  <2>3. QED
    BY <1>2, <2>1, <2>2

(* A publisher step allocates, publishes, reclaims, or is invisible. *)
LEMMA PublisherRefines ==
  ASSUME IInv, NEW p \in Publishers, PublisherStep(p)
  PROVE  \/ SR!Allocate \/ SR!Publish
         \/ \E s \in heap : SR!Reclaim(s)
         \/ UNCHANGED SR!abstract_vars
<1>0. Held' = Held
  BY PublisherFrame DEF IInv, worker_vars, local_vars, Held, Reading
<1>1. ppc[p] \in {"build", "exchange", "start", "scan", "check"} =>
        /\ active_rules = rules_generation /\ rules_generation \in Nat \ {0}
        /\ \A q \in Publishers : q # p => ~Retiring(q) /\ ppc[q] # "exchange"
        /\ opc # "rules_free"
  BY PublishersAssumption DEF IInv, RulesInv, LockInv, InsideLock, Retiring,
     TypeOK, SharedTypeOK
<1>2. CASE PublishBuild(p)
  <2>1. active_rules = rules_generation /\ rules_generation + 1 \notin heap
    BY <1>1, <1>2 DEF PublishBuild, PublisherGoto, IInv, HeapOwned, Retiring
  <2>2. QED
    BY <1>0, <1>2, <2>1 DEF PublishBuild, SR!Allocate
<1>3. CASE PublishExchange(p)
  <2>1. new_snapshot[p] = active_rules + 1
    BY <1>1, <1>3 DEF PublishExchange, PublisherGoto, IInv, RulesInv
  <2>2. active_rules + 1 \in heap
    BY <1>1, <1>3, <2>1 DEF PublishExchange, PublisherGoto, IInv, HeapOwned
  <2>3. QED
    BY <1>0, <1>3, <2>1, <2>2 DEF PublishExchange, SR!Publish
<1>4. CASE PublishReclaim(p)
  <2>1. Retiring(p) /\ ppc[p] = "check" /\ pending[p] = {}
    BY <1>4 DEF PublishReclaim, PublisherGoto, Retiring
  <2>2. /\ old_snapshot[p] = rules_generation - 1 /\ old_snapshot[p] # Null
        /\ old_snapshot[p] \in Nat
    BY <2>1 DEF IInv, RulesInv, TypeOK, PublisherTypeOK
  <2>3. old_snapshot[p] \in heap /\ old_snapshot[p] # active_rules
    BY <1>1, <2>1, <2>2 DEF IInv, HeapOwned, Null
  <2>4. ASSUME NEW w \in Workers
        PROVE  Held[w] # old_snapshot[p]
    <3>1. CASE Reading(w)
      BY <1>1, <2>1, <2>2, <3>1 DEF Held, IInv, GraceInv
    <3>2. CASE ~Reading(w)
      BY <2>2, <3>2 DEF Held
    <3>3. QED
      BY <3>1, <3>2
  <2>5. SR!Reclaim(old_snapshot[p])
    BY <1>0, <1>4, <2>3, <2>4 DEF PublishReclaim, SR!Reclaim
  <2>6. QED
    BY <2>3, <2>5
<1>5. CASE UNCHANGED <<heap, active_rules>>
  BY <1>0, <1>5 DEF SR!abstract_vars
<1>6. QED
  BY <1>2, <1>3, <1>4, <1>5 DEF PublisherStep, PublishProgress, PublishCall, PublishEnters,
     PublishLock, PublishMark, PublishGuard, PublishBuildFails, PublishStart,
     PublishScan, PublishCheck, PublishClear, PublishUnlock, PublisherGoto

(* An owner step installs generation 1, withdraws or reclaims the last      *)
(* snapshot, or is invisible.                                               *)
LEMMA OwnerRefines ==
  ASSUME IInv, OwnerStep
  PROVE  \/ SR!Install \/ SR!Withdraw
         \/ \E s \in heap : SR!Reclaim(s)
         \/ UNCHANGED SR!abstract_vars
<1>0. Held' = Held
  <2>1. snapshot' = snapshot
    BY OwnerFrame DEF local_vars
  <2>2. wpc \in [Workers -> WorkerPC]
    BY DEF IInv, TypeOK, WorkerTypeOK
  <2>3. \A w \in Workers : Reading(w)' <=> Reading(w)
    <3>1. CASE RemoteLaunch
      BY <2>2, <3>1 DEF RemoteLaunch, OwnerGoto, IInv, OwnerInv, Reading, Workers
    <3>2. CASE MainWorker
      BY <2>2, <3>2 DEF MainWorker, OwnerGoto, IInv, OwnerInv, Reading, Workers
    <3>3. QED
      BY <3>1, <3>2 DEF OwnerStep, ConfigureRules, ConfigureRulesFails, Setup,
         RunBegin, RemoteLaunchFails, MainWorkerReturns, JoinWorker,
         RunReturns, Teardown, RulesLock, RulesExchange, RulesFree,
         RulesUnlock, Cleanup, OwnerEndUnchanged, worker_vars, Reading
  <2>4. QED
    BY <2>1, <2>3 DEF Held
<1>1. CASE ConfigureRules
  <2>1. active_rules = Null /\ rules_generation = 0
    BY <1>1 DEF ConfigureRules, OwnerGoto, IInv, RulesInv
  <2>2. \A p \in Publishers : ~Retiring(p) /\ ppc[p] # "exchange"
    BY <1>1 DEF ConfigureRules, OwnerGoto, IInv, RulesInv, Retiring
  <2>3. heap = {}
    BY <1>1, <2>1, <2>2 DEF ConfigureRules, OwnerGoto, IInv, HeapOwned, Null
  <2>4. QED
    BY <1>0, <1>1, <2>1, <2>3 DEF ConfigureRules, SR!Install, SR!Nothing, Null
<1>2. CASE RulesExchange
  BY <1>0, <1>2 DEF RulesExchange, SR!Withdraw, SR!Nothing, SR!abstract_vars, Null
<1>3. CASE RulesFree
  <2>1. opc = "rules_free" /\ active_rules = Null
    BY <1>3 DEF RulesFree, OwnerGoto, IInv, RulesInv
  <2>2. \A w \in Workers : Held[w] = Null
    BY <2>1 DEF IInv, OwnerInv, Gone, Reading, Held
  <2>3. CASE tsnapshot \in heap
    <3>1. tsnapshot # Null
      BY <2>3 DEF IInv, TypeOK, SharedTypeOK, Generations, Null
    <3>2. SR!Reclaim(tsnapshot)
      BY <1>0, <1>3, <2>1, <2>2, <3>1 DEF RulesFree, SR!Reclaim
    <3>3. QED
      BY <2>3, <3>2
  <2>4. CASE tsnapshot \notin heap
    BY <1>0, <1>3, <2>4 DEF RulesFree, SR!abstract_vars
  <2>5. QED
    BY <2>3, <2>4
<1>4. CASE UNCHANGED <<heap, active_rules>>
  BY <1>0, <1>4 DEF SR!abstract_vars
<1>5. QED
  BY <1>1, <1>2, <1>3, <1>4 DEF OwnerStep, ConfigureRulesFails, Setup, RunBegin,
     RemoteLaunch, RemoteLaunchFails, MainWorker, MainWorkerReturns,
     JoinWorker, RunReturns, Teardown, RulesLock, RulesUnlock, Cleanup,
     OwnerRunUnchanged

(* The publication protocol with its tokens, locks and control points       *)
(* implements the abstract reclamation protocol.                            *)
THEOREM Refinement == SafeSpec => ReclaimsSafely
<1>1. Init => SR!AInit
  BY DEF Init, SR!AInit, SR!Nothing, Held, Reading, Null
<1>2. IInv /\ [Next]_vars => [SR!ANext]_(SR!abstract_vars)
  <2> SUFFICES ASSUME IInv, [Next]_vars
               PROVE  SR!ANext \/ UNCHANGED SR!abstract_vars
    OBVIOUS
  <2>1. ASSUME NEW w \in Workers, WorkerStep(w)
        PROVE  SR!ANext \/ UNCHANGED SR!abstract_vars
    BY <2>1, WorkerRefines DEF SR!ANext
  <2>2. ASSUME NEW p \in Publishers, PublisherStep(p)
        PROVE  SR!ANext \/ UNCHANGED SR!abstract_vars
    BY <2>2, PublisherRefines DEF SR!ANext
  <2>3. CASE OwnerStep
    BY <2>3, OwnerRefines DEF SR!ANext
  <2>4. CASE RequestStop \/ UNCHANGED vars
    BY <2>4 DEF RequestStop, vars, SR!abstract_vars, Held, Reading,
       worker_vars, local_vars
  <2>5. QED
    BY <2>1, <2>2, <2>3, <2>4 DEF Next, PublisherStep
<1>3. QED
  BY <1>1, <1>2, Invariance, PTL DEF SafeSpec, ReclaimsSafely, SR!ASpec

-----------------------------------------------------------------------------
(* Run control: the counters and the results of the workers *)

LEMMA WorkersFinite == IsFiniteSet(Workers)
BY WorkerCountAssumption, ReaderCapacityAssumption, FS_Interval DEF Workers

(* One worker more or less in a set of workers *)
LEMMA CountWorker ==
  ASSUME NEW S \in SUBSET Workers, NEW w \in Workers
  PROVE  /\ Cardinality(S) \in Nat
         /\ w \notin S => Cardinality(S \cup {w}) = Cardinality(S) + 1
         /\ w \in S => Cardinality(S \ {w}) = Cardinality(S) - 1
<1>1. IsFiniteSet(S)
  BY WorkersFinite, FS_Subset
<1>2. QED
  BY <1>1, FS_CardinalityType, FS_AddElement, FS_RemoveElement

LEMMA NobodyCounted ==
  ASSUME \A w \in Workers : Gone(w)
  PROVE  Active = {} /\ Counted = {} /\ Cardinality(Active) = 0 /\ Cardinality(Counted) = 0
<1>1. Active = {} /\ Counted = {}
  BY DEF Active, Counted, Gone
<1>2. QED
  BY <1>1, FS_EmptySet

(* How a step of one worker changes the two sets *)
LEMMA WorkerSets ==
  ASSUME TypeOK, NEW w \in Workers, NEW to \in WorkerPC,
         wpc' = [wpc EXCEPT ![w] = to]
  PROVE  /\ Active' = IF to \in {"idle", "enter", "done"}
                      THEN Active \ {w} ELSE Active \cup {w}
         /\ Counted' = IF to \in {"loop", "load", "process", "quiescent_load",
                                  "quiescent_store", "offline", "unregister",
                                  "leave"}
                       THEN Counted \cup {w} ELSE Counted \ {w}
<1>1. wpc \in [Workers -> WorkerPC]
  BY DEF TypeOK, WorkerTypeOK
<1>2. \A v \in Workers : wpc'[v] = IF v = w THEN to ELSE wpc[v]
  BY <1>1
<1>3. QED
  BY <1>2 DEF Active, Counted

(* A worker counts itself in and out. *)
LEMMA WorkerStoppedInv ==
  ASSUME RunInv, NEW w \in Workers, WorkerStep(w)
  PROVE  StoppedInv'
<1>1. /\ UNCHANGED <<opc, oi, nlaunched, launched>>
      /\ wpc \in [Workers -> WorkerPC] /\ reader_registered \in [Workers -> BOOLEAN]
      /\ active_workers \in Int /\ registered_readers \in Int
  BY WorkerFrame DEF RunInv, IInv, owner_vars, TypeOK, WorkerTypeOK
<1>2. PICK to \in WorkerPC : wpc' = [wpc EXCEPT ![w] = to]
  BY WorkerFrame DEF RunInv, IInv
<1>3. /\ Active' = IF to \in {"idle", "enter", "done"}
                   THEN Active \ {w} ELSE Active \cup {w}
      /\ Counted' = IF to \in {"loop", "load", "process", "quiescent_load",
                               "quiescent_store", "offline", "unregister", "leave"}
                    THEN Counted \cup {w} ELSE Counted \ {w}
  BY <1>2, WorkerSets DEF RunInv, IInv
<1>4. /\ wpc'[w] = to
      /\ w \in Active <=> wpc[w] \notin {"idle", "enter", "done"}
      /\ w \in Counted <=> wpc[w] \in {"loop", "load", "process", "quiescent_load",
                                        "quiescent_store", "offline", "unregister",
                                        "leave"}
  BY <1>1, <1>2 DEF Active, Counted
<1>5. /\ Active \in SUBSET Workers /\ Counted \in SUBSET Workers
  BY DEF Active, Counted
<1>6. /\ Cardinality(Active) \in Nat /\ Cardinality(Counted) \in Nat
      /\ w \notin Active => Cardinality(Active \cup {w}) = Cardinality(Active) + 1
      /\ w \in Active => Cardinality(Active \ {w}) = Cardinality(Active) - 1
      /\ w \notin Counted => Cardinality(Counted \cup {w}) = Cardinality(Counted) + 1
      /\ w \in Counted => Cardinality(Counted \ {w}) = Cardinality(Counted) - 1
  BY <1>5, CountWorker
<1>7. /\ w \in Active => Active \cup {w} = Active
      /\ w \notin Active => Active \ {w} = Active
      /\ w \in Counted => Counted \cup {w} = Counted
      /\ w \notin Counted => Counted \ {w} = Counted
  OBVIOUS
<1>8. /\ active_workers' = Cardinality(Active')
      /\ registered_readers' = Cardinality(Counted')
  <2> USE <1>1, <1>3, <1>4, <1>6, <1>7 DEF RunInv, StoppedInv, WorkerGoto, count_vars
  <2>1. CASE WorkerEnter(w)
    BY <2>1 DEF WorkerEnter
  <2>2. CASE WorkerRegisterFails(w)
    BY <2>2 DEF WorkerRegisterFails
  <2>3. CASE WorkerFail(w)
    BY <2>3 DEF WorkerFail
  <2>4. CASE WorkerRegister(w)
    BY <2>4 DEF WorkerRegister
  <2>5. CASE WorkerOnlineLoad(w)
    BY <2>5 DEF WorkerOnlineLoad
  <2>6. CASE WorkerOnlineStore(w)
    BY <2>6 DEF WorkerOnlineStore
  <2>7. CASE WorkerCountReader(w)
    BY <2>7 DEF WorkerCountReader
  <2>8. CASE WorkerPoll(w)
    BY <2>8 DEF WorkerPoll
  <2>9. CASE WorkerLoad(w)
    BY <2>9 DEF WorkerLoad
  <2>10. CASE WorkerProcess(w)
    BY <2>10 DEF WorkerProcess
  <2>11. CASE WorkerQuiescentLoad(w)
    BY <2>11 DEF WorkerQuiescentLoad
  <2>12. CASE WorkerQuiescentStore(w)
    BY <2>12 DEF WorkerQuiescentStore
  <2>13. CASE WorkerStop(w)
    BY <2>13 DEF WorkerStop
  <2>14. CASE WorkerOffline(w)
    BY <2>14 DEF WorkerOffline
  <2>15. CASE WorkerUnregister(w)
    BY <2>15 DEF WorkerUnregister
  <2>16. CASE WorkerLeave(w)
    BY <2>16 DEF WorkerLeave
  <2>20. QED
    BY <2>1, <2>2, <2>3, <2>4, <2>5, <2>6, <2>7, <2>8, <2>9, <2>10, <2>11, <2>12, <2>13, <2>14, <2>15, <2>16 DEF WorkerStep
<1>9. \A v \in Workers : reader_registered'[v] <=> v \in Counted'
  <2> USE <1>1, <1>3, <1>4 DEF RunInv, StoppedInv, WorkerGoto, count_vars
  <2>1. CASE WorkerEnter(w)
    BY <2>1 DEF WorkerEnter
  <2>2. CASE WorkerRegisterFails(w)
    BY <2>2 DEF WorkerRegisterFails
  <2>3. CASE WorkerFail(w)
    BY <2>3 DEF WorkerFail
  <2>4. CASE WorkerRegister(w)
    BY <2>4 DEF WorkerRegister
  <2>5. CASE WorkerOnlineLoad(w)
    BY <2>5 DEF WorkerOnlineLoad
  <2>6. CASE WorkerOnlineStore(w)
    BY <2>6 DEF WorkerOnlineStore
  <2>7. CASE WorkerCountReader(w)
    BY <2>7 DEF WorkerCountReader
  <2>8. CASE WorkerPoll(w)
    BY <2>8 DEF WorkerPoll
  <2>9. CASE WorkerLoad(w)
    BY <2>9 DEF WorkerLoad
  <2>10. CASE WorkerProcess(w)
    BY <2>10 DEF WorkerProcess
  <2>11. CASE WorkerQuiescentLoad(w)
    BY <2>11 DEF WorkerQuiescentLoad
  <2>12. CASE WorkerQuiescentStore(w)
    BY <2>12 DEF WorkerQuiescentStore
  <2>13. CASE WorkerStop(w)
    BY <2>13 DEF WorkerStop
  <2>14. CASE WorkerOffline(w)
    BY <2>14 DEF WorkerOffline
  <2>15. CASE WorkerUnregister(w)
    BY <2>15 DEF WorkerUnregister
  <2>16. CASE WorkerLeave(w)
    BY <2>16 DEF WorkerLeave
  <2>20. QED
    BY <2>1, <2>2, <2>3, <2>4, <2>5, <2>6, <2>7, <2>8, <2>9, <2>10, <2>11, <2>12, <2>13, <2>14, <2>15, <2>16 DEF WorkerStep
<1>10. QED
  BY <1>1, <1>8, <1>9 DEF RunInv, StoppedInv

(* The owner launches and joins workers, counting none; after the last join *)
(* nobody is left.                                                          *)
LEMMA OwnerStoppedInv ==
  ASSUME RunInv, OwnerStep
  PROVE  StoppedInv'
<1> USE DEF RunInv, IInv, TypeOK, LifecycleTypeOK, WorkerTypeOK, StoppedInv, OwnerGoto,
            OwnerRunUnchanged, OwnerEndUnchanged, OwnerInv, Workers, worker_vars,
            count_vars, local_vars
<1>1. Active' = Active /\ Counted' = Counted
  <2>1. CASE ConfigureRules
    BY <2>1, WorkerCountAssumption DEF ConfigureRules, Active, Counted
  <2>2. CASE ConfigureRulesFails
    BY <2>2, WorkerCountAssumption DEF ConfigureRulesFails, Active, Counted
  <2>3. CASE Setup
    BY <2>3, WorkerCountAssumption DEF Setup, Active, Counted
  <2>4. CASE RunBegin
    BY <2>4, WorkerCountAssumption DEF RunBegin, Active, Counted
  <2>5. CASE RemoteLaunch
    BY <2>5, WorkerCountAssumption DEF RemoteLaunch, Active, Counted
  <2>6. CASE RemoteLaunchFails
    BY <2>6, WorkerCountAssumption DEF RemoteLaunchFails, Active, Counted
  <2>7. CASE MainWorker
    BY <2>7, WorkerCountAssumption DEF MainWorker, Active, Counted
  <2>8. CASE MainWorkerReturns
    BY <2>8, WorkerCountAssumption DEF MainWorkerReturns, Active, Counted
  <2>9. CASE JoinWorker
    BY <2>9, WorkerCountAssumption DEF JoinWorker, Active, Counted
  <2>10. CASE RunReturns
    BY <2>10, WorkerCountAssumption DEF RunReturns, Active, Counted
  <2>11. CASE Teardown
    BY <2>11, WorkerCountAssumption DEF Teardown, Active, Counted
  <2>12. CASE RulesLock
    BY <2>12, WorkerCountAssumption DEF RulesLock, Active, Counted
  <2>13. CASE RulesExchange
    BY <2>13, WorkerCountAssumption DEF RulesExchange, Active, Counted
  <2>14. CASE RulesFree
    BY <2>14, WorkerCountAssumption DEF RulesFree, Active, Counted
  <2>15. CASE RulesUnlock
    BY <2>15, WorkerCountAssumption DEF RulesUnlock, Active, Counted
  <2>16. CASE Cleanup
    BY <2>16, WorkerCountAssumption DEF Cleanup, Active, Counted
  <2>20. QED
    BY <2>1, <2>2, <2>3, <2>4, <2>5, <2>6, <2>7, <2>8, <2>9, <2>10, <2>11, <2>12, <2>13, <2>14, <2>15, <2>16 DEF OwnerStep
<1>2. CASE ConfigureRules
  BY <1>1, <1>2 DEF ConfigureRules
<1>3. CASE ConfigureRulesFails
  BY <1>1, <1>3 DEF ConfigureRulesFails
<1>4. CASE Setup
  BY <1>1, <1>4 DEF Setup
<1>5. CASE RunBegin
  BY <1>1, <1>5 DEF RunBegin
<1>6. CASE RemoteLaunch
  BY <1>1, <1>6 DEF RemoteLaunch
<1>7. CASE RemoteLaunchFails
  BY <1>1, <1>7 DEF RemoteLaunchFails
<1>8. CASE MainWorker
  BY <1>1, <1>8 DEF MainWorker
<1>9. CASE MainWorkerReturns
  BY <1>1, <1>9 DEF MainWorkerReturns
<1>10. CASE JoinWorker
  BY <1>1, <1>10 DEF JoinWorker
<1>11. CASE RunReturns
  BY <1>1, <1>11 DEF RunReturns
<1>12. CASE Teardown
  <2>1. \A w \in Workers : Gone(w)
    BY <1>12 DEF Teardown
  <2>2. WorkersStopped /\ ~ running
    BY <1>12, <2>1, NobodyCounted DEF Teardown, WorkersStopped
  <2>3. QED
    BY <1>1, <1>12, <2>2 DEF Teardown
<1>13. CASE RulesLock
  BY <1>1, <1>13 DEF RulesLock
<1>14. CASE RulesExchange
  BY <1>1, <1>14 DEF RulesExchange
<1>15. CASE RulesFree
  BY <1>1, <1>15 DEF RulesFree
<1>16. CASE RulesUnlock
  BY <1>1, <1>16 DEF RulesUnlock
<1>17. CASE Cleanup
  BY <1>1, <1>17 DEF Cleanup
<1>20. QED
  BY <1>2, <1>3, <1>4, <1>5, <1>6, <1>7, <1>8, <1>9, <1>10, <1>11, <1>12, <1>13, <1>14, <1>15, <1>16, <1>17 DEF OwnerStep

(* A failing worker records its error before it returns. *)
LEMMA WorkerResultInv ==
  ASSUME RunInv, NEW w \in Workers, WorkerStep(w)
  PROVE  ResultInv'
<1>1. /\ UNCHANGED <<opc, oi, nlaunched, first_error, ran, running>> /\ ~ Gone(w)
      /\ result \in [Workers -> Int] /\ wpc \in [Workers -> WorkerPC]
  BY WorkerFrame DEF RunInv, IInv, owner_vars, lifecycle_vars, TypeOK, WorkerTypeOK
<1>2. opc = "launch" \/ opc = "main" \/ (opc = "join" /\ ~ (w < oi) /\ ~ (w > nlaunched))
  BY <1>1 DEF RunInv, IInv, OwnerInv
<1>3. ResultInv
  BY DEF RunInv
<1> USE <1>1, <1>2, <1>3 DEF ResultInv, Launched, LaunchFailed, WorkerGoto, count_vars
<1>4. CASE WorkerEnter(w)
  BY <1>4 DEF WorkerEnter
<1>5. CASE WorkerRegisterFails(w)
  BY <1>5 DEF WorkerRegisterFails
<1>6. CASE WorkerFail(w)
  BY <1>6 DEF WorkerFail
<1>7. CASE WorkerRegister(w)
  BY <1>7 DEF WorkerRegister
<1>8. CASE WorkerOnlineLoad(w)
  BY <1>8 DEF WorkerOnlineLoad
<1>9. CASE WorkerOnlineStore(w)
  BY <1>9 DEF WorkerOnlineStore
<1>10. CASE WorkerCountReader(w)
  BY <1>10 DEF WorkerCountReader
<1>11. CASE WorkerPoll(w)
  BY <1>11 DEF WorkerPoll
<1>12. CASE WorkerLoad(w)
  BY <1>12 DEF WorkerLoad
<1>13. CASE WorkerProcess(w)
  BY <1>13 DEF WorkerProcess
<1>14. CASE WorkerQuiescentLoad(w)
  BY <1>14 DEF WorkerQuiescentLoad
<1>15. CASE WorkerQuiescentStore(w)
  BY <1>15 DEF WorkerQuiescentStore
<1>16. CASE WorkerStop(w)
  BY <1>16 DEF WorkerStop
<1>17. CASE WorkerOffline(w)
  BY <1>17 DEF WorkerOffline
<1>18. CASE WorkerUnregister(w)
  BY <1>18 DEF WorkerUnregister
<1>19. CASE WorkerLeave(w)
  BY <1>19 DEF WorkerLeave
<1>30. QED
  BY <1>4, <1>5, <1>6, <1>7, <1>8, <1>9, <1>10, <1>11, <1>12, <1>13, <1>14, <1>15, <1>16, <1>17, <1>18, <1>19 DEF WorkerStep

(* dp_dataplane_run keeps an error of any worker it has collected. *)
LEMMA OwnerResultInv ==
  ASSUME RunInv, OwnerStep
  PROVE  ResultInv'
<1> USE DEF RunInv, IInv, TypeOK, LifecycleTypeOK, WorkerTypeOK, ResultInv, Launched,
            LaunchFailed, OwnerGoto,
            OwnerRunUnchanged, OwnerEndUnchanged, OwnerInv, Workers, worker_vars,
            count_vars, local_vars
<1>1. CASE ConfigureRules
  BY <1>1 DEF ConfigureRules
<1>2. CASE ConfigureRulesFails
  <2>1. /\ UNCHANGED <<ran, running, nlaunched, first_error, result, wpc>>
        /\ opc = "configure" /\ opc' = "teardown"
    BY <1>2 DEF ConfigureRulesFails, lifecycle_vars
  <2>2. QED
    BY <2>1
<1>3. CASE Setup
  BY <1>3 DEF Setup
<1>4. CASE RunBegin
  BY <1>4 DEF RunBegin
<1>5. CASE RemoteLaunch
  BY <1>5 DEF RemoteLaunch
<1>6. CASE RemoteLaunchFails
  <2>1. /\ opc = "launch" /\ opc' = "join" /\ first_error' = -1 /\ oi < WorkerCount
        /\ UNCHANGED <<ran, running, nlaunched, result, wpc>>
    BY <1>6 DEF RemoteLaunchFails
  <2>2. ran /\ LaunchFailed
    BY <2>1, WorkerCountAssumption
  <2>3. QED
    BY <2>1, <2>2
<1>7. CASE MainWorker
  BY <1>7 DEF MainWorker
<1>8. CASE MainWorkerReturns
  BY <1>8 DEF MainWorkerReturns
<1>9. CASE JoinWorker
  <2>1. /\ opc = "join" /\ opc' = "join" /\ oi' = oi + 1 /\ oi <= nlaunched
        /\ first_error' = IF result[oi] < 0 /\ first_error = 0 THEN result[oi] ELSE first_error
        /\ UNCHANGED <<ran, running, nlaunched, result, wpc>>
    BY <1>9 DEF JoinWorker
  <2>2. oi \in Workers /\ running /\ ran
    BY <2>1, WorkerCountAssumption
  <2>3. /\ first_error' <= 0 /\ first_error < 0 => first_error' < 0
        /\ result[oi] < 0 => first_error' < 0
        /\ first_error' < 0 => first_error < 0 \/ result[oi] < 0
    BY <2>1, <2>2
  <2>4. ASSUME NEW w \in Workers, result[w] # 0, w < oi' \/ w > nlaunched'
        PROVE  first_error' < 0
    <3>1. CASE w = oi
      BY <2>2, <2>3, <2>4, <3>1
    <3>2. CASE w # oi
      <4>1. w < oi \/ w > nlaunched
        BY <2>1, <2>2, <2>4, <3>2
      <4>2. QED
        BY <2>1, <2>3, <2>4, <4>1
    <3>3. QED
      BY <3>1, <3>2
  <2>5. QED
    BY <2>1, <2>2, <2>3, <2>4
<1>10. CASE RunReturns
  BY <1>10 DEF RunReturns
<1>11. CASE Teardown
  BY <1>11 DEF Teardown
<1>12. CASE RulesLock
  BY <1>12 DEF RulesLock
<1>13. CASE RulesExchange
  BY <1>13 DEF RulesExchange
<1>14. CASE RulesFree
  BY <1>14 DEF RulesFree
<1>15. CASE RulesUnlock
  BY <1>15 DEF RulesUnlock
<1>16. CASE Cleanup
  BY <1>16 DEF Cleanup
<1>20. QED
  BY <1>1, <1>2, <1>3, <1>4, <1>5, <1>6, <1>7, <1>8, <1>9, <1>10, <1>11, <1>12, <1>13, <1>14, <1>15, <1>16 DEF OwnerStep

LEMMA InitRunInv == Init => RunInv
<1> SUFFICES ASSUME Init PROVE RunInv
  OBVIOUS
<1>1. IInv
  BY InitIInv
<1>2. \A w \in Workers : Gone(w)
  BY DEF Init, Gone
<1>3. StoppedInv
  BY <1>2, NobodyCounted DEF Init, StoppedInv
<1>4. ResultInv
  BY DEF Init, ResultInv, Launched
<1>5. QED
  BY <1>1, <1>3, <1>4 DEF RunInv

LEMMA NextRunInv == RunInv /\ [Next]_vars => RunInv'
<1> SUFFICES ASSUME RunInv, [Next]_vars PROVE RunInv'
  OBVIOUS
<1>1. IInv'
  BY NextIInv DEF RunInv
<1>2. ASSUME NEW w \in Workers, WorkerStep(w)
      PROVE  StoppedInv' /\ ResultInv'
  BY <1>2, WorkerStoppedInv, WorkerResultInv
<1>3. CASE OwnerStep
  BY <1>1, <1>3, OwnerStoppedInv, OwnerResultInv DEF RunInv
<1>4. ASSUME UNCHANGED <<worker_vars, owner_vars, ran, running>>
      PROVE  StoppedInv' /\ ResultInv'
  <2>1. Active' = Active /\ Counted' = Counted
    BY <1>4 DEF Active, Counted, worker_vars
  <2>2. QED
    BY <1>4, <2>1 DEF RunInv, StoppedInv, ResultInv, Launched, LaunchFailed, worker_vars,
       owner_vars, count_vars
<1>5. ASSUME NEW p \in Publishers, PublisherStep(p)
      PROVE  UNCHANGED <<worker_vars, owner_vars, ran, running>>
  BY <1>5, PublisherFrame DEF RunInv, IInv, lifecycle_vars
<1>6. CASE RequestStop \/ UNCHANGED vars
  BY <1>1, <1>4, <1>6 DEF RequestStop, vars, lifecycle_vars, RunInv
<1>7. QED
  BY <1>1, <1>2, <1>3, <1>4, <1>5, <1>6 DEF Next, PublisherStep, RunInv

(* The invariant of the run control holds in every reachable state. *)
THEOREM RunInvariance == SafeSpec => []RunInv
BY InitRunInv, NextRunInv, PTL DEF SafeSpec

(* dp_dataplane_teardown finds every worker stopped, whichever launch or    *)
(* worker has failed: it never refuses and never leaks the rules.           *)
THEOREM TeardownAccepted == SafeSpec => []TeardownNeverBusy
<1>1. RunInv => TeardownNeverBusy
  BY DEF RunInv, StoppedInv, TeardownNeverBusy
<1>2. QED
  BY <1>1, RunInvariance, PTL

(* dp_dataplane_run returns an error exactly when a launch or a worker has  *)
(* failed.                                                                  *)
THEOREM FailuresReported == SafeSpec => []FailureReported
<1>1. RunInv => FailureReported
  BY DEF RunInv, IInv, TypeOK, WorkerTypeOK, OwnerInv, ResultInv, Launched,
     FailureReported
<1>2. QED
  BY <1>1, RunInvariance, PTL

=============================================================================
