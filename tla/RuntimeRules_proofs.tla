------------------------- MODULE RuntimeRules_proofs -------------------------
(***************************************************************************)
(* Proofs about RuntimeRules, for any number of workers, goroutines and    *)
(* calls: the Go runtime uses the native data plane only in the ways that  *)
(* RulePublication allows, so the theorems on RulePublication hold of the  *)
(* composed system, and rulesMu with rulesOpen keeps every publication     *)
(* inside the span in which the rules exist.                               *)
(***************************************************************************)
EXTENDS RuntimeRules, RulePublication_proofs

USE DEF RefusedTo, GenerationAfter, NoPublisher, RulesGeneration, AfterExchange,
        NextGeneration, dp_snapshot_free

-----------------------------------------------------------------------------
(* Steps of the runtime as steps of the native data plane *)

(* A step of the runtime is a native step or leaves the data plane alone:   *)
(* rulesOpen keeps a publication away from dp_configure_rules and           *)
(* dp_dataplane_setup.                                                      *)
LEMMA RuntimeStep == RuntimeInv /\ [RNext]_rvars => [Next]_vars
<1> SUFFICES ASSUME RuntimeInv, RNext PROVE [Next]_vars
  BY DEF rvars
<1>1. ASSUME NEW p \in Publishers, Call(p) \/ CallerStep(p)
      PROVE  [Next]_vars
  <2>1. CASE Publish(p)
    <3>1. gpc \in {"opened", "run"}
      BY <2>1 DEF Publish, RuntimeInv, PhaseInv
    <3>2. PublishCall(p)
      BY <2>1, <3>1 DEF Publish, PublishCall, RuntimeInv, PhaseInv
    <3>3. QED
      BY <3>2 DEF Next
  <2>2. CASE Native(p)
    BY <2>2 DEF Native, Next
  <2>3. CASE Call(p) \/ Lock(p) \/ Refuse(p) \/ PublishEnds(p) \/ Unlock(p)
    BY <2>3 DEF Call, Lock, Refuse, PublishEnds, Unlock
  <2>4. QED
    BY <1>1, <2>1, <2>2, <2>3 DEF CallerStep
<1>2. CASE GoOwner
  BY <1>2 DEF GoOwner, OwnerNative, OpenRules, CloseReady, CloseRules, CloseDone, Next
<1>3. CASE Stop
  BY <1>3 DEF Stop, Next
<1>4. ASSUME NEW w \in Workers, WorkerSteps(w)
      PROVE  [Next]_vars
  BY <1>4 DEF WorkerSteps, Next
<1>5. QED
  BY <1>1, <1>2, <1>3, <1>4 DEF RNext

-----------------------------------------------------------------------------
(* What the native steps do to the state the runtime relies on *)

(* dp_publish_rules, from its entry to its return, seen by the runtime *)
LEMMA NativePublish ==
  ASSUME IInv, NEW p \in Publishers, PublisherStep(p)
  PROVE  /\ UNCHANGED <<opc, rules_configured>>
         /\ \A q \in Publishers : q # p => ppc'[q] = ppc[q]
         /\ \/ rules_generation' = rules_generation
            \/ ppc[p] = "exchange" /\ ppc'[p] = "start"
         /\ Retiring(p) => Retiring(p)' \/ PublishReclaim(p)
         /\ ppc[p] \in {"out", "unlock", "idle"} =>
              \/ PublishCall(p)
              \/ ppc'[p] \in {"out", "unlock", "idle"} /\ ~ PublishReclaim(p)
         /\ ppc[p] \notin {"out", "unlock", "idle"} => ~ PublishCall(p)
<1> USE DEF IInv, TypeOK, PublisherTypeOK, PublisherPC, PublisherGoto, Retiring,
            stat_vars, lifecycle_vars, owner_vars
<1>1. CASE PublishCall(p)
  BY <1>1 DEF PublishCall, PublishEnters
<1>2. CASE PublishLock(p)
  BY <1>2 DEF PublishLock, PublishCall, PublishEnters
<1>3. CASE PublishMark(p)
  BY <1>3 DEF PublishMark, PublishCall, PublishEnters
<1>4. CASE PublishGuard(p)
  BY <1>4 DEF PublishGuard, PublishCall, PublishEnters
<1>5. CASE PublishBuild(p)
  BY <1>5 DEF PublishBuild, PublishCall, PublishEnters
<1>6. CASE PublishBuildFails(p)
  BY <1>6 DEF PublishBuildFails, PublishCall, PublishEnters
<1>7. CASE PublishExchange(p)
  BY <1>7 DEF PublishExchange, PublishCall, PublishEnters
<1>8. CASE PublishStart(p)
  BY <1>8 DEF PublishStart, PublishCall, PublishEnters
<1>9. CASE PublishScan(p)
  BY <1>9 DEF PublishScan, PublishCall, PublishEnters
<1>10. CASE PublishCheck(p)
  BY <1>10 DEF PublishCheck, PublishCall, PublishEnters
<1>11. CASE PublishReclaim(p)
  BY <1>11 DEF PublishReclaim, PublishCall, PublishEnters
<1>12. CASE PublishClear(p)
  BY <1>12 DEF PublishClear, PublishCall, PublishEnters, PublishReclaim
<1>13. CASE PublishUnlock(p)
  BY <1>13 DEF PublishUnlock, PublishCall, PublishEnters, PublishReclaim
<1>20. QED
  BY <1>1, <1>2, <1>3, <1>4, <1>5, <1>6, <1>7, <1>8, <1>9, <1>10, <1>11, <1>12,
     <1>13
  DEF PublisherStep, PublishProgress

(* The owner's native calls, from dp_configure_rules to dp_dataplane_run,   *)
(* keep the rules and lead to the next call of Runtime.owner or to the      *)
(* teardown.                                                                *)
LEMMA NativeOwner ==
  ASSUME OwnerStep
  PROVE  /\ opc \in {"configure", "setup"} => opc' \in {"setup", "run", "teardown"}
         /\ opc' = "setup" => rules_generation' = 1
         /\ opc \in {"setup", "run", "launch", "main", "join"} =>
              UNCHANGED <<rules_generation, rules_configured>>
         /\ opc \in {"run", "launch", "main", "join"} =>
              opc' \in {"launch", "main", "join", "teardown"}
         /\ opc \notin {"configure", "setup", "run", "launch", "main", "join"} =>
              opc' \in OwnerPC \ {"configure", "setup", "run", "launch", "main", "join"}
         /\ opc \in {"configure", "setup"} => opc' # "run" \/ opc = "setup"
<1> USE DEF OwnerGoto, OwnerRunUnchanged, OwnerEndUnchanged, lifecycle_vars, stat_vars,
            OwnerPC
<1>1. CASE ConfigureRules
  BY <1>1 DEF ConfigureRules
<1>2. CASE ConfigureRulesFails
  BY <1>2 DEF ConfigureRulesFails
<1>3. CASE Setup
  BY <1>3 DEF Setup
<1>4. CASE RunBegin
  BY <1>4 DEF RunBegin
<1>5. CASE RemoteLaunch
  BY <1>5 DEF RemoteLaunch
<1>6. CASE RemoteLaunchFails
  BY <1>6 DEF RemoteLaunchFails
<1>7. CASE MainWorker
  BY <1>7 DEF MainWorker
<1>8. CASE MainWorkerReturns
  BY <1>8 DEF MainWorkerReturns
<1>9. CASE JoinWorker
  BY <1>9 DEF JoinWorker
<1>10. CASE RunReturns
  BY <1>10 DEF RunReturns
<1>11. CASE Teardown
  BY <1>11 DEF Teardown
<1>12. CASE RulesLock
  BY <1>12 DEF RulesLock
<1>13. CASE RulesExchange
  BY <1>13 DEF RulesExchange
<1>14. CASE RulesFree
  BY <1>14 DEF RulesFree
<1>15. CASE RulesUnlock
  BY <1>15 DEF RulesUnlock
<1>16. CASE Cleanup
  BY <1>16 DEF Cleanup
<1>20. QED
  BY <1>1, <1>2, <1>3, <1>4, <1>5, <1>6, <1>7, <1>8, <1>9, <1>10, <1>11, <1>12,
     <1>13, <1>14, <1>15, <1>16
  DEF OwnerStep

(* The points of the native owner at which each phase leaves it *)
LEMMA PhaseCalls ==
  /\ NativeCalls("start") = {"configure", "setup"}
  /\ NativeCalls("run") = {"run", "launch", "main", "join"}
  /\ NativeCalls("finish") = OwnerPC \ {"configure", "setup", "run", "launch", "main", "join"}
  /\ NativeCalls("opened") = {} /\ NativeCalls("done") = {}
BY DEF NativeCalls

-----------------------------------------------------------------------------
(* RuntimeInv is inductive. *)

(* Steps of a goroutine outside the native call *)
LEMMA CallerKeeps ==
  ASSUME RuntimeInv, NEW p \in Publishers,
         Call(p) \/ Lock(p) \/ Refuse(p) \/ PublishEnds(p) \/ Unlock(p)
  PROVE  RuntimeTypeOK' /\ MutexInv' /\ PhaseInv' /\ GenerationInv'
<1>1. UNCHANGED <<opc, ppc, rules_configured, rules_generation, gpc, rulesOpen>>
  BY DEF Call, Lock, Refuse, PublishEnds, Unlock, vars, owner_vars, publisher_vars,
     lifecycle_vars, stat_vars
<1>2. rules_generation \in Nat /\ IInv /\ RuntimeTypeOK /\ MutexInv /\ PhaseInv
      /\ GenerationInv
  BY DEF RuntimeInv, IInv, TypeOK, SharedTypeOK
<1>3. RuntimeTypeOK'
  BY <1>1, <1>2 DEF RuntimeTypeOK, Call, Lock, Refuse, PublishEnds, Unlock, CallerGoto
<1>4. MutexInv'
  <2> USE <1>1, <1>2, PublishersAssumption DEF MutexInv, RuntimeTypeOK, CallerGoto, Owner, Free
  <2>1. CASE Call(p)
    BY <2>1 DEF Call
  <2>2. CASE Lock(p)
    BY <2>2 DEF Lock
  <2>3. CASE Refuse(p)
    BY <2>3 DEF Refuse
  <2>4. CASE PublishEnds(p)
    BY <2>4 DEF PublishEnds
  <2>5. CASE Unlock(p)
    BY <2>5 DEF Unlock
  <2>6. QED
    BY <2>1, <2>2, <2>3, <2>4, <2>5
<1>5. PhaseInv'
  BY <1>1, <1>2 DEF PhaseInv, NativeCalls
<1>6. GenerationInv'
  <2> USE <1>1, <1>2 DEF GenerationInv, RuntimeTypeOK, CallerGoto, Retiring
  <2>1. CASE Call(p)
    BY <2>1 DEF Call
  <2>2. CASE Lock(p)
    BY <2>2 DEF Lock
  <2>3. CASE Refuse(p)
    BY <2>3 DEF Refuse
  <2>4. CASE PublishEnds(p)
    <3>1. \A q \in Publishers : cpc[q] = "native" => q = p
      BY <2>4 DEF PublishEnds, MutexInv
    <3>2. ~ Retiring(p)
      BY <2>4 DEF PublishEnds
    <3>3. rulesOpen => generation' = rules_generation
      <4>1. rulesOpen => rules_generation # 0
        BY DEF PhaseInv, IInv, RulesInv
      <4>2. QED
        BY <2>4, <3>1, <3>2, <4>1 DEF PublishEnds
    <3>4. QED
      BY <2>4, <3>1, <3>3 DEF PublishEnds
  <2>5. CASE Unlock(p)
    BY <2>5 DEF Unlock
  <2>6. QED
    BY <2>1, <2>2, <2>3, <2>4, <2>5
<1>7. QED
  BY <1>3, <1>4, <1>5, <1>6

(* The call of dp_publish_rules *)
LEMMA PublishKeeps ==
  ASSUME RuntimeInv, NEW p \in Publishers, Publish(p)
  PROVE  RuntimeTypeOK' /\ MutexInv' /\ PhaseInv' /\ GenerationInv'
<1>1. IInv /\ RuntimeTypeOK /\ MutexInv /\ PhaseInv /\ GenerationInv
  BY DEF RuntimeInv
<1>2. /\ UNCHANGED <<opc, rules_configured, rules_generation, gpc, rulesOpen, rulesMu, generation>>
      /\ rulesOpen /\ cpc[p] = "locked" /\ cpc' = [cpc EXCEPT ![p] = "native"]
      /\ ppc[p] = "idle" /\ ppc' = [ppc EXCEPT ![p] = "lock"]
      /\ ret' = [ret EXCEPT ![p] = 0]
  BY DEF Publish, PublishCall, PublishEnters, PublisherGoto, CallerGoto, lifecycle_vars, owner_vars, stat_vars
<1>3. ppc \in [Publishers -> PublisherPC]
  BY <1>1 DEF IInv, TypeOK, PublisherTypeOK
<1>4. RuntimeTypeOK'
  BY <1>1, <1>2 DEF RuntimeTypeOK
<1>5. MutexInv'
  BY <1>1, <1>2, <1>3 DEF MutexInv, RuntimeTypeOK
<1>6. PhaseInv'
  BY <1>1, <1>2 DEF PhaseInv, NativeCalls
<1>7. GenerationInv'
  <2>1. \A q \in Publishers : cpc[q] # "native"
    BY <1>1, <1>2 DEF MutexInv
  <2>2. generation = rules_generation
    BY <1>1, <1>2, <2>1 DEF GenerationInv
  <2>3. QED
    BY <1>1, <1>2, <1>3, <2>1, <2>2 DEF GenerationInv, RuntimeTypeOK
<1>8. QED
  BY <1>4, <1>5, <1>6, <1>7

(* A step inside dp_publish_rules *)
LEMMA NativeKeeps ==
  ASSUME RuntimeInv, NEW p \in Publishers, Native(p)
  PROVE  RuntimeTypeOK' /\ MutexInv' /\ PhaseInv' /\ GenerationInv'
<1>1. IInv /\ RuntimeTypeOK /\ MutexInv /\ PhaseInv /\ GenerationInv
  BY DEF RuntimeInv
<1>2. PublisherStep(p) /\ PublishProgress(p) /\ cpc[p] = "native"
      /\ UNCHANGED <<gpc, cpc, rulesMu, rulesOpen, generation>>
      /\ ret' = [ret EXCEPT ![p] = IF PublishReclaim(p) THEN new_snapshot[p] ELSE @]
  BY DEF Native, PublisherStep
<1>3. rules_generation \in Nat /\ new_snapshot \in [Publishers -> Nat]
      /\ ppc \in [Publishers -> PublisherPC] /\ ret \in [Publishers -> Nat]
  BY <1>1 DEF IInv, TypeOK, SharedTypeOK, PublisherTypeOK, RuntimeTypeOK
<1>4. /\ UNCHANGED <<opc, rules_configured>>
      /\ \A q \in Publishers : q # p => ppc'[q] = ppc[q]
  BY <1>1, <1>2, NativePublish
<1>5. \A q \in Publishers : cpc[q] = "native" => q = p
  BY <1>1, <1>2 DEF MutexInv
<1>6. rulesOpen /\ gpc \in {"opened", "run"}
  BY <1>1, <1>2 DEF MutexInv, PhaseInv
<1>7. RuntimeTypeOK'
  BY <1>1, <1>2, <1>3 DEF RuntimeTypeOK
<1>8. MutexInv'
  BY <1>1, <1>2, <1>4, <1>5 DEF MutexInv
<1>9. PhaseInv'
  BY <1>1, <1>2, <1>4, <1>6 DEF PhaseInv, NativeCalls
<1>10. GenerationInv'
  <2>1. CASE PublishReclaim(p)
    <3>1. Retiring(p) /\ ppc'[p] = "out" /\ UNCHANGED <<rules_generation, new_snapshot>>
      BY <1>3, <2>1 DEF PublishReclaim, PublisherGoto, Retiring
    <3>2. new_snapshot[p] = rules_generation
      BY <1>1, <3>1 DEF IInv, RulesInv
    <3>3. ret'[p] = rules_generation'
      BY <1>2, <1>3, <2>1, <3>1, <3>2
    <3>4. QED
      BY <1>2, <1>5, <3>1, <3>3 DEF GenerationInv
  <2>2. CASE ~ PublishReclaim(p)
    <3>1. ret' = ret
      BY <1>2, <1>3, <2>2
    <3>2. CASE ppc[p] \in {"out", "unlock", "idle"}
      <4>1. ~ PublishCall(p)
        BY <1>2, <1>3 DEF PublishProgress, PublishCall, PublishEnters, PublishLock, PublishMark, PublishGuard,
           PublishBuild, PublishBuildFails, PublishExchange, PublishStart, PublishScan,
           PublishCheck, PublishReclaim, PublishClear, PublishUnlock, PublisherGoto
      <4>2. ppc'[p] \in {"out", "unlock", "idle"} /\ rules_generation' = rules_generation
        BY <1>1, <1>2, <3>2, <4>1, NativePublish
      <4>3. QED
        BY <1>1, <1>2, <1>5, <3>1, <3>2, <4>2 DEF GenerationInv, Retiring
    <3>3. CASE ppc[p] \notin {"out", "unlock", "idle"}
      <4>1. ret[p] = 0
        BY <1>1, <1>2, <3>3 DEF GenerationInv
      <4>2. Retiring(p) => Retiring(p)'
        BY <1>1, <1>2, <2>2, NativePublish
      <4>3. rules_generation' # rules_generation => Retiring(p)'
        BY <1>1, <1>2, NativePublish DEF Retiring
      <4>4. rulesOpen /\ generation # rules_generation => Retiring(p)
        BY <1>1, <1>5, <3>3 DEF GenerationInv
      <4>5. QED
        BY <1>2, <1>5, <3>1, <4>1, <4>2, <4>3, <4>4 DEF GenerationInv
    <3>4. QED
      BY <3>2, <3>3
  <2>3. QED
    BY <2>1, <2>2
<1>11. QED
  BY <1>7, <1>8, <1>9, <1>10

(* A step of Runtime.owner *)
LEMMA OwnerKeeps ==
  ASSUME RuntimeInv, GoOwner
  PROVE  RuntimeTypeOK' /\ MutexInv' /\ PhaseInv' /\ GenerationInv'
<1>1. IInv /\ RuntimeTypeOK /\ MutexInv /\ PhaseInv /\ GenerationInv
  BY DEF RuntimeInv
<1>2. opc \in OwnerPC /\ rules_generation \in Nat
  BY <1>1 DEF IInv, TypeOK, LifecycleTypeOK, SharedTypeOK
<1>3. CASE OwnerNative
  <2>1. UNCHANGED <<go_vars, ppc>> /\ OwnerStep /\ opc \in NativeCalls(gpc)
    BY <1>3, OwnerFrame DEF OwnerNative, publisher_vars
  <2>2. RuntimeTypeOK' /\ MutexInv'
    BY <1>1, <2>1 DEF RuntimeTypeOK, MutexInv, go_vars
  <2>3. PhaseInv'
    <3>1. gpc \in {"start", "run", "finish"}
      BY <1>1, <2>1, PhaseCalls DEF RuntimeTypeOK
    <3>2. CASE gpc = "start"
      BY <1>1, <2>1, <3>2, PhaseCalls, NativeOwner DEF PhaseInv, go_vars
    <3>3. CASE gpc = "run"
      BY <1>1, <2>1, <3>3, PhaseCalls, NativeOwner DEF PhaseInv, go_vars
    <3>4. CASE gpc = "finish"
      BY <1>1, <2>1, <3>4, PhaseCalls, NativeOwner DEF PhaseInv, go_vars
    <3>5. QED
      BY <3>1, <3>2, <3>3, <3>4
  <2>4. GenerationInv'
    <3>1. rulesOpen => rules_generation' = rules_generation
      BY <1>1, <2>1, PhaseCalls, NativeOwner DEF PhaseInv
    <3>2. \A p \in Publishers : cpc[p] = "native" => rulesOpen
      BY <1>1 DEF MutexInv
    <3>3. QED
      BY <1>1, <2>1, <3>1, <3>2 DEF GenerationInv, Retiring, go_vars
  <2>5. QED
    BY <2>2, <2>3, <2>4
<1>4. ASSUME UNCHANGED vars
      PROVE  UNCHANGED <<opc, ppc, rules_configured, rules_generation>>
  BY <1>4 DEF vars, owner_vars, publisher_vars, lifecycle_vars, stat_vars
<1> USE PublishersAssumption, PhaseCalls DEF RuntimeTypeOK, MutexInv, PhaseInv, Owner, Free
<1>5. CASE OpenRules
  <2>1. \A p \in Publishers : cpc[p] # "native"
    BY <1>1, <1>5 DEF OpenRules
  <2>2. rules_generation = 1 /\ rules_configured
    BY <1>1, <1>5 DEF OpenRules, IInv, OwnerInv
  <2>3. RuntimeTypeOK' /\ MutexInv' /\ PhaseInv'
    BY <1>1, <1>4, <1>5, <2>2 DEF OpenRules
  <2>4. GenerationInv'
    BY <1>1, <1>4, <1>5, <2>1, <2>2 DEF OpenRules, GenerationInv
  <2>5. QED
    BY <2>3, <2>4
<1>6. CASE CloseReady
  BY <1>1, <1>4, <1>6 DEF CloseReady, GenerationInv, Retiring
<1>7. CASE CloseRules
  <2>1. /\ UNCHANGED <<opc, ppc, rules_configured, rules_generation, cpc, ret, generation>>
        /\ rulesMu = Free /\ rulesMu' = Owner /\ gpc' = "finish" /\ rulesOpen' = FALSE
        /\ opc = "teardown"
    BY <1>4, <1>7 DEF CloseRules
  <2>2. ASSUME NEW p \in Publishers, cpc[p] \in {"locked", "native", "unlock"} PROVE FALSE
    <3>1. rulesMu = p
      BY <1>1, <2>2
    <3>2. QED
      BY <2>1, <3>1
  <2>3. RuntimeTypeOK'
    BY <1>1, <2>1
  <2>4. MutexInv'
    <3>1. \A p \in Publishers : p # Owner
      OBVIOUS
    <3>2. \A p \in Publishers : cpc'[p] \in {"locked", "native", "unlock"} <=> rulesMu' = p
      BY <2>1, <2>2, <3>1
    <3>3. \A p \in Publishers : /\ ppc'[p] # "idle" => cpc'[p] = "native"
                                /\ cpc'[p] = "native" => rulesOpen'
      BY <1>1, <2>1, <2>2
    <3>4. gpc' = "finish" <=> rulesMu' = Owner
      BY <2>1
    <3>5. QED
      BY <3>2, <3>3, <3>4
  <2>5. PhaseInv'
    BY <1>1, <2>1, <2>2 DEF OwnerPC
  <2>6. GenerationInv'
    BY <1>1, <2>1, <2>2 DEF GenerationInv
  <2>7. QED
    BY <2>3, <2>4, <2>5, <2>6
<1>8. CASE CloseDone
  BY <1>1, <1>4, <1>8 DEF CloseDone, GenerationInv, Retiring
<1>9. QED
  BY <1>3, <1>5, <1>6, <1>7, <1>8 DEF GoOwner

LEMMA InitRuntimeInv == RInit => RuntimeInv
<1> SUFFICES ASSUME RInit PROVE RuntimeInv
  OBVIOUS
<1>1. IInv
  BY InitIInv DEF RInit
<1>2. RuntimeTypeOK /\ MutexInv /\ PhaseInv /\ GenerationInv
  BY PublishersAssumption DEF RInit, Init, RuntimeTypeOK, MutexInv, PhaseInv, GenerationInv,
     Owner, Free
<1>3. QED
  BY <1>1, <1>2 DEF RuntimeInv

LEMMA NextRuntimeInv == RuntimeInv /\ [RNext]_rvars => RuntimeInv'
<1> SUFFICES ASSUME RuntimeInv, [RNext]_rvars PROVE RuntimeInv'
  OBVIOUS
<1>1. IInv'
  BY RuntimeStep, NextIInv DEF RuntimeInv
<1>2. ASSUME NEW p \in Publishers, Call(p) \/ CallerStep(p)
      PROVE  RuntimeInv'
  BY <1>1, <1>2, CallerKeeps, PublishKeeps, NativeKeeps DEF CallerStep, RuntimeInv
<1>3. CASE GoOwner
  BY <1>1, <1>3, OwnerKeeps DEF RuntimeInv
<1>4. ASSUME UNCHANGED <<go_vars, opc, ppc, rules_configured, rules_generation>>
      PROVE  RuntimeInv'
  BY <1>1, <1>4 DEF RuntimeInv, RuntimeTypeOK, MutexInv, PhaseInv, GenerationInv, Retiring,
     NativeCalls, go_vars
<1>5. ASSUME NEW w \in Workers, WorkerSteps(w)
      PROVE  RuntimeInv'
  BY <1>4, <1>5, WorkerFrame DEF WorkerSteps, RuntimeInv, IInv, publisher_vars, owner_vars,
     lifecycle_vars, stat_vars
<1>6. CASE Stop \/ UNCHANGED rvars
  BY <1>4, <1>6 DEF Stop, RequestStop, rvars, vars, publisher_vars, owner_vars,
     lifecycle_vars, stat_vars
<1>7. QED
  BY <1>2, <1>3, <1>5, <1>6 DEF RNext

(* The strengthened invariant holds in every reachable state. *)
THEOREM RuntimeInvariance == SafeRSpec => []RuntimeInv
BY InitRuntimeInv, NextRuntimeInv, PTL DEF SafeRSpec

(* The Go runtime on top of the data plane implements the data plane with   *)
(* callers that come at any moment: what RulePublication_proofs shows of    *)
(* every behaviour of SafeSpec holds under the runtime.                     *)
THEOREM RuntimeImplementsNative == SafeRSpec => SafeSpec
BY RuntimeInvariance, RuntimeStep, PTL DEF SafeRSpec, RInit, SafeSpec

(* A publication finds the rules alive from its entry to its return: the    *)
(* owner neither configures, tears down nor cleans up meanwhile.            *)
THEOREM EntryProtects == SafeRSpec => []EntryCoversNative
<1>1. RuntimeInv => EntryCoversNative
  <2> SUFFICES ASSUME RuntimeInv, NEW p \in Publishers, ppc[p] # "idle"
               PROVE  /\ initialized /\ rules_configured /\ rules_qsbr
                      /\ active_rules # Null
                      /\ opc \in NativeCalls("run") \cup {"teardown"} /\ gpc # "finish"
    BY DEF EntryCoversNative
  <2>1. rulesOpen /\ rules_configured /\ gpc \in {"opened", "run"}
    BY DEF RuntimeInv, MutexInv, PhaseInv
  <2>2. opc \in NativeCalls("run") \cup {"teardown"}
    BY <2>1, PhaseCalls DEF RuntimeInv, PhaseInv
  <2>3. QED
    BY <2>1, <2>2, PhaseCalls DEF RuntimeInv, IInv, RulesInv, Null
<1>2. QED
  BY <1>1, RuntimeInvariance, PTL

(* Outside rulesMu the Go side reports the generation that packets follow,  *)
(* and publications do not overlap.                                         *)
THEOREM GenerationAgreement == SafeRSpec => []GenerationsAgree
<1>1. RuntimeInv => GenerationsAgree
  <2> SUFFICES ASSUME RuntimeInv PROVE GenerationsAgree
    OBVIOUS
  <2>1. rulesMu = Free /\ rulesOpen => generation = rules_generation
    BY PublishersAssumption DEF RuntimeInv, MutexInv, GenerationInv, Free
  <2>2. \A p, q \in Publishers : ppc[p] # "idle" /\ ppc[q] # "idle" => p = q
    BY DEF RuntimeInv, MutexInv
  <2>3. QED
    BY <2>1, <2>2 DEF GenerationsAgree
<1>2. QED
  BY <1>1, RuntimeInvariance, PTL

(* Under the runtime, workers read live snapshots only and the teardown is  *)
(* never refused: the theorems of the data plane carry over.                *)
THEOREM RuntimeMemorySafety == SafeRSpec => [](MemorySafe /\ TeardownNeverBusy)
BY RuntimeImplementsNative, MemorySafety, TeardownAccepted, PTL
=============================================================================
