---------------------------- MODULE RuntimeRules ----------------------------
(***************************************************************************)
(* The Go runtime on top of the native data plane of RulePublication: the  *)
(* goroutines that publish rules enter dp_publish_rules one at a time,     *)
(* under rulesMu and only while rulesOpen, and the owner goroutine, which  *)
(* is the owner thread of the native calls, opens this entry between       *)
(* Setup and Run and closes it between Run and finishLifecycle.            *)
(*                                                                         *)
(* Every native step is a step of RulePublication, taken at the point of   *)
(* the Go code that calls it.                                              *)
(***************************************************************************)
EXTENDS RulePublication

VARIABLES
  gpc,          \* control point of Runtime.owner around its native calls
  cpc,          \* control point of each publishing goroutine
  rulesMu,      \* who holds the mutex
  rulesOpen, generation,
  readyClosed,  \* channel ready
  ret,          \* what native.PublishRules returns: a generation, or 0 and an error
  gcalls        \* calls of the rule API so far

go_vars == <<gpc, cpc, rulesMu, rulesOpen, generation, readyClosed, ret, gcalls>>
rvars == <<vars, go_vars>>

RInit ==
  /\ Init
  /\ gpc = "start" /\ cpc = [p \in Publishers |-> "idle"]
  /\ rulesMu = Free /\ rulesOpen = FALSE /\ generation = 0 /\ readyClosed = FALSE
  /\ ret = [p \in Publishers |-> 0] /\ gcalls = [p \in Publishers |-> 0]

-----------------------------------------------------------------------------
(* A goroutine in ReplaceRules, AddFlow, DeleteFlow, AddRoute or DeleteRoute. *)
(* What it proposes is the subject of RuleStore.                              *)

CallerGoto(p, from, to) ==
  cpc[p] = from /\ cpc' = [cpc EXCEPT ![p] = to]

Call(p) ==
  /\ CallerGoto(p, "idle", "wait") /\ gcalls[p] < MaxCalls
  /\ gcalls' = [gcalls EXCEPT ![p] = @ + 1]
  /\ UNCHANGED <<vars, gpc, rulesMu, rulesOpen, generation, readyClosed, ret>>

(* <-r.ready, then rulesMu.Lock() *)
Lock(p) ==
  /\ CallerGoto(p, "wait", "locked") /\ readyClosed /\ rulesMu = Free
  /\ rulesMu' = p
  /\ UNCHANGED <<vars, gpc, rulesOpen, generation, readyClosed, ret, gcalls>>

(* Mutation: an error return does not unlock. *)
RefusedToIdle == "idle"

RefusedTo == "unlock"

(* The rules are refused, or the entry is closed. *)
Refuse(p) ==
  /\ CallerGoto(p, "locked", RefusedTo)
  /\ UNCHANGED <<vars, gpc, rulesMu, rulesOpen, generation, readyClosed, ret, gcalls>>

(* publishSnapshotLocked calls native.PublishRules. *)
Publish(p) ==
  /\ CallerGoto(p, "locked", "native") /\ rulesOpen
  /\ PublishEnters(p)
  /\ ret' = [ret EXCEPT ![p] = 0]
  /\ UNCHANGED <<gpc, rulesMu, rulesOpen, generation, readyClosed, gcalls>>

(* A step of dp_publish_rules; it stores the generation when it succeeds. *)
Native(p) ==
  /\ cpc[p] = "native" /\ PublishProgress(p)
  /\ ret' = [ret EXCEPT ![p] = IF PublishReclaim(p) THEN new_snapshot[p] ELSE @]
  /\ UNCHANGED <<gpc, cpc, rulesMu, rulesOpen, generation, readyClosed, gcalls>>

(* Mutation: the generation is taken over without a look at the error. *)
GenerationOf(p) == ret[p]

GenerationAfter(p) == IF ret[p] # 0 THEN ret[p] ELSE generation

PublishEnds(p) ==
  /\ CallerGoto(p, "native", "unlock") /\ ppc[p] = "idle"
  /\ generation' = GenerationAfter(p)
  /\ UNCHANGED <<vars, gpc, rulesMu, rulesOpen, readyClosed, ret, gcalls>>

Unlock(p) ==
  /\ CallerGoto(p, "unlock", "idle")
  /\ rulesMu' = Free
  /\ UNCHANGED <<vars, gpc, rulesOpen, generation, readyClosed, ret, gcalls>>

(* What the accessor returns; it waits for the mutex, not for ready. *)
RulesGeneration == generation

CallerStep(p) ==
  \/ Lock(p) \/ Refuse(p) \/ Publish(p) \/ Native(p) \/ PublishEnds(p) \/ Unlock(p)

-----------------------------------------------------------------------------
(* Runtime.owner *)

NativeCalls(phase) ==
  CASE phase = "start" -> {"configure", "setup"}
    [] phase = "run" -> {"run", "launch", "main", "join"}
    [] phase = "finish" -> OwnerPC \ {"configure", "setup", "run", "launch", "main", "join"}
    [] OTHER -> {}

(* A step of the native call that owner is in *)
OwnerNative ==
  /\ opc \in NativeCalls(gpc) /\ OwnerStep
  /\ UNCHANGED go_vars

OpenRules ==
  /\ gpc = "start" /\ opc = "run" /\ rulesMu = Free
  /\ gpc' = "opened" /\ generation' = 1 /\ rulesOpen' = TRUE
  /\ UNCHANGED <<vars, cpc, rulesMu, readyClosed, ret, gcalls>>

(* With or without an error; Run is called in the latter case. *)
CloseReady ==
  /\ gpc = "opened" \/ (gpc = "start" /\ opc = "teardown")
  /\ gpc' = "run" /\ readyClosed' = TRUE
  /\ UNCHANGED <<vars, cpc, rulesMu, rulesOpen, generation, ret, gcalls>>

(* Mutation: the entry is closed without the mutex. *)
NoMutex == TRUE

NoPublisher == rulesMu = Free

(* Run has returned, or there was no run. *)
CloseRules ==
  /\ gpc = "run" /\ opc = "teardown" /\ NoPublisher
  /\ gpc' = "finish" /\ rulesMu' = Owner /\ rulesOpen' = FALSE
  /\ UNCHANGED <<vars, cpc, generation, readyClosed, ret, gcalls>>

(* finishLifecycle has returned; done is closed. *)
CloseDone ==
  /\ gpc = "finish" /\ opc \in {"done", "busy"}
  /\ gpc' = "done" /\ rulesMu' = Free
  /\ UNCHANGED <<vars, cpc, rulesOpen, generation, readyClosed, ret, gcalls>>

GoOwner == OwnerNative \/ OpenRules \/ CloseReady \/ CloseRules \/ CloseDone

Stop == RequestStop /\ UNCHANGED go_vars

WorkerSteps(w) == WorkerStep(w) /\ UNCHANGED go_vars

RNext ==
  \/ \E p \in Publishers : Call(p) \/ CallerStep(p)
  \/ GoOwner \/ Stop
  \/ \E w \in Workers : WorkerSteps(w)

(* Goroutines and lcores keep running, and a sync.Mutex goes in the end to  *)
(* one who waits for it.  Nobody has to call the rule API or Stop.          *)
RFairness ==
  /\ \A w \in Workers : WF_rvars(WorkerSteps(w))
  /\ \A p \in Publishers : WF_rvars(CallerStep(p)) /\ SF_rvars(Lock(p))
  /\ WF_rvars(GoOwner) /\ SF_rvars(OpenRules) /\ SF_rvars(CloseRules)

SafeRSpec == RInit /\ [][RNext]_rvars
RSpec == SafeRSpec /\ RFairness

-----------------------------------------------------------------------------
(* Properties *)

(* A goroutine inside dp_publish_rules finds the rules alive: neither       *)
(* configuration, teardown and statistics nor dp_runtime_cleanup overlap    *)
(* with it, so the -ENODEV branch of its guard is not taken and the plain   *)
(* counters of dp.stats are not written while GetStats copies them.         *)
EntryCoversNative ==
  \A p \in Publishers : ppc[p] # "idle" =>
    /\ initialized /\ rules_configured /\ rules_qsbr
    /\ active_rules # Null
    /\ opc \in NativeCalls("run") \cup {"teardown"} /\ gpc # "finish"

(* When nobody holds rulesMu, the generation that RulesGeneration reports   *)
(* is the one packets follow, also after a refused or failed publication,   *)
(* and only one goroutine at a time is inside the native call.              *)
GenerationsAgree ==
  /\ rulesMu = Free /\ rulesOpen => RulesGeneration = rules_generation
  /\ \A p, q \in Publishers : ppc[p] # "idle" /\ ppc[q] # "idle" => p = q

(* A call of the rule API returns: it waits for the start, for the mutex,   *)
(* for the writer lock and for a grace period, while workers are idle,      *)
(* busy, starting, failing or stopping and the owner shuts down.            *)
CallsReturn == \A p \in Publishers : cpc[p] # "idle" ~> cpc[p] = "idle"

(* A stop request, at whatever moment, ends every worker and the lifecycle, *)
(* whoever keeps publishing.                                                *)
StopEnds == stop ~> (gpc = "done" /\ \A w \in Workers : Gone(w))

-----------------------------------------------------------------------------
(* The invariant behind EntryCoversNative and GenerationsAgree.             *)

RuntimeTypeOK ==
  /\ gpc \in {"start", "opened", "run", "finish", "done"}
  /\ cpc \in [Publishers -> {"idle", "wait", "locked", "native", "unlock"}]
  /\ rulesMu \in Publishers \cup {Owner, Free}
  /\ rulesOpen \in BOOLEAN /\ generation \in Nat
  /\ ret \in [Publishers -> Nat]

(* rulesMu is held by whoever is between Lock and Unlock, and a goroutine   *)
(* is inside dp_publish_rules only then and only while the entry is open.   *)
MutexInv ==
  /\ \A p \in Publishers : cpc[p] \in {"locked", "native", "unlock"} <=> rulesMu = p
  /\ gpc = "finish" <=> rulesMu = Owner
  /\ \A p \in Publishers : ppc[p] # "idle" => cpc[p] = "native"
  /\ \A p \in Publishers : cpc[p] = "native" => rulesOpen

(* Which native call the owner goroutine may be in.  The entry is open in a *)
(* part of the span in which the rules exist.                               *)
PhaseInv ==
  /\ gpc = "start" => opc \in {"configure", "setup", "run", "teardown"}
  /\ gpc = "opened" => opc = "run"
  /\ gpc = "run" => opc \in {"run", "launch", "main", "join", "teardown"}
  /\ gpc \in {"finish", "done"} => opc \in NativeCalls("finish")
  /\ rulesOpen => gpc \in {"opened", "run"} /\ rules_configured
  /\ gpc = "start" /\ opc \in {"setup", "run"} => rules_generation = 1

(* The generation of the Go side is behind only on account of the goroutine *)
(* whose publication has taken effect.                                      *)
GenerationInv ==
  /\ \A p \in Publishers : cpc[p] = "native" /\ ret[p] # 0 =>
       ret[p] = rules_generation /\ ppc[p] \in {"out", "unlock", "idle"}
  /\ rulesOpen /\ generation # rules_generation =>
       \E p \in Publishers :
         /\ cpc[p] = "native"
         /\ Retiring(p) \/ (ppc[p] \in {"out", "unlock", "idle"} /\ ret[p] = rules_generation)

RuntimeInv == IInv /\ RuntimeTypeOK /\ MutexInv /\ PhaseInv /\ GenerationInv
=============================================================================
