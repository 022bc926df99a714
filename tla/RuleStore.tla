------------------------------ MODULE RuleStore ------------------------------
(***************************************************************************)
(* The rule API of the Go Runtime (control/dataplane/rules.go): callers    *)
(* read, change, validate and publish the whole rule set under rulesMu,    *)
(* while the owner goroutine opens the API once the data plane is set up   *)
(* and closes it, under the same mutex, before it tears the data plane     *)
(* down.  A publication is two steps, since packets already follow the new *)
(* rules while the old ones are reclaimed and rules.go still has the old    *)
(* copy.  How the native side exchanges and reclaims snapshots is the      *)
(* subject of RulePublication.                                             *)
(***************************************************************************)
EXTENDS Integers, Sequences, SequencesExt

CONSTANTS Callers,        \* goroutines that use the rule API
          Keys,           \* keys of each table: [flows |-> ..., routes |-> ...]
          InvalidKeys,    \* bad protocol, depth 0 or > 32, host bits set
          Actions,
          InvalidActions, \* unknown type or bad rewrite mask
          Capacity,       \* MaxFlowRules and MaxRouteRules
          NULL,           \* dp.active_rules without a snapshot
          Snapshots,      \* rule sets that callers pass to ReplaceRules
          MaxCalls        \* bound: calls per caller

Kinds == {"flows", "routes"}
Rules(kind) == [key : Keys[kind], action : Actions]
NoRules == [flows |-> <<>>, routes |-> <<>>]
RuleSets == [flows : Seq(Rules("flows")), routes : Seq(Rules("routes"))]

ASSUME KeysAssumption == DOMAIN Keys = Kinds /\ Keys["flows"] \cap Keys["routes"] = {}
ASSUME CapacityAssumption == Capacity \in [Kinds -> Nat]
ASSUME SnapshotsAssumption == NoRules \in Snapshots /\ Snapshots \subseteq RuleSets
ASSUME NullAssumption ==
  NULL \notin RuleSets /\ \A t \in SUBSET (Rules("flows") \cup Rules("routes")) : t # NULL
ASSUME StoreBoundAssumption == MaxCalls \in Nat /\ "none" \notin Callers
                               /\ "owner" \notin Callers

VARIABLES
  owner,              \* control point of Runtime.owner
  ready,              \* channel ready is closed
  rulesMu,            \* who holds the mutex
  rulesOpen, currentRules, generation,
  active_rules,       \* rules of the published native snapshot
  rules_generation,   \* dp.stats.rules_generation
  pc,                 \* control point of each caller
  req,                \* its call
  candidate,          \* its local rule set
  err,                \* its call returns an error
  calls

go_vars == <<ready, rulesOpen, currentRules, generation>>
native_vars == <<active_rules, rules_generation>>
caller_vars == <<pc, req, candidate, err, calls>>
vars == <<owner, rulesMu, go_vars, native_vars, caller_vars>>

Requests ==
  (UNION { [op : {"Add"}, kind : {k}, rule : Rules(k)] : k \in Kinds })
    \cup (UNION { [op : {"Delete"}, kind : {k}, key : Keys[k]] : k \in Kinds })
    \cup [op : {"Replace"}, rules : Snapshots]

(* Stands for the arguments and locals of a caller outside the API *)
NoRequest == [op |-> "Replace", rules |-> NoRules]

KeysOf(rules) == {rules[i].key : i \in DOMAIN rules}

(* Every rule is valid and no key occurs twice. *)
validateRules(s) ==
  \A kind \in Kinds :
    /\ Len(s[kind]) <= Capacity[kind]
    /\ \A i \in DOMAIN s[kind] :
         /\ s[kind][i].key \notin InvalidKeys
         /\ s[kind][i].action \notin InvalidActions
         /\ \A j \in DOMAIN s[kind] : s[kind][i].key = s[kind][j].key => i = j

(* The checks of dp_snapshot_build, rule by rule against the tables so far *)
BuildAccepts(s) ==
  \A kind \in Kinds :
    /\ Len(s[kind]) <= Capacity[kind]
    /\ \A i \in 1 .. Len(s[kind]) :
         LET rule == s[kind][i] IN
         /\ rule.key \notin InvalidKeys /\ rule.action \notin InvalidActions
         /\ rule.key \notin KeysOf(SubSeq(s[kind], 1, i - 1))

(* Start has validated the configured rules; owner is about to run. *)
Init ==
  /\ owner = "init" /\ ready = FALSE /\ rulesMu = "none" /\ rulesOpen = FALSE
  /\ currentRules \in {s \in Snapshots : validateRules(s)}
  /\ generation = 0
  /\ active_rules = NULL /\ rules_generation = 0
  /\ pc = [c \in Callers |-> "idle"]
  /\ req = [c \in Callers |-> NoRequest]
  /\ candidate = [c \in Callers |-> NoRules]
  /\ err = [c \in Callers |-> FALSE]
  /\ calls = [c \in Callers |-> 0]

-----------------------------------------------------------------------------
(* Runtime.owner *)

OwnerMoves(from, to) == owner = from /\ owner' = to

ConfigureRules ==
  /\ OwnerMoves("init", "setup")
  /\ active_rules' = currentRules
  /\ rules_generation' = 1
  /\ UNCHANGED <<rulesMu, go_vars, caller_vars>>

(* native.Init fails: there is nothing to clean up. *)
InitFails ==
  /\ OwnerMoves("init", "uninitialized")
  /\ UNCHANGED <<rulesMu, go_vars, native_vars, caller_vars>>

(* GetInfo, ConfigureRules or Setup fails, or this is a probe. *)
StartFails ==
  /\ OwnerMoves("init", "failed") \/ OwnerMoves("setup", "failed")
  /\ UNCHANGED <<rulesMu, go_vars, native_vars, caller_vars>>

OpenRules ==
  /\ OwnerMoves("setup", "opened") /\ rulesMu = "none"
  /\ generation' = 1 /\ rulesOpen' = TRUE
  /\ UNCHANGED <<rulesMu, ready, currentRules, native_vars, caller_vars>>

CloseReady ==
  /\ \/ OwnerMoves("opened", "running") \/ OwnerMoves("failed", "returned")
     \/ OwnerMoves("uninitialized", "done")
  /\ ready' = TRUE
  /\ UNCHANGED <<rulesMu, rulesOpen, currentRules, generation, native_vars, caller_vars>>

RunReturns ==
  /\ OwnerMoves("running", "returned")
  /\ UNCHANGED <<rulesMu, go_vars, native_vars, caller_vars>>

CloseRules ==
  /\ OwnerMoves("returned", "closed") /\ rulesMu = "none"
  /\ rulesMu' = "owner" /\ rulesOpen' = FALSE
  /\ UNCHANGED <<ready, currentRules, generation, native_vars, caller_vars>>

Teardown ==
  /\ OwnerMoves("closed", "tornDown")
  /\ active_rules' = NULL
  /\ UNCHANGED <<rulesMu, go_vars, rules_generation, caller_vars>>

(* The rest of finishLifecycle does not touch the rules. *)
FinishLifecycle ==
  /\ OwnerMoves("tornDown", "done")
  /\ rulesMu' = "none"
  /\ UNCHANGED <<go_vars, native_vars, caller_vars>>

-----------------------------------------------------------------------------
(* Callers *)

Moves(c, from, to) == pc[c] = from /\ pc' = [pc EXCEPT ![c] = to]

(* The call returns an error; the deferred unlock is still to run. *)
Refuse(c, from) == Moves(c, from, "unlock") /\ err' = [err EXCEPT ![c] = TRUE]
                   /\ UNCHANGED candidate

(* A caller enters the API; ReplaceRules validates its argument first. *)
Call(c) ==
  /\ calls[c] < MaxCalls
  /\ calls' = [calls EXCEPT ![c] = @ + 1]
  /\ \E r \in Requests :
       /\ req' = [req EXCEPT ![c] = r]
       /\ IF r.op = "Replace"
          THEN /\ Moves(c, "idle", IF validateRules(r.rules) THEN "wait" ELSE "return")
               /\ err' = [err EXCEPT ![c] = ~ validateRules(r.rules)]
          ELSE /\ Moves(c, "idle", "wait")
               /\ err' = [err EXCEPT ![c] = FALSE]
  /\ UNCHANGED <<owner, rulesMu, go_vars, native_vars, candidate>>

(* Mutation: callers are not serialised. *)
MutexShared == TRUE

MutexFree == rulesMu = "none"

Lock(c) ==
  /\ Moves(c, "wait", "locked") /\ ready /\ MutexFree
  /\ rulesMu' = c
  /\ UNCHANGED <<owner, go_vars, native_vars, req, candidate, err, calls>>

(* The candidate is current with one table changed *)
Propose(c, rules) == Moves(c, "locked", "publish")
                     /\ candidate' = [candidate EXCEPT ![c] = rules] /\ UNCHANGED err

ReplaceRules(c) ==
  /\ req[c].op = "Replace"
  /\ Propose(c, req[c].rules)
  /\ UNCHANGED <<owner, rulesMu, go_vars, native_vars, req, calls>>

(* Mutation: the new rule is not validated. *)
DuplicateOnly(kind, rule) == rule.key \in KeysOf(currentRules[kind])

(* The key is taken, or the rule set with the new rule is not valid. *)
NotAddable(kind, rule) ==
  \/ rule.key \in KeysOf(currentRules[kind])
  \/ ~ validateRules([currentRules EXCEPT ![kind] = Append(@, rule)])

Add(c, kind) ==
  /\ req[c].op = "Add" /\ req[c].kind = kind
  /\ IF NotAddable(kind, req[c].rule)
     THEN Refuse(c, "locked")
     ELSE Propose(c, [currentRules EXCEPT ![kind] = Append(@, req[c].rule)])
  /\ UNCHANGED <<owner, rulesMu, go_vars, native_vars, req, calls>>

AddFlow(c) == Add(c, "flows")

AddRoute(c) == Add(c, "routes")

(* The first rule with the key goes; the result is not validated again. *)
Delete(c, kind) ==
  /\ req[c].op = "Delete" /\ req[c].kind = kind
  /\ LET found == {i \in DOMAIN currentRules[kind] :
                     currentRules[kind][i].key = req[c].key}
         first == CHOOSE i \in found : \A j \in found : i <= j
     IN IF found = {}
        THEN Refuse(c, "locked")
        ELSE Propose(c, [currentRules EXCEPT ![kind] = RemoveAt(@, first)])
  /\ UNCHANGED <<owner, rulesMu, go_vars, native_vars, req, calls>>

DeleteFlow(c) == Delete(c, "flows")
DeleteRoute(c) == Delete(c, "routes")

(* publishSnapshotLocked: a closed API, or native.PublishRules is called *)
publishSnapshotLocked(c) ==
  /\ IF rulesOpen THEN Moves(c, "publish", "native") /\ UNCHANGED <<candidate, err>>
                  ELSE Refuse(c, "publish")
  /\ UNCHANGED <<owner, rulesMu, go_vars, native_vars, req, calls>>

(* dp_publish_rules up to the exchange of active_rules *)
PublishRules(c) ==
  /\ Moves(c, "native", "grace")
  /\ active_rules # NULL /\ BuildAccepts(candidate[c])
  /\ active_rules' = candidate[c]
  /\ rules_generation' = rules_generation + 1
  /\ UNCHANGED <<owner, rulesMu, go_vars, req, candidate, err, calls>>

(* Mutation: rules.go takes over the rules whatever native returns. *)
RulesTaken(c) == candidate[c]

RulesKept(c) == currentRules

(* It refuses the rules, has none to replace, or runs out of memory. *)
PublishRulesFails(c) ==
  /\ Refuse(c, "native")
  /\ currentRules' = RulesKept(c)
  /\ UNCHANGED <<owner, rulesMu, ready, rulesOpen, generation, native_vars, req, calls>>

(* The old rules are reclaimed and rules.go takes over the new ones. *)
PublishReturns(c) ==
  /\ Moves(c, "grace", "unlock")
  /\ currentRules' = candidate[c]
  /\ generation' = rules_generation
  /\ UNCHANGED <<owner, rulesMu, ready, rulesOpen, native_vars, req, candidate, err, calls>>

Unlock(c) ==
  /\ Moves(c, "unlock", "return")
  /\ rulesMu' = "none"
  /\ UNCHANGED <<owner, go_vars, native_vars, req, candidate, err, calls>>

Return(c) ==
  /\ Moves(c, "return", "idle")
  /\ candidate' = [candidate EXCEPT ![c] = NoRules]
  /\ req' = [req EXCEPT ![c] = NoRequest]
  /\ err' = [err EXCEPT ![c] = FALSE]
  /\ UNCHANGED <<owner, rulesMu, go_vars, native_vars, calls>>

OwnerStep == \/ ConfigureRules \/ InitFails \/ StartFails \/ OpenRules \/ CloseReady
             \/ RunReturns \/ CloseRules \/ Teardown \/ FinishLifecycle

CallerStep(c) ==
  \/ Lock(c) \/ ReplaceRules(c) \/ AddFlow(c) \/ AddRoute(c) \/ DeleteFlow(c)
  \/ DeleteRoute(c) \/ publishSnapshotLocked(c) \/ PublishRules(c)
  \/ PublishRulesFails(c) \/ PublishReturns(c) \/ Unlock(c) \/ Return(c)

Next == OwnerStep \/ \E c \in Callers : Call(c) \/ CallerStep(c)

SafeSpec == Init /\ [][Next]_vars

-----------------------------------------------------------------------------
(* Properties *)

(* While the API is open, the Go copy and the native snapshot are the same  *)
(* rules of the same generation, except to the one caller whose publication *)
(* has taken effect and not yet returned: no call computes its candidate    *)
(* from rules that are no longer the ones packets follow.                   *)
CopiesAgree ==
  rulesOpen /\ (\A c \in Callers : pc[c] # "grace") =>
    currentRules = active_rules /\ generation = rules_generation

(* What reaches dp_publish_rules is never refused for its content or for    *)
(* the state of the data plane, although Delete does not validate: only     *)
(* resources can fail a publication.                                        *)
NeverRejected ==
  \A c \in Callers : pc[c] = "native" =>
    active_rules # NULL /\ BuildAccepts(candidate[c])

(* Linearizability: see LinearRuleTable.  The table is what packets follow. *)
Content(s) == IF s = NULL THEN NULL
              ELSE UNION {ToSet(s[kind]) : kind \in Kinds}

(* The rules after a successful call, from the rules before *)
Effect(r, t) ==
  CASE r.op = "Add" ->
         IF \/ \E x \in t : x.key = r.rule.key
            \/ r.rule.key \in InvalidKeys \/ r.rule.action \in InvalidActions
         THEN {} ELSE {t \cup {r.rule}}
    [] r.op = "Delete" ->
         IF \E x \in t : x.key = r.key THEN {{x \in t : x.key # r.key}} ELSE {}
    [] r.op = "Replace" -> {Content(r.rules)}

Outcome == [c \in Callers |->
              IF pc[c] = "idle" THEN "returned"
              ELSE IF pc[c] \in {"grace", "unlock", "return"} /\ ~ err[c] THEN "applied"
              ELSE "none"]

Table == INSTANCE LinearRuleTable
           WITH Empty <- NULL, table <- Content(active_rules),
                version <- rules_generation, request <- req, outcome <- Outcome,
                InitialTables <- {Content(s) : s \in {z \in Snapshots : validateRules(z)}}

(* Every call of the rule API takes effect atomically on the rules that     *)
(* packets follow, or fails and changes nothing; no update is lost.          *)
Linearizable == Table!TSpec
=============================================================================
