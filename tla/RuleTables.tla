------------------------------ MODULE RuleTables ------------------------------
(***************************************************************************)
(* From a rules file, or a call of the rule API, to the verdict of a       *)
(* packet: parsing and validation in rules.go, the temporary C arrays of   *)
(* binding_linux.go, the tables dp_snapshot_build fills rule by rule, the  *)
(* exchange and the release of snapshots, and dp_lookup_packet.            *)
(*                                                                         *)
(* Writers are serialised (RulePublication), so one call is in progress at *)
(* a time; between the exchange and the end of the grace period packets    *)
(* are looked up in the old snapshot as well.                              *)
(***************************************************************************)
EXTENDS RuleFormat, FiniteSets

CONSTANTS NumTbl8,        \* lpm_config.number_tbl8s
          Documents,      \* rules files
          Snapshots,      \* arguments of the Go rule API
          NativeArrays,   \* arguments of direct callers of the C API
          Packets,        \* parsed packets, struct dp_packet_meta
          MaxCalls        \* bound: publications

ASSUME TablesAssumption == NumTbl8 \in Nat /\ MaxCalls \in Nat

(* Rules come in arrays, keys and addresses are unsigned numbers of a given *)
(* width, the decoder of the rules file knows no other fields of a rewrite, *)
(* and the parser passes on packets of two protocols.                       *)
IsArray(list) == list \in Seq({list[j] : j \in DOMAIN list})

Addresses == 0 .. Power2[AddrBits] - 1
FlowKeys == [src_ipv4 : Addresses, dst_ipv4 : Addresses, src_port : Nat, dst_port : Nat,
             l4_proto : Nat]
RouteKeys == [prefix : Addresses, depth : Nat]

IsText(text) == text.octets \in Seq(Nat)
IsTextAction(d) == /\ DOMAIN d.fields \subseteq RewriteFields
                   /\ \A f \in DOMAIN d.fields \cap AddressFields : IsText(d.fields[f])

ASSUME InputAssumption ==
  /\ \A rules \in Documents \cup Snapshots \cup NativeArrays :
       IsArray(rules.flows) /\ IsArray(rules.routes)
  /\ \A rules \in Documents :
       /\ \A j \in DOMAIN rules.flows : /\ IsText(rules.flows[j].src_ipv4)
                                        /\ IsText(rules.flows[j].dst_ipv4)
                                        /\ IsTextAction(rules.flows[j].action)
       /\ \A j \in DOMAIN rules.routes : /\ IsText(rules.routes[j].prefix)
                                         /\ IsTextAction(rules.routes[j].action)
  /\ \A rules \in Snapshots \cup NativeArrays :
       /\ \A j \in DOMAIN rules.flows : rules.flows[j].key \in FlowKeys
       /\ \A j \in DOMAIN rules.routes : rules.routes[j].key \in RouteKeys
  /\ \A p \in Packets : p \in FlowKeys /\ p.l4_proto \in {6, 17}

VARIABLES
  pc,
  input,              \* argument of the call in progress
  arrays,             \* the rules as C arrays
  allocated,          \* which of them newRuleArrays has allocated
  new,                \* dp_snapshot_build: the snapshot
  i,                  \* its loop index
  heap,               \* live objects by kind and generation; tables by name
  active_rules, old_snapshot,
  rules_generation,   \* dp.stats.rules_generation
  freed,              \* kinds whose dp.stats.*_freed is set
  err,                \* why the last call has failed, or "none"
  published,          \* history: the arguments published, by generation
  calls

call_vars == <<input, arrays, allocated>>
rule_vars == <<active_rules, old_snapshot, rules_generation, freed, published>>
vars == <<pc, call_vars, new, i, heap, rule_vars, err, calls>>

-----------------------------------------------------------------------------
(* struct dp_rule_snapshot and the tables of DPDK it refers to *)

(* What a snapshot consists of, in the order of the allocations *)
Kinds == <<"snapshot", "actions", "flow_table", "route_table">>

NoTable == [key \in {} |-> 0]

(* table[key] = value *)
Put(table, key, value) ==
  [k \in DOMAIN table \cup {key} |-> IF k = key THEN value ELSE table[k]]

(* An entry of the flow table is the address of an action, modelled by the  *)
(* index; an entry of the route table is the index itself.                  *)
Snapshot(generation) == [generation |-> generation, actions |-> NoTable,
                         flow_table |-> NoTable, route_table |-> NoTable]
NULL == Snapshot(0)

NoRules == [flows |-> <<>>, routes |-> <<>>]
NoInput == [via |-> "native", rules |-> NoRules]

ActionCount(rules) == Len(rules.flows) + Len(rules.routes)

(* What dp_snapshot_build allocates for the rules *)
Needed(rules) ==
  {"snapshot"} \cup (IF ActionCount(rules) # 0 THEN {"actions"} ELSE {})
               \cup (IF Len(rules.flows) # 0 THEN {"flow_table"} ELSE {})
               \cup (IF Len(rules.routes) # 0 THEN {"route_table"} ELSE {})

Live(snapshot, kind) == <<kind, snapshot.generation>> \in heap

(* The /24s that routes deeper than 24 bits share a tbl8 group in *)
Tbl8Groups(table) == {Network(key.prefix, 3 * OctetBits) :
                        key \in {k \in DOMAIN table : k.depth > 3 * OctetBits}}

Covering(table, address) == {key \in DOMAIN table : Network(address, key.depth) = key.prefix}

(* The next hop of the longest prefix *)
rte_lpm_lookup(table, address) ==
  table[CHOOSE key \in Covering(table, address) :
          \A other \in Covering(table, address) : other.depth <= key.depth]

dp_flow_key_from_meta(meta) ==
  [src_ipv4 |-> meta.src_ipv4, dst_ipv4 |-> meta.dst_ipv4, src_port |-> meta.src_port,
   dst_port |-> meta.dst_port, l4_proto |-> meta.l4_proto]

Miss == [type |-> "miss", rewrite |-> NoTable]

(* Reading through a pointer into the action store *)
ActionAt(snapshot, index) ==
  IF Live(snapshot, "actions") /\ index \in DOMAIN snapshot.actions
  THEN snapshot.actions[index] ELSE [type |-> "dangling", rewrite |-> NoTable]

FlowHit(snapshot, meta) ==
  Live(snapshot, "flow_table") /\ dp_flow_key_from_meta(meta) \in DOMAIN snapshot.flow_table

RouteHit(snapshot, meta) ==
  /\ Live(snapshot, "route_table") /\ Covering(snapshot.route_table, meta.dst_ipv4) # {}
  /\ rte_lpm_lookup(snapshot.route_table, meta.dst_ipv4) < Cardinality(DOMAIN snapshot.actions)

dp_lookup_packet(snapshot, meta) ==
  CASE FlowHit(snapshot, meta) ->
         ActionAt(snapshot, snapshot.flow_table[dp_flow_key_from_meta(meta)])
    [] ~ FlowHit(snapshot, meta) /\ RouteHit(snapshot, meta) ->
         ActionAt(snapshot, rte_lpm_lookup(snapshot.route_table, meta.dst_ipv4))
    [] OTHER -> Miss

-----------------------------------------------------------------------------
Init ==
  /\ pc = "idle" /\ input = NoInput /\ arrays = NoRules /\ allocated = {}
  /\ new = NULL /\ i = 0 /\ heap = {} /\ active_rules = NULL /\ old_snapshot = NULL
  /\ rules_generation = 0 /\ freed = {} /\ err = "none" /\ published = <<>> /\ calls = 0

(* The first publication is the configuration; when it fails, the owner     *)
(* goes on with the teardown.                                               *)
CallBegins ==
  /\ pc = "idle" /\ calls < MaxCalls /\ (rules_generation # 0 \/ calls = 0)
  /\ calls' = calls + 1
  /\ UNCHANGED <<allocated, new, i, heap, rule_vars>>

Refuse(why) == pc' = "release" /\ err' = why /\ UNCHANGED arrays

(* The rules are accepted by the control plane. *)
Submit(rules) ==
  /\ pc' = "arrays" /\ err' = "none"
  /\ arrays' = [flows |-> [j \in DOMAIN rules.flows |-> dp_rule_set(rules.flows[j])],
                routes |-> [j \in DOMAIN rules.routes |-> dp_rule_set(rules.routes[j])]]

(* main: the file is loaded at the start and on SIGHUP; Start and           *)
(* ReplaceRules validate what it gives.                                     *)
LoadRulesFile ==
  /\ CallBegins
  /\ \E document \in Documents :
       /\ input' = [via |-> "file", rules |-> document]
       /\ \/ ~ normalizeRules(document) /\ Refuse("parse")
          \/ /\ normalizeRules(document)
             /\ IF validateRules(Normalized(document)) THEN Submit(Normalized(document))
                                                      ELSE Refuse("validate")

(* Start and ReplaceRules with a snapshot of the caller's *)
ReplaceRules ==
  /\ CallBegins
  /\ \E rules \in Snapshots :
       /\ input' = [via |-> "api", rules |-> rules]
       /\ IF validateRules(rules) THEN Submit(rules) ELSE Refuse("validate")

(* dp_configure_rules and dp_publish_rules called from C *)
NativeCall ==
  /\ CallBegins
  /\ \E rules \in NativeArrays :
       /\ pc' = "build" /\ err' = "none" /\ arrays' = rules
       /\ input' = [via |-> "native", rules |-> rules]

(* newRuleArrays: first the array of the flows, then that of the routes *)
AllocateFlowArray ==
  /\ pc = "arrays" /\ pc' = "route_array"
  /\ Len(arrays.flows) <= MaxFlowRules /\ Len(arrays.routes) <= MaxRouteRules
  /\ allocated' = {kind \in {"flows"} : arrays.flows # <<>>}
  /\ UNCHANGED <<input, arrays, new, i, heap, rule_vars, err, calls>>

AllocateRouteArray ==
  /\ pc = "route_array" /\ pc' = "build"
  /\ allocated' = allocated \cup {kind \in {"routes"} : arrays.routes # <<>>}
  /\ UNCHANGED <<input, arrays, new, i, heap, rule_vars, err, calls>>

(* There are too many rules, or there is no memory for one of the arrays;   *)
(* without memory for the second the first is freed.  The call returns with *)
(* the error before its deferred release exists.                            *)
newRuleArraysFails ==
  /\ LET exceeds == Len(arrays.flows) > MaxFlowRules \/ Len(arrays.routes) > MaxRouteRules
     IN /\ \/ /\ pc = "arrays" /\ (exceeds \/ arrays.flows # <<>>)
              /\ UNCHANGED allocated
           \/ /\ pc = "route_array" /\ arrays.routes # <<>>
              /\ allocated' = allocated \ {"flows"}
        /\ err' = IF exceeds THEN "count" ELSE "nomem"
  /\ pc' = "idle" /\ input' = NoInput /\ arrays' = NoRules
  /\ UNCHANGED <<new, i, heap, rule_vars, calls>>

-----------------------------------------------------------------------------
(* dp_snapshot_build *)

(* next_generation; dp_configure_rules passes 1 *)
NextGeneration == rules_generation + 1

(* Mutation: the flow table of the snapshot is not freed. *)
dp_snapshot_free_partly(snapshot) ==
  {object \in heap : object[2] # snapshot.generation \/ object[1] = "flow_table"}

(* The heap without the objects of the snapshot *)
dp_snapshot_free(snapshot) == {object \in heap : object[2] # snapshot.generation}

(* The kinds that record_resource_stats marks as freed *)
FreedWith(snapshot) == {object[1] : object \in heap \ dp_snapshot_free(snapshot)}

(* The label fail: the arrays are released, the caller gets the error. *)
BuildFails(why) ==
  /\ pc' = "release" /\ err' = why
  /\ heap' = dp_snapshot_free(new) /\ new' = NULL /\ i' = 0

BuildBegins ==
  /\ pc = "build"
  /\ IF Len(arrays.flows) > MaxFlowRules \/ Len(arrays.routes) > MaxRouteRules
     THEN pc' = "release" /\ err' = "count" /\ UNCHANGED new
     ELSE pc' = "allocate" /\ new' = Snapshot(NextGeneration) /\ UNCHANGED err
  /\ UNCHANGED <<call_vars, i, heap, rule_vars, calls>>

(* One allocation; rte_hash_create and rte_lpm_create refuse a name in use. *)
Allocate ==
  /\ pc = "allocate" /\ i < Len(Kinds)
  /\ LET kind == Kinds[i + 1]
         clash == kind \in {"flow_table", "route_table"} /\ Live(new, kind)
     IN
     \/ kind \in Needed(arrays) /\ BuildFails(IF clash THEN "name" ELSE "nomem")
     \/ /\ kind \in Needed(arrays) => ~ clash
        /\ heap' = heap \cup {<<k, new.generation>> : k \in {kind} \cap Needed(arrays)}
        /\ i' = i + 1
        /\ UNCHANGED <<pc, new, err>>
  /\ UNCHANGED <<call_vars, rule_vars, calls>>

AllocationsEnd ==
  /\ pc = "allocate" /\ i = Len(Kinds)
  /\ pc' = "flows" /\ i' = 0
  /\ UNCHANGED <<call_vars, new, heap, rule_vars, err, calls>>

(* One turn of the loop over the flows; without ext buckets rte_hash may    *)
(* find no place for a key.                                                 *)
AddFlow ==
  /\ pc = "flows" /\ i < Len(arrays.flows)
  /\ LET rule == arrays.flows[i + 1] IN
     \/ ~ FlowAccepted(rule) /\ BuildFails("invalid")
     \/ FlowAccepted(rule) /\ rule.key \in DOMAIN new.flow_table /\ BuildFails("exists")
     \/ FlowAccepted(rule) /\ rule.key \notin DOMAIN new.flow_table /\ BuildFails("hash_full")
     \/ /\ FlowAccepted(rule) /\ rule.key \notin DOMAIN new.flow_table
        /\ new' = [new EXCEPT !.actions = Put(@, i, rule.action),
                              !.flow_table = Put(@, rule.key, i)]
        /\ i' = i + 1
        /\ UNCHANGED <<pc, heap, err>>
  /\ UNCHANGED <<call_vars, rule_vars, calls>>

FlowsEnd ==
  /\ pc = "flows" /\ i = Len(arrays.flows)
  /\ pc' = "routes" /\ i' = 0
  /\ UNCHANGED <<call_vars, new, heap, rule_vars, err, calls>>

(* Mutation: routes are numbered from zero. *)
action_index_alone(k) == k

action_index(k) == Len(arrays.flows) + k

(* One turn of the loop over the routes *)
AddRoute ==
  /\ pc = "routes" /\ i < Len(arrays.routes)
  /\ LET rule == arrays.routes[i + 1]
         table == Put(new.route_table, rule.key, action_index(i))
     IN
     \/ ~ RouteAccepted(rule) /\ BuildFails("invalid")
     \/ RouteAccepted(rule) /\ rule.key \in DOMAIN new.route_table /\ BuildFails("exists")
     \/ /\ RouteAccepted(rule) /\ rule.key \notin DOMAIN new.route_table
        /\ IF Cardinality(Tbl8Groups(table)) > NumTbl8
           THEN BuildFails("tbl8")
           ELSE /\ new' = [new EXCEPT !.actions = Put(@, action_index(i), rule.action),
                                      !.route_table = table]
                /\ i' = i + 1
                /\ UNCHANGED <<pc, heap, err>>
  /\ UNCHANGED <<call_vars, rule_vars, calls>>

-----------------------------------------------------------------------------
(* dp_configure_rules and dp_publish_rules around the build *)

(* The first snapshot replaces none and needs no grace period. *)
Exchange ==
  /\ pc = "routes" /\ i = Len(arrays.routes)
  /\ pc' = IF rules_generation = 0 THEN "release" ELSE "grace"
  /\ active_rules' = new /\ old_snapshot' = active_rules
  /\ rules_generation' = new.generation
  /\ published' = Append(published, input)
  /\ new' = NULL /\ i' = 0
  /\ UNCHANGED <<call_vars, heap, freed, err, calls>>

(* The grace period is over. *)
Reclaim ==
  /\ pc = "grace" /\ pc' = "release"
  /\ heap' = dp_snapshot_free(old_snapshot)
  /\ freed' = freed \cup FreedWith(old_snapshot)
  /\ old_snapshot' = NULL
  /\ UNCHANGED <<call_vars, new, i, active_rules, rules_generation, published, err, calls>>

(* The call returns; deferred, ruleArrays.release *)
Release ==
  /\ pc = "release" /\ pc' = "idle"
  /\ allocated' = {} /\ input' = NoInput /\ arrays' = NoRules
  /\ UNCHANGED <<new, i, heap, rule_vars, err, calls>>

dp_rules_teardown ==
  /\ pc = "idle" /\ pc' = "down"
  /\ heap' = dp_snapshot_free(active_rules)
  /\ freed' = freed \cup FreedWith(active_rules)
  /\ active_rules' = NULL
  /\ UNCHANGED <<call_vars, new, i, old_snapshot, rules_generation, published, err, calls>>

Next ==
  \/ LoadRulesFile \/ ReplaceRules \/ NativeCall
  \/ AllocateFlowArray \/ AllocateRouteArray \/ newRuleArraysFails
  \/ BuildBegins \/ Allocate \/ AllocationsEnd \/ AddFlow \/ FlowsEnd \/ AddRoute \/ Exchange
  \/ Reclaim \/ Release \/ dp_rules_teardown

Spec == Init /\ [][Next]_vars

-----------------------------------------------------------------------------
(* What a rules file means, read off its text *)

Octets(number) == <<number \div (Octet * Octet * Octet), (number \div (Octet * Octet)) % Octet,
                    (number \div Octet) % Octet, number % Octet>>

Bit(octets, k) == (octets[(k \div OctetBits) + 1]
                     \div Power2[OctetBits - 1 - (k % OctetBits)]) % 2

TextFlowMatches(d, p) ==
  /\ d.src_ipv4.octets = Octets(p.src_ipv4) /\ d.dst_ipv4.octets = Octets(p.dst_ipv4)
  /\ d.src_port = p.src_port /\ d.dst_port = p.dst_port
  /\ d.protocol = IF p.l4_proto = 6 THEN "tcp" ELSE "udp"

TextRouteMatches(d, p) ==
  \A k \in 0 .. d.prefix.depth - 1 :
    Bit(d.prefix.octets, k) = Bit(Octets(p.dst_ipv4), k)

TextAction(action, d) ==
  /\ action.type = d.type /\ DOMAIN action.rewrite = DOMAIN d.fields
  /\ \A f \in DOMAIN d.fields :
       IF f \in AddressFields THEN Octets(action.rewrite[f]) = d.fields[f].octets
                              ELSE action.rewrite[f] = d.fields[f]

(* The same for rules that are given as numbers *)
FlowMatches(rule, p) == \A f \in DOMAIN rule.key : rule.key[f] = p[f]

RouteMatches(rule, p) == p.dst_ipv4 \div Power2[AddrBits - rule.key.depth]
                           = rule.key.prefix \div Power2[AddrBits - rule.key.depth]

(* The action is the one of the only matching flow, or of the matching      *)
(* route of the greatest depth, or there is none.                           *)
Meant(argument, p, action) ==
  LET text == argument.via = "file"
      flows == argument.rules.flows
      routes == argument.rules.routes
      flow == {j \in DOMAIN flows : IF text THEN TextFlowMatches(flows[j], p)
                                            ELSE FlowMatches(flows[j], p)}
      route == {j \in DOMAIN routes : IF text THEN TextRouteMatches(routes[j], p)
                                              ELSE RouteMatches(routes[j], p)}
      depth(j) == IF text THEN routes[j].prefix.depth ELSE routes[j].key.depth
      given(a) == IF text THEN TextAction(action, a) ELSE action = a
  IN IF flow # {} THEN \E j \in flow : given(flows[j].action)
     ELSE IF route # {} THEN \E j \in route : /\ \A k \in route : depth(k) <= depth(j)
                                            /\ given(routes[j].action)
     ELSE action = Miss

-----------------------------------------------------------------------------
(* Properties *)

(* A packet gets the action its rules file, or its caller, asks for: in the *)
(* active snapshot and, until the grace period ends, in the one it          *)
(* replaces, whatever the calls before it have left behind                  *)
(* (normalizeRules, dp_snapshot_build, dp_lookup_packet).                   *)
VerdictsFollowRules ==
  \A snapshot \in {active_rules, old_snapshot} :
    snapshot # NULL =>
      \A p \in Packets : Meant(published[snapshot.generation], p, dp_lookup_packet(snapshot, p))

(* Between calls the heap holds exactly the objects of the active snapshot  *)
(* and no temporary array; after the teardown it holds nothing, and the     *)
(* flags main prints tell which kinds of objects there ever were.  No table *)
(* is created under a name in use: generations name their tables apart, and *)
(* a failed build gives its names back before its generation is used again. *)
ObjectsOwned ==
  /\ err # "name"
  /\ pc = "idle" => /\ allocated = {}
                    /\ heap = IF active_rules = NULL THEN {}
                              ELSE {<<kind, rules_generation>> :
                                      kind \in Needed(published[rules_generation].rules)}
  /\ pc = "down" => /\ heap = {} /\ allocated = {}
                    /\ freed = UNION {Needed(published[g].rules) : g \in DOMAIN published}

Reserved(rules) == \E kind \in {"flows", "routes"} :
                     \E j \in DOMAIN rules[kind] : rules[kind][j].reserved # 0

(* The checks of rules.go and of dp_snapshot_build are the same: a file     *)
(* that loads is not refused afterwards, dp_snapshot_build refuses nothing  *)
(* for its content that validateRules accepts and accepts nothing that      *)
(* validateRules refuses.                                                   *)
ValidatorsAgree ==
  /\ err = "validate" => input.via # "file"
  /\ pc = "release" /\ err \in {"invalid", "exists", "count"} =>
       ~ validateRules(arrays) \/ Reserved(arrays)
  /\ pc \in {"grace", "release"} /\ err = "none" => validateRules(arrays)

(* A rule set within the documented capacity of 1024 routes fits the route  *)
(* table (dp_snapshot_build, number_tbl8s).                                 *)
RoutesFit == err # "tbl8"
=============================================================================
