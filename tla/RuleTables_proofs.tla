-------------------------- MODULE RuleTables_proofs --------------------------
(***************************************************************************)
(* Proofs about RuleTables, for any width of an octet, any capacities, any *)
(* rules files and arguments and any number of publications: the three     *)
(* validators agree, no table, action store or array is lost, and every    *)
(* packet gets the action that the text of the rules asks for.             *)
(***************************************************************************)
EXTENDS RuleTables, WellFoundedInduction, FiniteSetTheorems, TLAPS

USE DEF action_index, dp_snapshot_free, validateRuleAction

-----------------------------------------------------------------------------
(* Powers of two.  Induction is a statement about sets: a set of numbers    *)
(* that is not everything has a least missing number.                       *)

LEMMA LessThanWellFounded == IsWellFoundedOn({ss \in Nat \X Nat : ss[1] < ss[2]}, Nat)
BY NatLessThanWellFounded DEF OpToRel

LEMMA SetInduction ==
  ASSUME NEW T, 0 \in T, \A n \in Nat : n \in T => n + 1 \in T
  PROVE  Nat \subseteq T
<1> SUFFICES ASSUME Nat \ T # {} PROVE FALSE
  OBVIOUS
<1> DEFINE U == Nat \ T
           R == {ss \in Nat \X Nat : ss[1] < ss[2]}
<1>1. PICK n \in U : \A m \in U : ~ (<<m, n>> \in R)
  <2> HIDE DEF R
  <2>1. IsWellFoundedOn(R, Nat)
    BY LessThanWellFounded DEF R
  <2>2. QED
    BY <2>1, WFMin
<1>2. n \in Nat /\ n # 0 /\ n \notin T
  BY <1>1
<1>3. n - 1 \in Nat /\ n - 1 < n /\ (n - 1) + 1 = n
  BY <1>2
<1>4. <<n - 1, n>> \in R
  BY <1>2, <1>3
<1>5. n - 1 \in T
  BY <1>1, <1>3, <1>4
<1>6. QED
  BY <1>2, <1>3, <1>5

(* f is the table of the powers of two up to n. *)
PowersOf(f, n) == f = [k \in 0 .. n |-> IF k = 0 THEN 1 ELSE 2 * f[k - 1]]

LEMMA PowersExist == \A n \in Nat : \E f : PowersOf(f, n)
<1> DEFINE T == {n \in Nat : \E f : PowersOf(f, n)}
<1>1. 0 \in T
  <2> DEFINE f == [k \in 0 .. 0 |-> 1]
  <2>1. f = [k \in 0 .. 0 |-> IF k = 0 THEN 1 ELSE 2 * f[k - 1]]
    OBVIOUS
  <2>2. PowersOf(f, 0)
    BY <2>1 DEF PowersOf
  <2>3. QED
    BY <2>2
<1>2. ASSUME NEW n \in Nat, n \in T PROVE n + 1 \in T
  <2>1. PICK f : PowersOf(f, n)
    BY <1>2
  <2> DEFINE g == [k \in 0 .. n + 1 |-> IF k = n + 1 THEN 2 * f[n] ELSE f[k]]
             h == [k \in 0 .. n + 1 |-> IF k = 0 THEN 1 ELSE 2 * g[k - 1]]
  <2>2. \A k \in 0 .. n : f[k] = IF k = 0 THEN 1 ELSE 2 * f[k - 1]
    BY <2>1 DEF PowersOf
  <2>3. ASSUME NEW k \in 0 .. n + 1 PROVE g[k] = h[k]
    <3>1. CASE k = n + 1
      <4>1. n \in 0 .. n + 1 /\ k # 0 /\ k - 1 = n /\ n # n + 1
        BY <3>1
      <4>2. g[n] = f[n]
        BY <4>1
      <4>3. QED
        BY <3>1, <4>1, <4>2
    <3>2. CASE k # n + 1
      <4>1. k \in 0 .. n /\ g[k] = f[k]
        BY <3>2
      <4>2. CASE k = 0
        BY <2>2, <4>1, <4>2
      <4>3. CASE k # 0
        <5>1. k - 1 \in 0 .. n + 1 /\ k - 1 # n + 1
          BY <4>1, <4>3
        <5>2. g[k - 1] = f[k - 1]
          BY <5>1
        <5>3. QED
          BY <2>2, <4>1, <4>3, <5>2
      <4>4. QED
        BY <4>2, <4>3
    <3>3. QED
      BY <3>1, <3>2
  <2>4. g = h
    BY <2>3
  <2> HIDE DEF g
  <2>5. PowersOf(g, n + 1)
    BY <2>4 DEF PowersOf
  <2>6. QED
    BY <2>5
<1>3. Nat \subseteq T
  <2> HIDE DEF T
  <2>1. QED
    BY <1>1, <1>2, SetInduction
<1>4. QED
  BY <1>3

LEMMA AddrBitsNat == AddrBits \in Nat /\ OctetBits \in 0 .. AddrBits
BY FormatAssumption DEF AddrBits

LEMMA PowerSteps ==
  /\ Power2[0] = 1
  /\ \A k \in 0 .. AddrBits : k # 0 => Power2[k] = 2 * Power2[k - 1]
<1>1. \E f : PowersOf(f, AddrBits)
  BY PowersExist, AddrBitsNat
<1>2. Power2 = CHOOSE f : PowersOf(f, AddrBits)
  BY DEF Power2, PowersOf
<1>3. PowersOf(Power2, AddrBits)
  BY <1>1, <1>2
<1> DEFINE p == Power2
<1>4. p = [k \in 0 .. AddrBits |-> IF k = 0 THEN 1 ELSE 2 * p[k - 1]]
  BY <1>3 DEF PowersOf
<1> HIDE DEF p
<1>5. \A k \in 0 .. AddrBits : p[k] = IF k = 0 THEN 1 ELSE 2 * p[k - 1]
  BY <1>4
<1>6. p[0] = 1 /\ \A k \in 0 .. AddrBits : k # 0 => p[k] = 2 * p[k - 1]
  BY <1>5, AddrBitsNat
<1>7. QED
  BY <1>6 DEF p

LEMMA PowerPositive == \A k \in 0 .. AddrBits : Power2[k] \in Nat /\ Power2[k] > 0
<1> DEFINE p == Power2
           T == {k \in Nat : k <= AddrBits => p[k] \in Nat /\ p[k] > 0}
<1>0. AddrBits \in Nat
  BY AddrBitsNat
<1>1. 0 \in T
  BY PowerSteps
<1>2. ASSUME NEW n \in Nat, n \in T PROVE n + 1 \in T
  <2>1. CASE n + 1 <= AddrBits
    <3>1. n + 1 \in 0 .. AddrBits /\ n + 1 # 0 /\ (n + 1) - 1 = n /\ n <= AddrBits
      BY <1>0, <2>1
    <3>2. p[n + 1] = 2 * p[n]
      BY <3>1, PowerSteps
    <3>3. p[n] \in Nat /\ p[n] > 0
      BY <1>2, <3>1
    <3> HIDE DEF p
    <3>4. QED
      BY <3>2, <3>3
  <2>2. CASE ~ (n + 1 <= AddrBits)
    BY <2>2
  <2>3. QED
    BY <2>1, <2>2
<1>3. Nat \subseteq T
  <2> HIDE DEF T
  <2>1. QED
    BY <1>1, <1>2, SetInduction
<1>4. QED
  BY <1>0, <1>3

(* What net.ParseCIDR returns has no host bits. *)
LEMMA NetworkOfNetwork ==
  ASSUME NEW number \in Nat, NEW depth \in 0 .. AddrBits
  PROVE  Network(number, depth) \in Nat /\ Network(Network(number, depth), depth) = Network(number, depth)
<1> DEFINE m == Power2[AddrBits - depth]
           x == number - (number % m)
<1>1. m \in Nat /\ m > 0
  <2>1. AddrBits - depth \in 0 .. AddrBits
    BY AddrBitsNat
  <2>2. QED
    BY <2>1, PowerPositive
<1>2. Network(number, depth) = x /\ Network(x, depth) = x - (x % m)
  BY DEF Network
<1> HIDE DEF m
<1>3. x \in Nat /\ x % m = 0
  BY <1>1
<1> HIDE DEF x
<1>4. QED
  BY <1>2, <1>3

-----------------------------------------------------------------------------
(* The three validators *)

LEMMA ActionsAgree ==
  ASSUME NEW action
  PROVE  validateRuleAction(action) <=> dp_validate_action(action)
BY DEF dp_validate_action

LEMMA ParsedActionValid ==
  ASSUME NEW d, ActionParses(d), DOMAIN d.fields \subseteq RewriteFields
  PROVE  validateRuleAction(parseAction(d))
<1>1. parseAction(d).type = d.type /\ RewriteMask(parseAction(d)) = DOMAIN d.fields
  BY DEF parseAction, RewriteMask
<1>2. QED
  BY <1>1 DEF ActionParses

LEMMA AddressNumber ==
  ASSUME NEW text, IsIPv4(text), text.octets \in Seq(Nat)
  PROVE  ipv4Number(text) \in Nat
<1> DEFINE o1 == text.octets[1]
           o2 == text.octets[2]
           o3 == text.octets[3]
           o4 == text.octets[4]
<1>1. o1 \in Nat /\ o2 \in Nat /\ o3 \in Nat /\ o4 \in Nat
  BY DEF IsIPv4
<1>2. Octet \in Nat
  BY AddrBitsNat, PowerPositive DEF Octet
<1>3. ipv4Number(text) = ((o1 * Octet + o2) * Octet + o3) * Octet + o4
  BY DEF ipv4Number
<1> HIDE DEF o1, o2, o3, o4
<1>4. o1 * Octet + o2 \in Nat
  BY <1>1, <1>2
<1>5. (o1 * Octet + o2) * Octet + o3 \in Nat
  BY <1>1, <1>2, <1>4
<1>6. ((o1 * Octet + o2) * Octet + o3) * Octet + o4 \in Nat
  BY <1>1, <1>2, <1>5
<1>7. QED
  BY <1>3, <1>6

(* A function with the domain of an array is an array of the same length. *)
LEMMA MappedArray ==
  ASSUME NEW list, IsArray(list), NEW map, map = [j \in DOMAIN list |-> map[j]]
  PROVE  IsArray(map) /\ Len(map) = Len(list) /\ DOMAIN map = 1 .. Len(list)
<1> DEFINE S == {list[j] : j \in DOMAIN list}
           T == {map[j] : j \in DOMAIN map}
<1>1. list \in Seq(S)
  BY DEF IsArray
<1>2. DOMAIN list = 1 .. Len(list) /\ Len(list) \in Nat
  BY <1>1
<1>3. DOMAIN map = 1 .. Len(list) /\ map = [j \in 1 .. Len(list) |-> map[j]]
  BY <1>2
<1>4. \A j \in 1 .. Len(list) : map[j] \in T
  BY <1>3
<1> HIDE DEF T
<1>5. map \in Seq(T)
  BY <1>2, <1>3, <1>4
<1>6. Len(map) = Len(list)
  BY <1>2, <1>3, <1>5
<1>7. IsArray(map)
  BY <1>5 DEF IsArray, T
<1>8. QED
  BY <1>3, <1>6, <1>7

(* What normalizeRules returns, validateRules accepts. *)
LEMMA LoadedRulesValid ==
  ASSUME NEW d \in Documents, normalizeRules(d)
  PROVE  validateRules(Normalized(d))
<1> DEFINE flows == [j \in DOMAIN d.flows |-> ParsedFlow(d.flows[j])]
           routes == [j \in DOMAIN d.routes |-> ParsedRoute(d.routes[j])]
<1>1. Normalized(d).flows = flows /\ Normalized(d).routes = routes
  BY DEF Normalized
<1>2. IsArray(d.flows) /\ IsArray(d.routes)
  BY InputAssumption
<1>3. Len(flows) = Len(d.flows)
  <2>1. flows = [j \in DOMAIN d.flows |-> flows[j]]
    OBVIOUS
  <2> HIDE DEF flows
  <2>2. QED
    BY <1>2, <2>1, MappedArray
<1>4. Len(routes) = Len(d.routes)
  <2>1. routes = [j \in DOMAIN d.routes |-> routes[j]]
    OBVIOUS
  <2> HIDE DEF routes
  <2>2. QED
    BY <1>2, <2>1, MappedArray
<1>5. ASSUME NEW j \in DOMAIN flows
      PROVE  flows[j].key.l4_proto \in {6, 17} /\ validateRuleAction(flows[j].action)
  <2>1. FlowParses(d.flows[j]) /\ DOMAIN d.flows[j].action.fields \subseteq RewriteFields
    BY InputAssumption DEF normalizeRules, IsTextAction, IsText
  <2>2. /\ flows[j].key.l4_proto = parseProtocol(d.flows[j].protocol)
        /\ flows[j].action = parseAction(d.flows[j].action)
    BY DEF ParsedFlow
  <2>3. parseProtocol(d.flows[j].protocol) \in {6, 17}
    BY <2>1 DEF FlowParses, parseProtocol
  <2>4. validateRuleAction(parseAction(d.flows[j].action))
    BY <2>1, ParsedActionValid DEF FlowParses
  <2> HIDE DEF flows
  <2>5. QED
    BY <2>2, <2>3, <2>4
<1>6. ASSUME NEW j \in DOMAIN routes
      PROVE  /\ routes[j].key.depth \in 1 .. AddrBits
             /\ Network(routes[j].key.prefix, routes[j].key.depth) = routes[j].key.prefix
             /\ validateRuleAction(routes[j].action)
  <2> DEFINE r == d.routes[j]
  <2>1. /\ RouteParses(r) /\ DOMAIN r.action.fields \subseteq RewriteFields
        /\ r.prefix.octets \in Seq(Nat)
    BY InputAssumption DEF normalizeRules, IsTextAction, IsText
  <2>2. /\ routes[j].key.depth = r.prefix.depth /\ routes[j].key.prefix = ParsedPrefix(r.prefix)
        /\ routes[j].action = parseAction(r.action)
    BY DEF ParsedRoute
  <2> HIDE DEF r, routes
  <2>3. r.prefix.depth \in 1 .. AddrBits /\ r.prefix.depth \in 0 .. AddrBits
    BY <2>1, AddrBitsNat DEF RouteParses
  <2>4. ipv4Number(r.prefix) \in Nat
    BY <2>1, AddressNumber DEF RouteParses
  <2>5. Network(ParsedPrefix(r.prefix), r.prefix.depth) = ParsedPrefix(r.prefix)
    BY <2>3, <2>4, NetworkOfNetwork DEF ParsedPrefix
  <2>6. validateRuleAction(parseAction(r.action))
    BY <2>1, ParsedActionValid DEF RouteParses
  <2>7. QED
    BY <2>2, <2>3, <2>5, <2>6
<1>7. /\ Len(d.flows) <= MaxFlowRules /\ Len(d.routes) <= MaxRouteRules
      /\ NoTwins(flows) /\ NoTwins(routes)
  BY <1>1 DEF normalizeRules
<1> HIDE DEF flows, routes
<1>8. QED
  BY <1>1, <1>3, <1>4, <1>5, <1>6, <1>7 DEF validateRules

(* The first n rules of a list have passed the checks of dp_snapshot_build, *)
(* and no two of them have the same key.                                    *)
FlowsBuilt(flows, n) ==
  /\ \A j \in 1 .. n : FlowAccepted(flows[j])
  /\ \A j, k \in 1 .. n : flows[j].key = flows[k].key => j = k

RoutesBuilt(routes, n) ==
  /\ \A j \in 1 .. n : RouteAccepted(routes[j])
  /\ \A j, k \in 1 .. n : routes[j].key = routes[k].key => j = k

(* What dp_snapshot_build is given: arrays, with unsigned depths *)
IsArrays(rules) == /\ IsArray(rules.flows) /\ IsArray(rules.routes)
                   /\ \A j \in DOMAIN rules.routes : rules.routes[j].key.depth \in Nat

LEMMA ArrayDomain ==
  ASSUME NEW list, IsArray(list)
  PROVE  DOMAIN list = 1 .. Len(list) /\ Len(list) \in Nat
<1> DEFINE S == {list[j] : j \in DOMAIN list}
<1>1. list \in Seq(S)
  BY DEF IsArray
<1> HIDE DEF S
<1>2. QED
  BY <1>1

LEMMA BuiltRulesValid ==
  ASSUME NEW rules, IsArrays(rules),
         Len(rules.flows) <= MaxFlowRules, Len(rules.routes) <= MaxRouteRules,
         FlowsBuilt(rules.flows, Len(rules.flows)), RoutesBuilt(rules.routes, Len(rules.routes))
  PROVE  validateRules(rules)
<1>1. DOMAIN rules.flows = 1 .. Len(rules.flows) /\ DOMAIN rules.routes = 1 .. Len(rules.routes)
  BY ArrayDomain DEF IsArrays
<1>2. \A j \in DOMAIN rules.flows : /\ rules.flows[j].key.l4_proto \in {6, 17}
                                     /\ validateRuleAction(rules.flows[j].action)
  BY <1>1, ActionsAgree DEF FlowsBuilt, FlowAccepted
<1>3. ASSUME NEW j \in DOMAIN rules.routes
      PROVE  /\ rules.routes[j].key.depth \in 1 .. AddrBits
             /\ Network(rules.routes[j].key.prefix, rules.routes[j].key.depth)
                  = rules.routes[j].key.prefix
             /\ validateRuleAction(rules.routes[j].action)
  <2>1. RouteAccepted(rules.routes[j]) /\ rules.routes[j].key.depth \in Nat
    BY <1>1 DEF RoutesBuilt, IsArrays
  <2>2. rules.routes[j].key.depth \in 1 .. AddrBits
    BY <2>1, AddrBitsNat DEF RouteAccepted
  <2>3. QED
    BY <2>1, <2>2, ActionsAgree DEF RouteAccepted
<1>4. NoTwins(rules.flows) /\ NoTwins(rules.routes)
  BY <1>1 DEF NoTwins, FlowsBuilt, RoutesBuilt
<1>5. QED
  BY <1>2, <1>3, <1>4 DEF validateRules

(* A rule that dp_snapshot_build refuses is one that validateRules refuses, *)
(* or has reserved bytes that are not zero.                                 *)
LEMMA RefusedRulesInvalid ==
  ASSUME NEW rules, IsArrays(rules)
  PROVE  /\ \A j \in DOMAIN rules.flows :
              ~ FlowAccepted(rules.flows[j]) => ~ validateRules(rules) \/ Reserved(rules)
         /\ \A j \in DOMAIN rules.routes :
              ~ RouteAccepted(rules.routes[j]) => ~ validateRules(rules) \/ Reserved(rules)
         /\ \A j, k \in DOMAIN rules.flows :
              j # k /\ rules.flows[j].key = rules.flows[k].key => ~ validateRules(rules)
         /\ \A j, k \in DOMAIN rules.routes :
              j # k /\ rules.routes[j].key = rules.routes[k].key => ~ validateRules(rules)
<1>1. ASSUME NEW j \in DOMAIN rules.flows, validateRules(rules), ~ Reserved(rules)
      PROVE  FlowAccepted(rules.flows[j])
  <2>1. rules.flows[j].reserved = 0
    BY <1>1 DEF Reserved
  <2>2. QED
    BY <1>1, <2>1, ActionsAgree DEF validateRules, FlowAccepted
<1>2. ASSUME NEW j \in DOMAIN rules.routes, validateRules(rules), ~ Reserved(rules)
      PROVE  RouteAccepted(rules.routes[j])
  <2>1. rules.routes[j].reserved = 0
    BY <1>2 DEF Reserved
  <2>2. rules.routes[j].key.depth \in 1 .. AddrBits
    BY <1>2 DEF validateRules
  <2>3. rules.routes[j].key.depth # 0 /\ rules.routes[j].key.depth <= AddrBits
    BY <2>2, AddrBitsNat
  <2>4. QED
    BY <1>2, <2>1, <2>3, ActionsAgree DEF validateRules, RouteAccepted
<1>3. validateRules(rules) => NoTwins(rules.flows) /\ NoTwins(rules.routes)
  BY DEF validateRules
<1>4. QED
  BY <1>1, <1>2, <1>3 DEF NoTwins

-----------------------------------------------------------------------------
(* The inductive invariant *)

Calling == {"arrays", "route_array", "build"}
Building == {"allocate", "flows", "routes"}
Points == {"idle", "down", "grace", "release"} \cup Calling \cup Building

Arguments == Documents \cup Snapshots \cup NativeArrays \cup {NoRules}
Inputs == [via : {"file", "api", "native"}, rules : Arguments]

IsSnapshot(s) == s = [generation |-> s.generation, actions |-> s.actions,
                      flow_table |-> s.flow_table, route_table |-> s.route_table]

TablesTypeOK ==
  /\ pc \in Points /\ rules_generation \in Nat /\ i \in Nat
  /\ input \in Inputs /\ IsArrays(arrays)
  /\ published \in Seq(Inputs) /\ Len(published) = rules_generation

(* The arrays of a call have as many rules as its argument. *)
CallInv ==
  /\ pc \in Calling \cup Building => /\ Len(arrays.flows) = Len(input.rules.flows)
                                     /\ Len(arrays.routes) = Len(input.rules.routes)
  /\ pc \in {"idle", "arrays", "down"} => allocated = {}
  /\ pc = "route_array" => allocated \subseteq {"flows"}

(* The snapshot under construction has the next generation, the one that    *)
(* packets follow the last one.                                             *)
SnapshotInv ==
  /\ pc \notin Building => new = NULL /\ i = 0
  /\ pc \in Building => IsSnapshot(new) /\ new.generation = rules_generation + 1
  /\ pc = "allocate" => i <= Len(Kinds)
  /\ IF rules_generation = 0 \/ pc = "down" THEN active_rules = NULL
     ELSE active_rules.generation = rules_generation
  /\ pc = "grace" => rules_generation >= 2 /\ old_snapshot.generation = rules_generation - 1
  /\ pc # "grace" => old_snapshot = NULL

(* The objects of a published generation, and those of the snapshot under   *)
(* construction after n allocations                                         *)
Objects(g) == {<<kind, g>> : kind \in Needed(published[g].rules)}
BuiltKinds(n) == {Kinds[k] : k \in 1 .. n} \cap Needed(arrays)
Built(n) == {<<kind, new.generation>> : kind \in BuiltKinds(n)}
ActiveObjects == IF rules_generation = 0 THEN {} ELSE Objects(rules_generation)

(* The generations whose objects are freed *)
Past == CASE pc = "grace" -> rules_generation - 2
          [] pc = "down" -> rules_generation
          [] OTHER -> rules_generation - 1

HeapInv ==
  /\ err # "name"
  /\ heap = CASE pc = "allocate" -> ActiveObjects \cup Built(i)
              [] pc \in {"flows", "routes"} -> ActiveObjects \cup Built(Len(Kinds))
              [] pc = "grace" -> Objects(rules_generation) \cup Objects(rules_generation - 1)
              [] pc = "down" -> {}
              [] OTHER -> ActiveObjects
  /\ freed = UNION {Needed(published[g].rules) : g \in 1 .. Past}

Keys(list, n) == {list[j].key : j \in 1 .. n}

(* How far dp_snapshot_build has checked the rules *)
BuildInv ==
  /\ pc \in Calling \cup Building \cup {"grace"} => err = "none"
  /\ pc \in Building => /\ Len(arrays.flows) <= MaxFlowRules
                        /\ Len(arrays.routes) <= MaxRouteRules
  /\ pc = "allocate" => DOMAIN new.flow_table = {}
  /\ pc \in {"allocate", "flows"} => DOMAIN new.route_table = {}
  /\ pc = "flows" => /\ i <= Len(arrays.flows) /\ FlowsBuilt(arrays.flows, i)
                     /\ DOMAIN new.flow_table = Keys(arrays.flows, i)
  /\ pc = "routes" => /\ i <= Len(arrays.routes)
                      /\ FlowsBuilt(arrays.flows, Len(arrays.flows))
                      /\ RoutesBuilt(arrays.routes, i)
                      /\ DOMAIN new.route_table = Keys(arrays.routes, i)

TablesInv == TablesTypeOK /\ CallInv /\ SnapshotInv /\ HeapInv /\ BuildInv /\ ValidatorsAgree

-----------------------------------------------------------------------------
(* Facts that several steps need *)

LEMMA EmptyArrays == IsArrays(NoRules) /\ Len(NoRules.flows) = 0 /\ Len(NoRules.routes) = 0
<1>1. IsArray(<<>>)
  BY DEF IsArray
<1>2. NoRules.flows = <<>> /\ NoRules.routes = <<>>
  BY DEF NoRules
<1>3. QED
  BY <1>1, <1>2 DEF IsArrays

LEMMA NoInputTyped == NoInput \in Inputs
BY DEF NoInput, Inputs, Arguments

(* Equal numbers of rules need the same kinds of objects. *)
LEMMA NeededByLength ==
  ASSUME NEW a, NEW b, Len(a.flows) = Len(b.flows), Len(a.routes) = Len(b.routes)
  PROVE  Needed(a) = Needed(b)
BY DEF Needed, ActionCount

(* The C arrays of accepted rules *)
LEMMA SubmittedArrays ==
  ASSUME NEW rules, IsArray(rules.flows), IsArray(rules.routes), validateRules(rules),
         Submit(rules)
  PROVE  /\ IsArrays(arrays') /\ Len(arrays'.flows) = Len(rules.flows)
         /\ Len(arrays'.routes) = Len(rules.routes) /\ pc' = "arrays" /\ err' = "none"
<1> DEFINE flows == [j \in DOMAIN rules.flows |-> dp_rule_set(rules.flows[j])]
           routes == [j \in DOMAIN rules.routes |-> dp_rule_set(rules.routes[j])]
<1>1. IsArray(flows) /\ Len(flows) = Len(rules.flows)
  <2>1. flows = [j \in DOMAIN rules.flows |-> flows[j]]
    OBVIOUS
  <2> HIDE DEF flows
  <2>2. QED
    BY <2>1, MappedArray
<1>2. IsArray(routes) /\ Len(routes) = Len(rules.routes)
  <2>1. routes = [j \in DOMAIN rules.routes |-> routes[j]]
    OBVIOUS
  <2> HIDE DEF routes
  <2>2. QED
    BY <2>1, MappedArray
<1>3. arrays'.flows = flows /\ arrays'.routes = routes /\ pc' = "arrays" /\ err' = "none"
  BY DEF Submit
<1>4. ASSUME NEW j \in DOMAIN routes PROVE routes[j].key.depth \in Nat
  <2>1. routes[j].key = rules.routes[j].key
    BY DEF dp_rule_set
  <2>2. rules.routes[j].key.depth \in 1 .. AddrBits
    BY DEF validateRules
  <2> HIDE DEF routes
  <2>3. QED
    BY <2>1, <2>2, AddrBitsNat
<1> HIDE DEF flows, routes
<1>5. QED
  BY <1>1, <1>2, <1>3, <1>4 DEF IsArrays

LEMMA NormalizedArrays ==
  ASSUME NEW d \in Documents
  PROVE  /\ IsArray(Normalized(d).flows) /\ Len(Normalized(d).flows) = Len(d.flows)
         /\ IsArray(Normalized(d).routes) /\ Len(Normalized(d).routes) = Len(d.routes)
<1> DEFINE flows == [j \in DOMAIN d.flows |-> ParsedFlow(d.flows[j])]
           routes == [j \in DOMAIN d.routes |-> ParsedRoute(d.routes[j])]
<1>1. IsArray(d.flows) /\ IsArray(d.routes)
  BY InputAssumption
<1>2. IsArray(flows) /\ Len(flows) = Len(d.flows)
  <2>1. flows = [j \in DOMAIN d.flows |-> flows[j]]
    OBVIOUS
  <2> HIDE DEF flows
  <2>2. QED
    BY <1>1, <2>1, MappedArray
<1>3. IsArray(routes) /\ Len(routes) = Len(d.routes)
  <2>1. routes = [j \in DOMAIN d.routes |-> routes[j]]
    OBVIOUS
  <2> HIDE DEF routes
  <2>2. QED
    BY <1>1, <2>1, MappedArray
<1>4. Normalized(d).flows = flows /\ Normalized(d).routes = routes
  BY DEF Normalized
<1> HIDE DEF flows, routes
<1>5. QED
  BY <1>2, <1>3, <1>4

(* What a call begins with *)
LEMMA CallSubmits ==
  ASSUME LoadRulesFile \/ ReplaceRules \/ NativeCall
  PROVE  /\ input' \in Inputs
         /\ \/ /\ pc' = "release" /\ UNCHANGED arrays
               /\ err' = "parse" \/ (err' = "validate" /\ input'.via # "file")
            \/ /\ pc' \in {"arrays", "build"} /\ err' = "none" /\ IsArrays(arrays')
               /\ Len(arrays'.flows) = Len(input'.rules.flows)
               /\ Len(arrays'.routes) = Len(input'.rules.routes)
<1>1. CASE LoadRulesFile
  <2>1. PICK d \in Documents :
          /\ input' = [via |-> "file", rules |-> d]
          /\ \/ ~ normalizeRules(d) /\ Refuse("parse")
             \/ /\ normalizeRules(d)
                /\ IF validateRules(Normalized(d)) THEN Submit(Normalized(d))
                                                   ELSE Refuse("validate")
    BY <1>1 DEF LoadRulesFile
  <2>2. input' \in Inputs /\ input'.rules = d
    BY <2>1 DEF Inputs, Arguments
  <2>3. CASE Refuse("parse")
    BY <2>2, <2>3 DEF Refuse
  <2>4. CASE normalizeRules(d)
    <3>1. validateRules(Normalized(d))
      BY <2>4, LoadedRulesValid
    <3>2. Submit(Normalized(d))
      BY <2>1, <2>4, <3>1
    <3>3. /\ IsArray(Normalized(d).flows) /\ Len(Normalized(d).flows) = Len(d.flows)
          /\ IsArray(Normalized(d).routes) /\ Len(Normalized(d).routes) = Len(d.routes)
      BY NormalizedArrays
    <3>4. /\ IsArrays(arrays') /\ Len(arrays'.flows) = Len(d.flows)
          /\ Len(arrays'.routes) = Len(d.routes) /\ pc' = "arrays" /\ err' = "none"
      BY <3>1, <3>2, <3>3, SubmittedArrays
    <3>5. QED
      BY <2>2, <3>4
  <2>5. QED
    BY <2>1, <2>3, <2>4
<1>2. CASE ReplaceRules
  <2>1. PICK rules \in Snapshots :
          /\ input' = [via |-> "api", rules |-> rules]
          /\ IF validateRules(rules) THEN Submit(rules) ELSE Refuse("validate")
    BY <1>2 DEF ReplaceRules
  <2>2. input' \in Inputs /\ input'.rules = rules /\ input'.via # "file"
    BY <2>1 DEF Inputs, Arguments
  <2>3. CASE ~ validateRules(rules)
    BY <2>1, <2>2, <2>3 DEF Refuse
  <2>4. CASE validateRules(rules)
    <3>1. IsArray(rules.flows) /\ IsArray(rules.routes) /\ Submit(rules)
      BY <2>1, <2>4, InputAssumption
    <3>2. /\ IsArrays(arrays') /\ Len(arrays'.flows) = Len(rules.flows)
          /\ Len(arrays'.routes) = Len(rules.routes) /\ pc' = "arrays" /\ err' = "none"
      BY <2>4, <3>1, SubmittedArrays
    <3>3. QED
      BY <2>2, <3>2
  <2>5. QED
    BY <2>3, <2>4
<1>3. CASE NativeCall
  <2>1. PICK rules \in NativeArrays :
          /\ pc' = "build" /\ err' = "none" /\ arrays' = rules
          /\ input' = [via |-> "native", rules |-> rules]
    BY <1>3 DEF NativeCall
  <2>2. input' \in Inputs /\ input'.rules = rules
    BY <2>1 DEF Inputs, Arguments
  <2>3. IsArrays(rules)
    BY InputAssumption DEF IsArrays, RouteKeys
  <2>4. QED
    BY <2>1, <2>2, <2>3
<1>4. QED
  BY <1>1, <1>2, <1>3

(* Freeing a snapshot leaves the objects of the others. *)
LEMMA FreeSnapshot ==
  ASSUME NEW s, NEW N, NEW R, heap = {<<kind, s.generation>> : kind \in N} \cup R,
         \A object \in R : object[2] # s.generation
  PROVE  dp_snapshot_free(s) = R /\ FreedWith(s) = N
<1> DEFINE M == {<<kind, s.generation>> : kind \in N}
<1>1. \A object \in M : object[2] = s.generation
  OBVIOUS
<1>2. dp_snapshot_free(s) = R
  BY <1>1
<1>3. heap \ R = M
  BY <1>1
<1>4. {object[1] : object \in M} = N
  <2>1. ASSUME NEW kind \in N PROVE \E object \in M : kind = object[1]
    <3>1. <<kind, s.generation>> \in M /\ kind = <<kind, s.generation>>[1]
      OBVIOUS
    <3>2. QED
      BY <3>1
  <2>2. ASSUME NEW object \in M PROVE object[1] \in N
    OBVIOUS
  <2> HIDE DEF M
  <2>3. QED
    BY <2>1, <2>2
<1>5. FreedWith(s) = N
  BY <1>2, <1>3, <1>4 DEF FreedWith
<1>6. QED
  BY <1>2, <1>5

LEMMA ActiveGeneration ==
  \A object \in ActiveObjects : object[2] = rules_generation
BY DEF ActiveObjects, Objects

(* Every kind of object has been allocated after the four allocations. *)
LEMMA AllBuilt == BuiltKinds(Len(Kinds)) = Needed(arrays) /\ Len(Kinds) = 4
<1>1. Len(Kinds) = 4 /\ {"snapshot", "actions", "flow_table", "route_table"}
                        = {Kinds[k] : k \in 1 .. 4}
  BY DEF Kinds
<1>2. Needed(arrays) \subseteq {"snapshot", "actions", "flow_table", "route_table"}
  BY DEF Needed
<1>3. QED
  BY <1>1, <1>2 DEF BuiltKinds

(* Between the builds the heap belongs to the active snapshot. *)
Quiet == {"idle", "arrays", "route_array", "build", "release"}

LEMMA QuietHeap ==
  ASSUME HeapInv, pc \in Quiet, pc' \in Quiet, err' # "name",
         UNCHANGED <<heap, freed, published, rules_generation>>
  PROVE  HeapInv'
<1>1. UNCHANGED ActiveObjects
  BY DEF ActiveObjects, Objects
<1>2. heap = ActiveObjects /\ freed = UNION {Needed(published[g].rules) :
                                               g \in 1 .. rules_generation - 1}
  BY DEF HeapInv, Quiet, Past
<1>3. QED
  BY <1>1, <1>2 DEF HeapInv, Quiet, Past

LEMMA QuietSnapshots ==
  ASSUME SnapshotInv, pc \in Quiet, pc' \in Quiet,
         UNCHANGED <<new, i, active_rules, old_snapshot, rules_generation>>
  PROVE  SnapshotInv'
BY DEF SnapshotInv, Quiet, Building

LEMMA CallKeeps ==
  ASSUME TablesInv, LoadRulesFile \/ ReplaceRules \/ NativeCall
  PROVE  TablesInv'
<1>1. /\ pc = "idle"
      /\ UNCHANGED <<allocated, new, i, heap, active_rules, old_snapshot, rules_generation,
                     freed, published>>
  BY DEF LoadRulesFile, ReplaceRules, NativeCall, CallBegins, rule_vars
<1>2. /\ input' \in Inputs
      /\ \/ /\ pc' = "release" /\ UNCHANGED arrays
            /\ err' = "parse" \/ (err' = "validate" /\ input'.via # "file")
         \/ /\ pc' \in {"arrays", "build"} /\ err' = "none" /\ IsArrays(arrays')
            /\ Len(arrays'.flows) = Len(input'.rules.flows)
            /\ Len(arrays'.routes) = Len(input'.rules.routes)
  BY CallSubmits
<1>3. pc \in Quiet /\ pc' \in Quiet /\ err' # "name"
  BY <1>1, <1>2 DEF Quiet
<1>4. TablesTypeOK'
  BY <1>1, <1>2 DEF TablesInv, TablesTypeOK, Points, Calling
<1>5. CallInv'
  BY <1>1, <1>2 DEF TablesInv, CallInv, Calling, Building
<1>6. SnapshotInv'
  BY <1>1, <1>3, QuietSnapshots DEF TablesInv
<1>7. HeapInv'
  BY <1>1, <1>3, QuietHeap DEF TablesInv
<1>8. BuildInv'
  BY <1>2 DEF BuildInv, Calling, Building
<1>9. ValidatorsAgree'
  BY <1>2 DEF ValidatorsAgree
<1>10. QED
  BY <1>4, <1>5, <1>6, <1>7, <1>8, <1>9 DEF TablesInv

(* The temporary arrays come and go. *)
ArraysStep == AllocateFlowArray \/ AllocateRouteArray \/ newRuleArraysFails

LEMMA ArraysKeep ==
  ASSUME TablesInv, ArraysStep \/ Release
  PROVE  TablesInv'
<1>1. UNCHANGED <<new, i, heap, active_rules, old_snapshot, rules_generation, freed, published>>
  BY DEF ArraysStep, AllocateFlowArray, AllocateRouteArray, newRuleArraysFails, Release,
     rule_vars
<1>2. \/ /\ pc = "arrays" /\ pc' = "route_array" /\ UNCHANGED <<input, arrays, err>>
         /\ allocated' \subseteq {"flows"}
      \/ /\ pc = "route_array" /\ pc' = "build" /\ UNCHANGED <<input, arrays, err>>
      \/ /\ pc \in {"arrays", "route_array", "release"} /\ pc' = "idle" /\ input' = NoInput
         /\ arrays' = NoRules /\ err' \in {err, "nomem", "count"}
         /\ pc = "arrays" => UNCHANGED allocated
         /\ pc = "route_array" => allocated' = allocated \ {"flows"}
         /\ pc = "release" => allocated' = {}
  BY DEF ArraysStep, AllocateFlowArray, AllocateRouteArray, newRuleArraysFails, Release
<1>3. TablesTypeOK /\ CallInv /\ HeapInv /\ BuildInv /\ ValidatorsAgree
  BY DEF TablesInv
<1>4. pc \in Quiet /\ pc' \in Quiet /\ err' # "name"
  BY <1>2, <1>3 DEF Quiet, HeapInv
<1>5. TablesTypeOK'
  BY <1>1, <1>2, <1>3, EmptyArrays, NoInputTyped DEF TablesTypeOK, Points, Calling
<1>6. CallInv'
  BY <1>2, <1>3 DEF CallInv, Calling, Building
<1>7. SnapshotInv'
  BY <1>1, <1>4, QuietSnapshots DEF TablesInv
<1>8. HeapInv'
  BY <1>1, <1>3, <1>4, QuietHeap
<1>9. BuildInv'
  BY <1>2, <1>3 DEF BuildInv, Calling, Building
<1>10. ValidatorsAgree'
  <2>1. NoInput.via # "file"
    BY DEF NoInput
  <2>2. QED
    BY <1>2, <1>3, <2>1 DEF ValidatorsAgree
<1>11. QED
  BY <1>5, <1>6, <1>7, <1>8, <1>9, <1>10 DEF TablesInv

-----------------------------------------------------------------------------
(* dp_snapshot_build *)

LEMMA BuildBeginsKeeps ==
  ASSUME TablesInv, BuildBegins
  PROVE  TablesInv'
<1>1. TablesTypeOK /\ CallInv /\ SnapshotInv /\ HeapInv /\ BuildInv /\ ValidatorsAgree
  BY DEF TablesInv
<1>2. /\ pc = "build"
      /\ UNCHANGED <<input, arrays, allocated, i, heap, active_rules, old_snapshot,
                     rules_generation, freed, published>>
  BY DEF BuildBegins, call_vars, rule_vars
<1>3. /\ i = 0 /\ new = NULL /\ err = "none" /\ old_snapshot = NULL
  BY <1>1, <1>2 DEF SnapshotInv, BuildInv, Building, Calling
<1>4. CASE Len(arrays.flows) > MaxFlowRules \/ Len(arrays.routes) > MaxRouteRules
  <2>1. pc' = "release" /\ err' = "count" /\ UNCHANGED new
    BY <1>4 DEF BuildBegins
  <2>2. pc \in Quiet /\ pc' \in Quiet /\ err' # "name"
    BY <1>2, <2>1 DEF Quiet
  <2>3. TablesTypeOK' /\ CallInv' /\ BuildInv'
    BY <1>1, <1>2, <2>1 DEF TablesTypeOK, CallInv, BuildInv, Points, Calling, Building
  <2>4. SnapshotInv' /\ HeapInv'
    BY <1>1, <1>2, <2>1, <2>2, QuietSnapshots, QuietHeap
  <2>5. ~ validateRules(arrays)
    <3>1. Len(arrays.flows) \in Nat /\ Len(arrays.routes) \in Nat
      BY <1>1, ArrayDomain DEF TablesTypeOK, IsArrays
    <3>2. ~ (Len(arrays.flows) <= MaxFlowRules /\ Len(arrays.routes) <= MaxRouteRules)
      BY <1>4, <3>1, FormatAssumption
    <3>3. QED
      BY <3>2 DEF validateRules
  <2>6. ValidatorsAgree'
    BY <1>2, <2>1, <2>5 DEF ValidatorsAgree
  <2>7. QED
    BY <2>3, <2>4, <2>6 DEF TablesInv
<1>5. CASE ~ (Len(arrays.flows) > MaxFlowRules \/ Len(arrays.routes) > MaxRouteRules)
  <2>1. pc' = "allocate" /\ new' = Snapshot(rules_generation + 1) /\ UNCHANGED err
    BY <1>5 DEF BuildBegins, NextGeneration
  <2>2. Len(arrays.flows) <= MaxFlowRules /\ Len(arrays.routes) <= MaxRouteRules
    <3>1. Len(arrays.flows) \in Nat /\ Len(arrays.routes) \in Nat
      BY <1>1, ArrayDomain DEF TablesTypeOK, IsArrays
    <3>2. QED
      BY <1>5, <3>1, FormatAssumption
  <2>3. TablesTypeOK' /\ CallInv'
    BY <1>1, <1>2, <2>1 DEF TablesTypeOK, CallInv, Points, Calling, Building
  <2>4. /\ IsSnapshot(new') /\ new'.generation = rules_generation + 1
        /\ DOMAIN new'.flow_table = {} /\ DOMAIN new'.route_table = {}
    BY <2>1 DEF IsSnapshot, Snapshot, NoTable
  <2>5. SnapshotInv'
    <3>1. i' <= Len(Kinds)
      BY <1>2, <1>3, AllBuilt
    <3>2. QED
      BY <1>1, <1>2, <1>3, <2>1, <2>4, <3>1 DEF SnapshotInv, Building
  <2>6. HeapInv'
    <3>1. UNCHANGED ActiveObjects /\ Built(i)' = {}
      BY <1>2, <1>3 DEF ActiveObjects, Objects, Built, BuiltKinds
    <3>2. heap' = ActiveObjects'
      BY <1>1, <1>2, <3>1 DEF HeapInv
    <3>3. freed' = UNION {Needed(published'[g].rules) : g \in 1 .. rules_generation' - 1}
      BY <1>1, <1>2 DEF HeapInv, Past
    <3>4. QED
      BY <1>3, <2>1, <3>1, <3>2, <3>3 DEF HeapInv, Past
  <2>7. BuildInv'
    BY <1>2, <1>3, <2>1, <2>2, <2>4 DEF BuildInv, Calling, Building
  <2>8. ValidatorsAgree'
    BY <1>2, <1>3, <2>1 DEF ValidatorsAgree
  <2>9. QED
    BY <2>3, <2>5, <2>6, <2>7, <2>8 DEF TablesInv
<1>6. QED
  BY <1>4, <1>5

(* The heap while a snapshot is built *)
LEMMA BuildHeap ==
  ASSUME TablesInv, pc \in Building
  PROVE  /\ \E n \in Nat : heap = ActiveObjects \cup Built(n)
         /\ \A object \in ActiveObjects : object[2] # new.generation
         /\ dp_snapshot_free(new) = ActiveObjects
<1>1. PICK n \in Nat : heap = ActiveObjects \cup Built(n)
  <2>1. Len(Kinds) \in Nat /\ i \in Nat
    BY AllBuilt DEF TablesInv, TablesTypeOK
  <2>2. QED
    BY <2>1 DEF TablesInv, HeapInv, Building
<1>2. \A object \in ActiveObjects : object[2] # new.generation
  <2>1. new.generation = rules_generation + 1 /\ rules_generation \in Nat
    BY DEF TablesInv, SnapshotInv, TablesTypeOK
  <2>2. QED
    BY <2>1, ActiveGeneration
<1>3. heap = {<<kind, new.generation>> : kind \in BuiltKinds(n)} \cup ActiveObjects
  BY <1>1 DEF Built
<1>4. dp_snapshot_free(new) = ActiveObjects
  BY <1>2, <1>3, FreeSnapshot
<1>5. QED
  BY <1>1, <1>2, <1>4

(* The label fail gives everything back. *)
LEMMA BuildFailsKeeps ==
  ASSUME TablesInv, pc \in Building, NEW why, BuildFails(why),
         why \in {"nomem", "hash_full", "tbl8", "invalid", "exists"},
         why \in {"invalid", "exists"} => ~ validateRules(arrays) \/ Reserved(arrays),
         UNCHANGED <<call_vars, rule_vars>>
  PROVE  TablesInv'
<1>1. TablesTypeOK /\ CallInv /\ SnapshotInv /\ HeapInv
  BY DEF TablesInv
<1>2. /\ pc' = "release" /\ err' = why /\ heap' = ActiveObjects /\ new' = NULL /\ i' = 0
      /\ UNCHANGED <<input, arrays, allocated, active_rules, old_snapshot,
                     rules_generation, freed, published>>
  BY BuildHeap DEF BuildFails, call_vars, rule_vars
<1>3. pc \notin {"grace", "down"}
  BY DEF Building
<1>4. TablesTypeOK' /\ CallInv' /\ BuildInv'
  BY <1>1, <1>2 DEF TablesTypeOK, CallInv, BuildInv, Points, Calling, Building
<1>5. SnapshotInv'
  BY <1>1, <1>2, <1>3 DEF SnapshotInv, Building
<1>6. HeapInv'
  <2>1. UNCHANGED ActiveObjects
    BY <1>2 DEF ActiveObjects, Objects
  <2>2. freed' = UNION {Needed(published'[g].rules) : g \in 1 .. rules_generation' - 1}
    BY <1>1, <1>2, <1>3 DEF HeapInv, Past
  <2>3. QED
    BY <1>2, <2>1, <2>2 DEF HeapInv, Past
<1>7. ValidatorsAgree'
  BY <1>2 DEF ValidatorsAgree
<1>8. QED
  BY <1>4, <1>5, <1>6, <1>7 DEF TablesInv

LEMMA AllocateKeeps ==
  ASSUME TablesInv, Allocate
  PROVE  TablesInv'
<1> DEFINE kind == Kinds[i + 1]
<1>1. TablesTypeOK /\ CallInv /\ SnapshotInv /\ HeapInv /\ BuildInv /\ ValidatorsAgree
  BY DEF TablesInv
<1>2. /\ pc = "allocate" /\ i \in Nat /\ i < 4 /\ pc \in Building
      /\ UNCHANGED <<call_vars, rule_vars>>
  BY <1>1, AllBuilt DEF Allocate, Building, TablesTypeOK
<1>3. ~ Live(new, kind)
  <2>1. heap = ActiveObjects \cup Built(i)
    BY <1>1, <1>2 DEF HeapInv
  <2>2. \A k \in 1 .. i : Kinds[k] # kind
    <3>1. i \in {0, 1, 2, 3}
      BY <1>2
    <3>2. QED
      BY <3>1 DEF Kinds
  <2>3. kind \notin BuiltKinds(i)
    BY <2>2 DEF BuiltKinds
  <2> HIDE DEF kind
  <2>4. <<kind, new.generation>> \notin Built(i)
    BY <2>3 DEF Built
  <2>5. <<kind, new.generation>> \notin ActiveObjects
    <3>1. <<kind, new.generation>>[2] = new.generation
      OBVIOUS
    <3>2. QED
      BY <1>2, <3>1, BuildHeap
  <2>6. QED
    BY <2>1, <2>4, <2>5 DEF Live
<1>4. CASE BuildFails("nomem")
  BY <1>2, <1>4, BuildFailsKeeps
<1>5. CASE /\ heap' = heap \cup {<<k, new.generation>> : k \in {kind} \cap Needed(arrays)}
           /\ i' = i + 1 /\ UNCHANGED <<pc, new, err>>
  <2>1. UNCHANGED <<pc, new, err, input, arrays, allocated, active_rules, old_snapshot,
                    rules_generation, freed, published>>
    BY <1>2, <1>5 DEF call_vars, rule_vars
  <2>2. TablesTypeOK' /\ CallInv' /\ BuildInv' /\ ValidatorsAgree'
    <3>1. TablesTypeOK'
      BY <1>1, <1>2, <1>5, <2>1 DEF TablesTypeOK
    <3>2. CallInv' /\ ValidatorsAgree'
      BY <1>1, <2>1 DEF CallInv, ValidatorsAgree
    <3>3. BuildInv'
      BY <1>1, <1>2, <2>1 DEF BuildInv
    <3>4. QED
      BY <3>1, <3>2, <3>3
  <2>3. SnapshotInv'
    <3>1. i' <= Len(Kinds)
      BY <1>2, <1>5, AllBuilt
    <3>2. QED
      BY <1>1, <1>2, <2>1, <3>1 DEF SnapshotInv, Building
  <2>4. HeapInv'
    <3>1. UNCHANGED ActiveObjects
      BY <2>1 DEF ActiveObjects, Objects
    <3>2. {Kinds[k] : k \in 1 .. i + 1} = {Kinds[k] : k \in 1 .. i} \cup {kind}
      <4>1. 1 .. i + 1 = (1 .. i) \cup {i + 1}
        BY <1>2
      <4>2. QED
        BY <4>1
    <3>3. BuiltKinds(i)' = BuiltKinds(i) \cup ({kind} \cap Needed(arrays))
      <4>1. BuiltKinds(i)' = {Kinds[k] : k \in 1 .. i + 1} \cap Needed(arrays)
        BY <1>5, <2>1 DEF BuiltKinds
      <4>2. QED
        BY <3>2, <4>1 DEF BuiltKinds
    <3>4. Built(i)' = Built(i) \cup {<<k, new.generation>> : k \in {kind} \cap Needed(arrays)}
      <4>1. Built(i)' = {<<k, new.generation>> : k \in BuiltKinds(i)'}
        BY <2>1 DEF Built
      <4>2. QED
        BY <3>3, <4>1 DEF Built
    <3>5. heap = ActiveObjects \cup Built(i)
      BY <1>1, <1>2 DEF HeapInv
    <3>6. heap' = ActiveObjects' \cup Built(i)'
      BY <1>5, <3>1, <3>4, <3>5
    <3>7. freed' = UNION {Needed(published'[g].rules) : g \in 1 .. Past'} /\ err' # "name"
      BY <1>1, <2>1 DEF HeapInv, Past
    <3>8. QED
      BY <1>2, <2>1, <3>6, <3>7 DEF HeapInv
  <2>5. QED
    BY <2>2, <2>3, <2>4 DEF TablesInv
<1>6. QED
  <2>1. \/ kind \in Needed(arrays) /\ BuildFails("nomem")
        \/ /\ heap' = heap \cup {<<k, new.generation>> : k \in {kind} \cap Needed(arrays)}
           /\ i' = i + 1 /\ UNCHANGED <<pc, new, err>>
    BY <1>3 DEF Allocate
  <2>2. QED
    BY <1>4, <1>5, <2>1

(* One loop ends and the next begins. *)
LEMMA LoopsKeep ==
  ASSUME TablesInv, AllocationsEnd \/ FlowsEnd
  PROVE  TablesInv'
<1>1. TablesTypeOK /\ CallInv /\ SnapshotInv /\ HeapInv /\ BuildInv /\ ValidatorsAgree
  BY DEF TablesInv
<1>2. /\ i' = 0
      /\ UNCHANGED <<new, heap, err, input, arrays, allocated, active_rules, old_snapshot,
                     rules_generation, freed, published>>
      /\ \/ pc = "allocate" /\ pc' = "flows" /\ i = Len(Kinds)
         \/ pc = "flows" /\ pc' = "routes" /\ i = Len(arrays.flows)
  BY DEF AllocationsEnd, FlowsEnd, call_vars, rule_vars
<1>3. Len(arrays.flows) \in Nat /\ Len(arrays.routes) \in Nat
  BY <1>1, ArrayDomain DEF TablesTypeOK, IsArrays
<1>4. TablesTypeOK' /\ CallInv' /\ ValidatorsAgree'
  BY <1>1, <1>2 DEF TablesTypeOK, CallInv, ValidatorsAgree, Points, Calling, Building
<1>5. SnapshotInv'
  BY <1>1, <1>2 DEF SnapshotInv, Building
<1>6. HeapInv'
  <2>1. UNCHANGED <<ActiveObjects, Built(Len(Kinds))>>
    BY <1>2 DEF ActiveObjects, Objects, Built, BuiltKinds
  <2>2. heap = ActiveObjects \cup Built(Len(Kinds)) /\ err # "name"
    BY <1>1, <1>2 DEF HeapInv
  <2>3. freed' = UNION {Needed(published'[g].rules) : g \in 1 .. Past'}
    BY <1>1, <1>2 DEF HeapInv, Past
  <2>4. QED
    BY <1>2, <2>1, <2>2, <2>3 DEF HeapInv
<1>7. BuildInv'
  <2>1. FlowsBuilt(arrays.flows, 0) /\ Keys(arrays.flows, 0) = {}
    BY DEF FlowsBuilt, Keys
  <2>2. RoutesBuilt(arrays.routes, 0) /\ Keys(arrays.routes, 0) = {}
    BY DEF RoutesBuilt, Keys
  <2>3. CASE pc = "allocate"
    <3>1. /\ pc' = "flows" /\ pc \in Building /\ err' = "none"
          /\ DOMAIN new'.flow_table = {} /\ DOMAIN new'.route_table = {}
      BY <1>1, <1>2, <2>3 DEF BuildInv, Building
    <3>2. Len(arrays'.flows) <= MaxFlowRules /\ Len(arrays'.routes) <= MaxRouteRules
      BY <1>1, <1>2, <3>1 DEF BuildInv
    <3>3. i' <= Len(arrays'.flows)
      BY <1>2, <1>3
    <3>4. FlowsBuilt(arrays.flows, i)' /\ DOMAIN new'.flow_table = Keys(arrays.flows, i)'
      BY <1>2, <2>1, <3>1 DEF FlowsBuilt, Keys
    <3>5. QED
      BY <3>1, <3>2, <3>3, <3>4 DEF BuildInv, Calling, Building
  <2>4. CASE pc = "flows"
    <3>1. /\ pc' = "routes" /\ pc \in Building /\ err' = "none"
          /\ DOMAIN new'.route_table = {} /\ i = Len(arrays.flows)
      BY <1>1, <1>2, <2>4 DEF BuildInv, Building
    <3>2. Len(arrays'.flows) <= MaxFlowRules /\ Len(arrays'.routes) <= MaxRouteRules
      BY <1>1, <1>2, <3>1 DEF BuildInv
    <3>3. i' <= Len(arrays'.routes)
      BY <1>2, <1>3
    <3>4. FlowsBuilt(arrays.flows, Len(arrays.flows))
      BY <1>1, <2>4, <3>1 DEF BuildInv
    <3>5. FlowsBuilt(arrays.flows, Len(arrays.flows))'
      BY <1>2, <3>4
    <3>6. RoutesBuilt(arrays.routes, i)' /\ DOMAIN new'.route_table = Keys(arrays.routes, i)'
      BY <1>2, <2>2, <3>1 DEF RoutesBuilt, Keys
    <3>7. QED
      BY <3>1, <3>2, <3>3, <3>5, <3>6 DEF BuildInv, Calling, Building
  <2>5. QED
    BY <1>2, <2>3, <2>4
<1>8. QED
  BY <1>4, <1>5, <1>6, <1>7 DEF TablesInv

(* The rest of the invariant when a rule has been added to the tables *)
LEMMA RuleAdded ==
  ASSUME TablesInv, pc \in {"flows", "routes"}, i' = i + 1,
         UNCHANGED <<pc, heap, err, call_vars, rule_vars>>, IsSnapshot(new'),
         new'.generation = new.generation, BuildInv'
  PROVE  TablesInv'
<1>1. TablesTypeOK /\ CallInv /\ SnapshotInv /\ HeapInv /\ ValidatorsAgree
  BY DEF TablesInv
<1>2. UNCHANGED <<input, arrays, allocated, active_rules, old_snapshot, rules_generation,
                  freed, published>>
  BY DEF call_vars, rule_vars
<1>3. TablesTypeOK' /\ CallInv' /\ ValidatorsAgree'
  BY <1>1, <1>2 DEF TablesTypeOK, CallInv, ValidatorsAgree
<1>4. SnapshotInv'
  BY <1>1, <1>2 DEF SnapshotInv, Building
<1>5. HeapInv'
  <2>1. UNCHANGED <<ActiveObjects, Built(Len(Kinds))>>
    BY <1>2 DEF ActiveObjects, Objects, Built, BuiltKinds
  <2>2. heap = ActiveObjects \cup Built(Len(Kinds)) /\ err # "name"
    BY <1>1 DEF HeapInv
  <2>3. freed' = UNION {Needed(published'[g].rules) : g \in 1 .. Past'}
    BY <1>1, <1>2 DEF HeapInv, Past
  <2>4. QED
    BY <2>1, <2>2, <2>3 DEF HeapInv
<1>6. QED
  BY <1>3, <1>4, <1>5 DEF TablesInv

(* A list of checked rules with one more *)
LEMMA KeysNext ==
  ASSUME NEW list, NEW n \in Nat
  PROVE  Keys(list, n + 1) = Keys(list, n) \cup {list[n + 1].key}
<1>1. 1 .. n + 1 = (1 .. n) \cup {n + 1}
  OBVIOUS
<1>2. QED
  BY <1>1 DEF Keys

LEMMA BuiltNext ==
  ASSUME NEW list, NEW n \in Nat, list[n + 1].key \notin Keys(list, n)
  PROVE  /\ FlowsBuilt(list, n) /\ FlowAccepted(list[n + 1]) => FlowsBuilt(list, n + 1)
         /\ RoutesBuilt(list, n) /\ RouteAccepted(list[n + 1]) => RoutesBuilt(list, n + 1)
<1>1. \A j \in 1 .. n + 1 : j \in 1 .. n \/ j = n + 1
  OBVIOUS
<1>2. \A j \in 1 .. n : list[j].key # list[n + 1].key
  BY DEF Keys
<1>3. ASSUME \A j, k \in 1 .. n : list[j].key = list[k].key => j = k
      PROVE  \A j, k \in 1 .. n + 1 : list[j].key = list[k].key => j = k
  BY <1>1, <1>2, <1>3
<1>4. QED
  BY <1>1, <1>3 DEF FlowsBuilt, RoutesBuilt

LEMMA AddFlowKeeps ==
  ASSUME TablesInv, AddFlow
  PROVE  TablesInv'
<1> DEFINE rule == arrays.flows[i + 1]
<1>1. TablesTypeOK /\ SnapshotInv /\ BuildInv
  BY DEF TablesInv
<1>2. /\ pc = "flows" /\ pc \in Building /\ i \in Nat /\ i < Len(arrays.flows)
      /\ UNCHANGED <<call_vars, rule_vars>>
  BY <1>1 DEF AddFlow, Building, TablesTypeOK
<1>3. /\ DOMAIN arrays.flows = 1 .. Len(arrays.flows) /\ Len(arrays.flows) \in Nat
      /\ i + 1 \in DOMAIN arrays.flows
  <2>1. DOMAIN arrays.flows = 1 .. Len(arrays.flows) /\ Len(arrays.flows) \in Nat
    BY <1>1, ArrayDomain DEF TablesTypeOK, IsArrays
  <2>2. QED
    BY <1>2, <2>1
<1>4. DOMAIN new.flow_table = Keys(arrays.flows, i) /\ FlowsBuilt(arrays.flows, i)
  BY <1>1, <1>2 DEF BuildInv
<1>5. CASE BuildFails("hash_full")
  BY <1>2, <1>5, BuildFailsKeeps
<1>6. CASE ~ FlowAccepted(rule) /\ BuildFails("invalid")
  <2>1. ~ validateRules(arrays) \/ Reserved(arrays)
    BY <1>1, <1>3, <1>6, RefusedRulesInvalid DEF TablesTypeOK
  <2>2. QED
    BY <1>2, <1>6, <2>1, BuildFailsKeeps
<1>7. CASE rule.key \in DOMAIN new.flow_table /\ BuildFails("exists")
  <2>1. PICK j \in 1 .. i : arrays.flows[j].key = rule.key
    BY <1>4, <1>7 DEF Keys
  <2>2. j \in DOMAIN arrays.flows /\ j # i + 1
    BY <1>2, <1>3
  <2>3. ~ validateRules(arrays)
    BY <1>1, <1>3, <2>1, <2>2, RefusedRulesInvalid DEF TablesTypeOK
  <2>4. QED
    BY <1>2, <1>7, <2>3, BuildFailsKeeps
<1>8. CASE /\ FlowAccepted(rule) /\ rule.key \notin DOMAIN new.flow_table
           /\ new' = [new EXCEPT !.actions = Put(@, i, rule.action),
                                 !.flow_table = Put(@, rule.key, i)]
           /\ i' = i + 1 /\ UNCHANGED <<pc, heap, err>>
  <2>1. IsSnapshot(new)
    BY <1>1, <1>2 DEF SnapshotInv
  <2>2. /\ IsSnapshot(new') /\ new'.generation = new.generation
        /\ new'.flow_table = Put(new.flow_table, rule.key, i)
        /\ new'.route_table = new.route_table
    BY <1>8, <2>1 DEF IsSnapshot
  <2>3. DOMAIN new'.flow_table = Keys(arrays.flows, i + 1)
    <3>1. DOMAIN new'.flow_table = DOMAIN new.flow_table \cup {rule.key}
      BY <2>2 DEF Put
    <3>2. QED
      BY <1>2, <1>4, <3>1, KeysNext
  <2>4. FlowsBuilt(arrays.flows, i + 1) /\ i + 1 <= Len(arrays.flows)
    BY <1>2, <1>3, <1>4, <1>8, BuiltNext
  <2>5. BuildInv'
    <3>1. UNCHANGED arrays
      BY <1>2 DEF call_vars
    <3>2. QED
      BY <1>1, <1>2, <1>8, <2>2, <2>3, <2>4, <3>1 DEF BuildInv, Calling, Building
  <2>6. QED
    BY <1>2, <1>8, <2>2, <2>5, RuleAdded
<1>9. QED
  BY <1>5, <1>6, <1>7, <1>8 DEF AddFlow

LEMMA AddRouteKeeps ==
  ASSUME TablesInv, AddRoute
  PROVE  TablesInv'
<1> DEFINE rule == arrays.routes[i + 1]
           table == Put(new.route_table, rule.key, action_index(i))
<1>1. TablesTypeOK /\ SnapshotInv /\ BuildInv
  BY DEF TablesInv
<1>2. /\ pc = "routes" /\ pc \in Building /\ i \in Nat /\ i < Len(arrays.routes)
      /\ UNCHANGED <<call_vars, rule_vars>>
  BY <1>1 DEF AddRoute, Building, TablesTypeOK
<1>3. /\ DOMAIN arrays.routes = 1 .. Len(arrays.routes) /\ Len(arrays.routes) \in Nat
      /\ i + 1 \in DOMAIN arrays.routes
  <2>1. DOMAIN arrays.routes = 1 .. Len(arrays.routes) /\ Len(arrays.routes) \in Nat
    BY <1>1, ArrayDomain DEF TablesTypeOK, IsArrays
  <2>2. QED
    BY <1>2, <2>1
<1>4. DOMAIN new.route_table = Keys(arrays.routes, i) /\ RoutesBuilt(arrays.routes, i)
  BY <1>1, <1>2 DEF BuildInv
<1>5. CASE BuildFails("tbl8")
  BY <1>2, <1>5, BuildFailsKeeps
<1>6. CASE ~ RouteAccepted(rule) /\ BuildFails("invalid")
  <2>1. ~ validateRules(arrays) \/ Reserved(arrays)
    BY <1>1, <1>3, <1>6, RefusedRulesInvalid DEF TablesTypeOK
  <2>2. QED
    BY <1>2, <1>6, <2>1, BuildFailsKeeps
<1>7. CASE rule.key \in DOMAIN new.route_table /\ BuildFails("exists")
  <2>1. PICK j \in 1 .. i : arrays.routes[j].key = rule.key
    BY <1>4, <1>7 DEF Keys
  <2>2. j \in DOMAIN arrays.routes /\ j # i + 1
    BY <1>2, <1>3
  <2>3. ~ validateRules(arrays)
    BY <1>1, <1>3, <2>1, <2>2, RefusedRulesInvalid DEF TablesTypeOK
  <2>4. QED
    BY <1>2, <1>7, <2>3, BuildFailsKeeps
<1>8. CASE /\ RouteAccepted(rule) /\ rule.key \notin DOMAIN new.route_table
           /\ new' = [new EXCEPT !.actions = Put(@, action_index(i), rule.action),
                                 !.route_table = table]
           /\ i' = i + 1 /\ UNCHANGED <<pc, heap, err>>
  <2>1. IsSnapshot(new)
    BY <1>1, <1>2 DEF SnapshotInv
  <2>2. /\ IsSnapshot(new') /\ new'.generation = new.generation
        /\ new'.route_table = table /\ new'.flow_table = new.flow_table
    <3> HIDE DEF table
    <3>1. QED
      BY <1>8, <2>1 DEF IsSnapshot
  <2>3. DOMAIN new'.route_table = Keys(arrays.routes, i + 1)
    <3>1. DOMAIN new'.route_table = DOMAIN new.route_table \cup {rule.key}
      BY <2>2 DEF Put
    <3>2. QED
      BY <1>2, <1>4, <3>1, KeysNext
  <2>4. RoutesBuilt(arrays.routes, i + 1) /\ i + 1 <= Len(arrays.routes)
    BY <1>2, <1>3, <1>4, <1>8, BuiltNext
  <2>5. BuildInv'
    <3>1. UNCHANGED arrays
      BY <1>2 DEF call_vars
    <3>2. QED
      BY <1>1, <1>2, <1>8, <2>2, <2>3, <2>4, <3>1 DEF BuildInv, Calling, Building
  <2>6. QED
    BY <1>2, <1>8, <2>2, <2>5, RuleAdded
<1>9. QED
  BY <1>5, <1>6, <1>7, <1>8 DEF AddRoute

-----------------------------------------------------------------------------
(* The exchange and the release of snapshots *)

LEMMA ExchangeKeeps ==
  ASSUME TablesInv, Exchange
  PROVE  TablesInv'
<1> DEFINE G == rules_generation
<1>1. TablesTypeOK /\ CallInv /\ SnapshotInv /\ HeapInv /\ BuildInv
  BY DEF TablesInv
<1>2. /\ pc = "routes" /\ i = Len(arrays.routes) /\ pc \in Building
      /\ active_rules' = new /\ old_snapshot' = active_rules /\ rules_generation' = new.generation
      /\ published' = Append(published, input) /\ new' = NULL /\ i' = 0
      /\ UNCHANGED <<input, arrays, allocated, heap, freed, err>>
      /\ pc' = IF G = 0 THEN "release" ELSE "grace"
  BY DEF Exchange, Building, call_vars
<1>3. /\ G \in Nat /\ new.generation = G + 1 /\ rules_generation' = G + 1 /\ err = "none"
      /\ published \in Seq(Inputs) /\ Len(published) = G /\ input \in Inputs
  BY <1>1, <1>2 DEF TablesTypeOK, SnapshotInv, BuildInv
<1>4. /\ published' \in Seq(Inputs) /\ Len(published') = G + 1 /\ published'[G + 1] = input
      /\ \A g \in 1 .. G : published'[g] = published[g]
  BY <1>2, <1>3
<1>5. TablesTypeOK'
  BY <1>1, <1>2, <1>3, <1>4 DEF TablesTypeOK, Points
<1>6. CallInv'
  BY <1>2 DEF CallInv, Calling, Building
<1>7. SnapshotInv'
  <2>1. IF G = 0 THEN active_rules = NULL ELSE active_rules.generation = G
    BY <1>1, <1>2 DEF SnapshotInv
  <2>2. pc' \notin Building /\ pc' \notin {"down", "allocate"}
    BY <1>2 DEF Building
  <2>3. pc' = "grace" => rules_generation' >= 2 /\ old_snapshot'.generation = rules_generation' - 1
    BY <1>2, <1>3, <2>1
  <2>4. pc' # "grace" => old_snapshot' = NULL
    BY <1>2, <2>1
  <2>5. rules_generation' # 0 /\ active_rules'.generation = rules_generation'
    BY <1>2, <1>3
  <2>6. QED
    BY <1>2, <2>2, <2>3, <2>4, <2>5 DEF SnapshotInv
<1>8. HeapInv'
  <2>1. heap = ActiveObjects \cup {<<kind, G + 1>> : kind \in Needed(arrays)}
    BY <1>1, <1>2, <1>3, AllBuilt DEF HeapInv, Built
  <2>2. Needed(arrays) = Needed(published'[G + 1].rules)
    <3>1. Len(arrays.flows) = Len(input.rules.flows) /\ Len(arrays.routes) = Len(input.rules.routes)
      BY <1>1, <1>2 DEF CallInv
    <3>2. Needed(arrays) = Needed(input.rules)
      BY <3>1, NeededByLength
    <3>3. QED
      BY <1>4, <3>2
  <2>3. Objects(rules_generation)' = {<<kind, G + 1>> : kind \in Needed(arrays)}
    BY <1>3, <2>2 DEF Objects
  <2>4. freed = UNION {Needed(published[g].rules) : g \in 1 .. G - 1}
    BY <1>1, <1>2 DEF HeapInv, Past
  <2>5. \A g \in 1 .. G - 1 : published'[g] = published[g]
    BY <1>3, <1>4
  <2>6. freed' = UNION {Needed(published'[g].rules) : g \in 1 .. G - 1}
    BY <1>2, <2>4, <2>5
  <2>7. CASE G = 0
    <3>1. pc' = "release" /\ ActiveObjects = {} /\ ActiveObjects' = Objects(rules_generation)'
      BY <1>2, <1>3, <2>7 DEF ActiveObjects
    <3>2. heap' = ActiveObjects'
      BY <1>2, <2>1, <2>3, <3>1
    <3>3. Past' = 0 /\ 1 .. G - 1 = 1 .. 0
      BY <1>3, <2>7, <3>1 DEF Past
    <3>4. freed' = UNION {Needed(published'[g].rules) : g \in 1 .. Past'}
      BY <2>6, <3>3
    <3>5. QED
      BY <1>2, <1>3, <3>1, <3>2, <3>4 DEF HeapInv
  <2>8. CASE G # 0
    <3>1. pc' = "grace" /\ ActiveObjects = Objects(G) /\ rules_generation' - 1 = G
      BY <1>2, <1>3, <2>8 DEF ActiveObjects
    <3>2. Objects(rules_generation - 1)' = Objects(G)
      <4>1. published'[G] = published[G]
        BY <1>3, <1>4, <2>8
      <4>2. QED
        BY <3>1, <4>1 DEF Objects
    <3>3. heap' = Objects(rules_generation)' \cup Objects(rules_generation - 1)'
      BY <1>2, <2>1, <2>3, <3>1, <3>2
    <3>4. Past' = G - 1
      BY <1>3, <3>1 DEF Past
    <3>5. freed' = UNION {Needed(published'[g].rules) : g \in 1 .. Past'}
      BY <2>6, <3>4
    <3>6. QED
      BY <1>2, <1>3, <3>1, <3>3, <3>5 DEF HeapInv
  <2>9. QED
    BY <2>7, <2>8
<1>9. BuildInv'
  BY <1>2, <1>3 DEF BuildInv, Calling, Building
<1>10. ValidatorsAgree'
  <2>1. validateRules(arrays)
    BY <1>1, <1>2, BuiltRulesValid DEF TablesTypeOK, BuildInv
  <2>2. QED
    BY <1>2, <1>3, <2>1 DEF ValidatorsAgree
<1>11. QED
  BY <1>5, <1>6, <1>7, <1>8, <1>9, <1>10 DEF TablesInv

(* The kinds freed so far, with those of one more generation *)
LEMMA FreedNext ==
  ASSUME NEW p, NEW n \in Int, n >= 0
  PROVE  UNION {Needed(p[g].rules) : g \in 1 .. n + 1}
           = (UNION {Needed(p[g].rules) : g \in 1 .. n}) \cup Needed(p[n + 1].rules)
<1>1. 1 .. n + 1 = (1 .. n) \cup {n + 1}
  OBVIOUS
<1>2. QED
  BY <1>1

LEMMA ReclaimKeeps ==
  ASSUME TablesInv, Reclaim
  PROVE  TablesInv'
<1> DEFINE G == rules_generation
<1>1. TablesTypeOK /\ CallInv /\ SnapshotInv /\ HeapInv /\ BuildInv /\ ValidatorsAgree
  BY DEF TablesInv
<1>2. /\ pc = "grace" /\ pc' = "release" /\ heap' = dp_snapshot_free(old_snapshot)
      /\ freed' = freed \cup FreedWith(old_snapshot) /\ old_snapshot' = NULL
      /\ UNCHANGED <<input, arrays, allocated, new, i, active_rules, rules_generation,
                     published, err>>
  BY DEF Reclaim, call_vars
<1>3. G \in Nat /\ G >= 2 /\ old_snapshot.generation = G - 1 /\ err = "none"
  BY <1>1, <1>2 DEF TablesTypeOK, SnapshotInv, BuildInv
<1>4. TablesTypeOK' /\ CallInv' /\ BuildInv' /\ ValidatorsAgree'
  BY <1>1, <1>2, <1>3 DEF TablesTypeOK, CallInv, BuildInv, ValidatorsAgree, Points, Calling,
                         Building
<1>5. SnapshotInv'
  BY <1>1, <1>2 DEF SnapshotInv, Building
<1>6. HeapInv'
  <2>1. dp_snapshot_free(old_snapshot) = Objects(G)
        /\ FreedWith(old_snapshot) = Needed(published[G - 1].rules)
    <3>1. heap = {<<kind, old_snapshot.generation>> : kind \in Needed(published[G - 1].rules)}
                  \cup Objects(G)
      BY <1>1, <1>2, <1>3 DEF HeapInv, Objects
    <3>2. \A object \in Objects(G) : object[2] # old_snapshot.generation
      BY <1>3 DEF Objects
    <3>3. QED
      BY <3>1, <3>2, FreeSnapshot
  <2>2. ActiveObjects' = Objects(G)
    BY <1>2, <1>3 DEF ActiveObjects, Objects
  <2>3. Past = G - 2 /\ Past' = G - 1 /\ G - 2 \in Int /\ G - 2 >= 0 /\ (G - 2) + 1 = G - 1
    BY <1>2, <1>3 DEF Past
  <2>4. freed = UNION {Needed(published[g].rules) : g \in 1 .. G - 2}
    BY <1>1, <2>3 DEF HeapInv
  <2>5. UNION {Needed(published[g].rules) : g \in 1 .. G - 1} = freed'
    BY <1>2, <2>1, <2>3, <2>4, FreedNext
  <2>6. freed' = UNION {Needed(published'[g].rules) : g \in 1 .. Past'}
    BY <1>2, <2>3, <2>5
  <2>7. QED
    BY <1>2, <1>3, <2>1, <2>2, <2>6 DEF HeapInv
<1>7. QED
  BY <1>4, <1>5, <1>6 DEF TablesInv

LEMMA TeardownKeeps ==
  ASSUME TablesInv, dp_rules_teardown
  PROVE  TablesInv'
<1> DEFINE G == rules_generation
<1>1. TablesTypeOK /\ CallInv /\ SnapshotInv /\ HeapInv /\ BuildInv /\ ValidatorsAgree
  BY DEF TablesInv
<1>2. /\ pc = "idle" /\ pc' = "down" /\ heap' = dp_snapshot_free(active_rules)
      /\ freed' = freed \cup FreedWith(active_rules) /\ active_rules' = NULL
      /\ UNCHANGED <<input, arrays, allocated, new, i, old_snapshot, rules_generation,
                     published, err>>
  BY DEF dp_rules_teardown, call_vars
<1>3. G \in Nat /\ heap = ActiveObjects /\ err # "name"
      /\ freed = UNION {Needed(published[g].rules) : g \in 1 .. G - 1}
  BY <1>1, <1>2 DEF TablesTypeOK, HeapInv, Past
<1>4. TablesTypeOK' /\ CallInv' /\ BuildInv' /\ ValidatorsAgree'
  BY <1>1, <1>2 DEF TablesTypeOK, CallInv, BuildInv, ValidatorsAgree, Points, Calling, Building
<1>5. SnapshotInv'
  BY <1>1, <1>2 DEF SnapshotInv, Building
<1>6. Past' = G
  BY <1>2 DEF Past
<1>7. heap' = {} /\ freed' = UNION {Needed(published[g].rules) : g \in 1 .. G}
  <2>1. CASE G = 0
    <3>1. heap = {}
      BY <1>3, <2>1 DEF ActiveObjects
    <3>2. dp_snapshot_free(active_rules) = {} /\ FreedWith(active_rules) = {}
      BY <3>1 DEF FreedWith
    <3>3. 1 .. G = {} /\ 1 .. G - 1 = {}
      BY <2>1
    <3>4. QED
      BY <1>2, <1>3, <3>2, <3>3
  <2>2. CASE G # 0
    <3>1. active_rules.generation = G
      BY <1>1, <1>2, <2>2 DEF SnapshotInv
    <3>2. heap = {<<kind, active_rules.generation>> : kind \in Needed(published[G].rules)}
      BY <1>3, <2>2, <3>1 DEF ActiveObjects, Objects
    <3>3. dp_snapshot_free(active_rules) = {} /\ FreedWith(active_rules) = Needed(published[G].rules)
      <4> DEFINE N == Needed(published[G].rules)
                 R == {}
      <4>1. \A object \in R : object[2] # active_rules.generation
        OBVIOUS
      <4>2. heap = {<<kind, active_rules.generation>> : kind \in N} \cup R
        BY <3>2
      <4> HIDE DEF N, R
      <4>3. dp_snapshot_free(active_rules) = R /\ FreedWith(active_rules) = N
        BY <4>1, <4>2, FreeSnapshot
      <4>4. QED
        BY <4>3 DEF N, R
    <3>4. G - 1 \in Int /\ G - 1 >= 0 /\ (G - 1) + 1 = G
      BY <1>3, <2>2
    <3>5. UNION {Needed(published[g].rules) : g \in 1 .. G}
            = (UNION {Needed(published[g].rules) : g \in 1 .. G - 1}) \cup Needed(published[G].rules)
      BY <3>4, FreedNext
    <3>6. heap' = {} /\ freed' = freed \cup Needed(published[G].rules)
      <4> HIDE DEF dp_snapshot_free
      <4>1. QED
        BY <1>2, <3>3
    <3>7. QED
      BY <1>3, <3>5, <3>6
  <2>3. QED
    BY <2>1, <2>2
<1>8. HeapInv'
  BY <1>2, <1>3, <1>6, <1>7 DEF HeapInv
<1>9. QED
  BY <1>4, <1>5, <1>8 DEF TablesInv

-----------------------------------------------------------------------------
(* The theorems *)

LEMMA TablesInit == Init => TablesInv
<1> SUFFICES ASSUME Init PROVE TablesInv
  OBVIOUS
<1>1. /\ pc = "idle" /\ input = NoInput /\ arrays = NoRules /\ allocated = {}
      /\ new = NULL /\ i = 0 /\ heap = {} /\ active_rules = NULL /\ old_snapshot = NULL
      /\ rules_generation = 0 /\ freed = {} /\ err = "none" /\ published = <<>>
  BY DEF Init
<1>2. TablesTypeOK
  BY <1>1, EmptyArrays, NoInputTyped DEF TablesTypeOK, Points
<1>3. CallInv /\ SnapshotInv /\ BuildInv /\ ValidatorsAgree
  BY <1>1 DEF CallInv, SnapshotInv, BuildInv, ValidatorsAgree, Calling, Building
<1>4. HeapInv
  <2>1. ActiveObjects = {} /\ 1 .. Past = {}
    BY <1>1 DEF ActiveObjects, Past
  <2>2. QED
    BY <1>1, <2>1 DEF HeapInv
<1>5. QED
  BY <1>2, <1>3, <1>4 DEF TablesInv

LEMMA TablesStutter ==
  ASSUME TablesInv, UNCHANGED vars
  PROVE  TablesInv'
<1>1. UNCHANGED <<pc, input, arrays, allocated, new, i, heap, active_rules, old_snapshot,
                  rules_generation, freed, err, published>>
  BY DEF vars, call_vars, rule_vars
<1>2. TablesTypeOK' /\ CallInv' /\ SnapshotInv' /\ BuildInv' /\ ValidatorsAgree'
  BY <1>1 DEF TablesInv, TablesTypeOK, CallInv, SnapshotInv, BuildInv, ValidatorsAgree
<1>3. HeapInv'
  BY <1>1 DEF TablesInv, HeapInv, ActiveObjects, Objects, Built, BuiltKinds, Past
<1>4. QED
  BY <1>2, <1>3 DEF TablesInv

LEMMA TablesStep == TablesInv /\ [Next]_vars => TablesInv'
<1> SUFFICES ASSUME TablesInv, [Next]_vars PROVE TablesInv'
  OBVIOUS
<1>1. CASE LoadRulesFile \/ ReplaceRules \/ NativeCall
  BY <1>1, CallKeeps
<1>2. CASE ArraysStep \/ Release
  BY <1>2, ArraysKeep
<1>3. CASE BuildBegins
  BY <1>3, BuildBeginsKeeps
<1>4. CASE Allocate
  BY <1>4, AllocateKeeps
<1>5. CASE AllocationsEnd \/ FlowsEnd
  BY <1>5, LoopsKeep
<1>6. CASE AddFlow
  BY <1>6, AddFlowKeeps
<1>7. CASE AddRoute
  BY <1>7, AddRouteKeeps
<1>8. CASE Exchange
  BY <1>8, ExchangeKeeps
<1>9. CASE Reclaim
  BY <1>9, ReclaimKeeps
<1>10. CASE dp_rules_teardown
  BY <1>10, TeardownKeeps
<1>11. CASE UNCHANGED vars
  BY <1>11, TablesStutter
<1>12. QED
  BY <1>1, <1>2, <1>3, <1>4, <1>5, <1>6, <1>7, <1>8, <1>9, <1>10, <1>11
     DEF Next, ArraysStep

(* The inductive invariant: the argument of a call and its arrays have as   *)
(* many rules, the heap holds the objects of the generations that packets   *)
(* may still use and of the snapshot under construction, and                *)
(* dp_snapshot_build has checked the rules it has passed.                   *)
THEOREM TablesInvariance == Spec => []TablesInv
<1>1. QED
  BY TablesInit, TablesStep, PTL DEF Spec

(* No call, failed or not, leaves an object or an array behind, no table    *)
(* gets a name in use, and the flags of the teardown are those of the       *)
(* objects there were (dp_snapshot_build, dp_publish_rules,                 *)
(* dp_rules_teardown), whatever the rules and the order of the calls.       *)
THEOREM ObjectOwnership == Spec => []ObjectsOwned
<1>1. TablesInv => ObjectsOwned
  <2> SUFFICES ASSUME TablesInv PROVE ObjectsOwned
    OBVIOUS
  <2>1. TablesTypeOK /\ CallInv /\ SnapshotInv /\ HeapInv
    BY DEF TablesInv
  <2>2. ASSUME pc = "idle"
        PROVE  /\ allocated = {}
               /\ heap = IF active_rules = NULL THEN {}
                         ELSE {<<kind, rules_generation>> :
                                 kind \in Needed(published[rules_generation].rules)}
    <3>1. allocated = {} /\ heap = ActiveObjects
      BY <2>1, <2>2 DEF CallInv, HeapInv
    <3>2. CASE rules_generation = 0
      BY <2>1, <3>1, <3>2 DEF SnapshotInv, ActiveObjects
    <3>3. CASE rules_generation # 0
      <4>1. active_rules.generation = rules_generation
        BY <2>1, <2>2, <3>3 DEF SnapshotInv
      <4>2. NULL.generation = 0
        BY DEF NULL, Snapshot
      <4>3. active_rules # NULL
        BY <3>3, <4>1, <4>2
      <4>4. QED
        BY <3>1, <3>3, <4>3 DEF ActiveObjects, Objects
    <3>4. QED
      BY <3>2, <3>3
  <2>3. ASSUME pc = "down"
        PROVE  /\ heap = {} /\ allocated = {}
               /\ freed = UNION {Needed(published[g].rules) : g \in DOMAIN published}
    <3>1. heap = {} /\ allocated = {} /\ Past = rules_generation
      BY <2>1, <2>3 DEF CallInv, HeapInv, Past
    <3>2. DOMAIN published = 1 .. rules_generation
      BY <2>1 DEF TablesTypeOK
    <3>3. QED
      BY <2>1, <3>1, <3>2 DEF HeapInv
  <2>4. err # "name"
    BY <2>1 DEF HeapInv
  <2>5. QED
    BY <2>2, <2>3, <2>4 DEF ObjectsOwned
<1>2. QED
  BY <1>1, TablesInvariance, PTL

(* The three validators agree on every rule set: normalizeRules on a file,  *)
(* validateRules on a snapshot and dp_snapshot_build on the C arrays.       *)
THEOREM ValidatorAgreement == Spec => []ValidatorsAgree
<1>1. TablesInv => ValidatorsAgree
  BY DEF TablesInv
<1>2. QED
  BY <1>1, TablesInvariance, PTL

-----------------------------------------------------------------------------
(* Quotients by powers of two: an address as a number and as four octets.  *)

(* A product grows by at least a factor. *)
LEMMA ProductMonotonic ==
  ASSUME NEW a \in Nat, NEW b \in Nat, NEW m \in Nat, a < b
  PROVE  a * m + m <= b * m
<1>1. PICK c \in Nat : b = a + 1 + c
  <2>1. b - a - 1 \in Nat /\ b = a + 1 + (b - a - 1)
    OBVIOUS
  <2>2. QED
    BY <2>1
<1>2. c * m \in Nat
  OBVIOUS
<1>3. b * m = a * m + m + c * m
  BY <1>1
<1>4. a * m \in Nat
  OBVIOUS
<1>5. QED
  BY <1>2, <1>3, <1>4

(* Quotient and remainder *)
LEMMA Division ==
  ASSUME NEW x \in Nat, NEW m \in Nat, m > 0
  PROVE  /\ x \div m \in Nat /\ x % m \in Nat /\ x % m < m
         /\ x = (x \div m) * m + (x % m)
<1>1. x \div m \in Nat
  OBVIOUS
<1>2. x % m \in Nat /\ x % m < m
  OBVIOUS
<1>3. x = m * (x \div m) + (x % m)
  OBVIOUS
<1>4. m * (x \div m) = (x \div m) * m
  BY <1>1
<1>5. QED
  BY <1>1, <1>2, <1>3, <1>4

(* There is one quotient and one remainder. *)
LEMMA DivisionUnique ==
  ASSUME NEW q \in Nat, NEW r \in Nat, NEW m \in Nat, r < m
  PROVE  (q * m + r) \div m = q /\ (q * m + r) % m = r
<1> DEFINE x == q * m + r
           d == x \div m
           e == x % m
<1>1. x \in Nat /\ m > 0
  OBVIOUS
<1>2. d \in Nat /\ e \in Nat /\ e < m /\ x = d * m + e
  <2> HIDE DEF x
  <2>1. QED
    BY <1>1, Division
<1>3. q * m \in Nat /\ d * m \in Nat /\ q * m + r = d * m + e
  BY <1>2
<1> HIDE DEF d, e
<1>4. ~ (q < d)
  <2> SUFFICES ASSUME q < d PROVE FALSE
    OBVIOUS
  <2>1. q * m + m <= d * m
    BY <1>2, ProductMonotonic
  <2>2. QED
    BY <1>2, <1>3, <2>1
<1>5. ~ (d < q)
  <2> SUFFICES ASSUME d < q PROVE FALSE
    OBVIOUS
  <2>1. d * m + m <= q * m
    BY <1>2, ProductMonotonic
  <2>2. QED
    BY <1>2, <1>3, <2>1
<1>6. q = d
  BY <1>2, <1>4, <1>5
<1>7. r = e
  BY <1>2, <1>3, <1>6
<1>8. QED
  BY <1>6, <1>7 DEF d, e

(* Two divisions in a row divide by the product. *)
LEMMA DivDiv ==
  ASSUME NEW x \in Nat, NEW a \in Nat, NEW b \in Nat, a > 0, b > 0
  PROVE  (x \div a) \div b = x \div (a * b)
<1> DEFINE y == x \div a
           r == x % a
           z == y \div b
           s == y % b
<1>1. y \in Nat /\ r \in Nat /\ r < a /\ x = y * a + r
  BY Division
<1>2. z \in Nat /\ s \in Nat /\ s < b /\ y = z * b + s
  <2> HIDE DEF y
  <2>1. QED
    BY <1>1, Division
<1> HIDE DEF y, r, z, s
<1>3. s * a + r \in Nat /\ a * b \in Nat /\ z * (a * b) \in Nat
  BY <1>1, <1>2
<1>4. s * a + r < a * b
  <2>1. s * a + a <= b * a
    BY <1>2, ProductMonotonic
  <2>2. s * a \in Nat /\ b * a = a * b /\ a * b \in Nat
    BY <1>2
  <2>3. QED
    BY <1>1, <2>1, <2>2
<1>5. x = z * (a * b) + (s * a + r)
  <2>1. y * a = (z * b) * a + s * a
    BY <1>2
  <2>2. (z * b) * a = z * (a * b)
    BY <1>2
  <2>3. z * (a * b) \in Nat /\ s * a \in Nat
    BY <1>2
  <2>4. QED
    BY <1>1, <2>1, <2>2, <2>3
<1>6. (z * (a * b) + (s * a + r)) \div (a * b) = z
  BY <1>2, <1>3, <1>4, DivisionUnique
<1>7. QED
  BY <1>5, <1>6 DEF y, z

(* Powers of two multiply as their exponents add. *)
LEMMA PowerSum ==
  ASSUME NEW a \in Nat, NEW b \in Nat, a + b <= AddrBits
  PROVE  Power2[a + b] = Power2[a] * Power2[b]
<1> DEFINE p == Power2
           T == {n \in Nat : a + n <= AddrBits => p[a + n] = p[a] * p[n]}
<1>0. AddrBits \in Nat
  BY AddrBitsNat
<1>1. 0 \in T
  <2>1. CASE a <= AddrBits
    <3>1. p[0] = 1 /\ p[a] \in Nat /\ a + 0 = a
      BY <1>0, <2>1, PowerSteps, PowerPositive
    <3> HIDE DEF p
    <3>2. QED
      BY <3>1
  <2>2. CASE ~ (a <= AddrBits)
    BY <2>2
  <2>3. QED
    BY <2>1, <2>2
<1>2. ASSUME NEW n \in Nat, n \in T PROVE n + 1 \in T
  <2>1. CASE a + (n + 1) <= AddrBits
    <3>1. /\ a + n <= AddrBits /\ a \in 0 .. AddrBits /\ n \in 0 .. AddrBits
          /\ n + 1 \in 0 .. AddrBits /\ n + 1 # 0 /\ (n + 1) - 1 = n
          /\ a + (n + 1) \in 0 .. AddrBits /\ a + (n + 1) # 0 /\ (a + (n + 1)) - 1 = a + n
      BY <1>0, <2>1
    <3>2. p[n + 1] = 2 * p[n] /\ p[a + (n + 1)] = 2 * p[a + n]
      BY <3>1, PowerSteps
    <3>3. p[n] \in Nat /\ p[a] \in Nat
      BY <3>1, PowerPositive
    <3>4. p[a + n] = p[a] * p[n]
      BY <1>2, <3>1
    <3> HIDE DEF p
    <3>5. 2 * (p[a] * p[n]) = p[a] * (2 * p[n])
      BY <3>3
    <3>6. QED
      BY <3>2, <3>4, <3>5
  <2>2. CASE ~ (a + (n + 1) <= AddrBits)
    BY <2>2
  <2>3. QED
    BY <2>1, <2>2
<1>3. Nat \subseteq T
  <2> HIDE DEF T
  <2>1. QED
    BY <1>1, <1>2, SetInduction
<1>4. QED
  BY <1>3

(* The weights of the four octets *)
LEMMA OctetPowers ==
  /\ Octet \in Nat /\ Octet > 0
  /\ Power2[2 * OctetBits] = Octet * Octet /\ Power2[3 * OctetBits] = Octet * Octet * Octet
  /\ Power2[AddrBits] = Octet * Octet * Octet * Octet
<1> DEFINE b == OctetBits
<1>1. b \in Nat /\ AddrBits = 4 * b /\ b \in 0 .. AddrBits
  BY FormatAssumption DEF AddrBits
<1>2. Octet \in Nat /\ Octet > 0
  BY <1>1, PowerPositive DEF Octet
<1>3. Power2[b + b] = Octet * Octet
  BY <1>1, PowerSum DEF Octet
<1>4. Power2[2 * b + b] = Power2[2 * b] * Octet
  BY <1>1, PowerSum DEF Octet
<1>5. Power2[3 * b + b] = Power2[3 * b] * Octet
  BY <1>1, PowerSum DEF Octet
<1>6. b + b = 2 * b /\ 2 * b + b = 3 * b /\ 3 * b + b = AddrBits
  BY <1>1
<1>7. QED
  BY <1>2, <1>3, <1>4, <1>5, <1>6

(* The octets of a number are its digits. *)
LEMMA OctetsAsQuotients ==
  ASSUME NEW x \in Nat
  PROVE  Octets(x) = <<((x \div Octet) \div Octet) \div Octet,
                       ((x \div Octet) \div Octet) % Octet, (x \div Octet) % Octet, x % Octet>>
<1> DEFINE b == Octet
<1>1. b \in Nat /\ b > 0 /\ b * b \in Nat /\ b * b > 0
  <2>1. b \in Nat /\ b > 0
    BY OctetPowers
  <2> HIDE DEF b
  <2>2. QED
    BY <2>1
<1>2. x \div (b * b) = (x \div b) \div b
  <2> HIDE DEF b
  <2>1. QED
    BY <1>1, DivDiv
<1>3. x \div ((b * b) * b) = (x \div (b * b)) \div b
  <2> HIDE DEF b
  <2>1. QED
    BY <1>1, DivDiv
<1>4. QED
  BY <1>2, <1>3 DEF Octets

(* A text that parses has four octets of the width of an octet. *)
LEMMA TextDigits ==
  ASSUME NEW text, IsIPv4(text), IsText(text)
  PROVE  /\ text.octets = <<text.octets[1], text.octets[2], text.octets[3], text.octets[4]>>
         /\ \A k \in 1 .. 4 : text.octets[k] \in 0 .. Octet - 1
<1> DEFINE o == text.octets
<1>1. o \in Seq(Nat) /\ Len(o) = 4 /\ \A k \in 1 .. 4 : o[k] < Octet
  BY DEF IsIPv4, IsText
<1>2. Octet \in Nat
  BY OctetPowers
<1> HIDE DEF o
<1>3. o = <<o[1], o[2], o[3], o[4]>>
  <2> DEFINE t == <<o[1], o[2], o[3], o[4]>>
  <2>1. o = [k \in 1 .. 4 |-> o[k]]
    BY <1>1
  <2>2. t = [k \in 1 .. 4 |-> t[k]]
    OBVIOUS
  <2>3. ASSUME NEW k \in 1 .. 4 PROVE o[k] = t[k]
    <3>1. k \in {1, 2, 3, 4}
      OBVIOUS
    <3>2. QED
      BY <3>1
  <2> HIDE DEF t
  <2>4. o = t
    BY <2>1, <2>2, <2>3
  <2>5. QED
    BY <2>4 DEF t
<1>4. \A k \in 1 .. 4 : o[k] \in Nat
  <2>1. o \in Seq(Nat)
    BY <1>1
  <2>2. \A k \in 1 .. Len(o) : o[k] \in Nat
    BY <2>1
  <2>3. QED
    BY <1>1, <2>2
<1>5. \A k \in 1 .. 4 : o[k] \in 0 .. Octet - 1
  BY <1>1, <1>2, <1>4
<1>6. QED
  BY <1>3, <1>5 DEF o

(* ipv4Number of a text is an address with the octets of the text. *)
LEMMA OctetsOfText ==
  ASSUME NEW text, IsIPv4(text), IsText(text)
  PROVE  Octets(ipv4Number(text)) = text.octets /\ ipv4Number(text) \in Addresses
<1> DEFINE b == Octet
           o1 == text.octets[1]
           o2 == text.octets[2]
           o3 == text.octets[3]
           o4 == text.octets[4]
           n2 == o1 * b + o2
           n3 == n2 * b + o3
           n4 == n3 * b + o4
<1>1. b \in Nat /\ b > 0 /\ Power2[AddrBits] = b * b * b * b
  BY OctetPowers
<1>2. /\ text.octets = <<o1, o2, o3, o4>>
      /\ o1 \in Nat /\ o1 < b /\ o2 \in Nat /\ o2 < b /\ o3 \in Nat /\ o3 < b /\ o4 \in Nat /\ o4 < b
  BY TextDigits, OctetPowers
<1>3. ipv4Number(text) = n4
  BY DEF ipv4Number
<1> HIDE DEF b, o1, o2, o3, o4
<1>4. n2 \in Nat /\ n2 \div b = o1 /\ n2 % b = o2
  <2>1. o1 * b + o2 \in Nat
    BY <1>1, <1>2
  <2>2. o1 \in Nat /\ o2 \in Nat /\ b \in Nat /\ o2 < b
    BY <1>1, <1>2
  <2>3. (o1 * b + o2) \div b = o1 /\ (o1 * b + o2) % b = o2
    BY <2>2, DivisionUnique, Zenon
  <2>4. QED
    BY <2>1, <2>3
<1> HIDE DEF n2
<1>5. n3 \in Nat /\ n3 \div b = n2 /\ n3 % b = o3
  <2>1. n2 * b + o3 \in Nat
    BY <1>1, <1>2, <1>4
  <2>2. (n2 * b + o3) \div b = n2 /\ (n2 * b + o3) % b = o3
    BY <1>1, <1>2, <1>4, DivisionUnique, Zenon
  <2>3. QED
    BY <2>1, <2>2
<1> HIDE DEF n3
<1>6. n4 \in Nat /\ n4 \div b = n3 /\ n4 % b = o4
  <2>1. n3 * b + o4 \in Nat
    BY <1>1, <1>2, <1>5
  <2>2. (n3 * b + o4) \div b = n3 /\ (n3 * b + o4) % b = o4
    BY <1>1, <1>2, <1>5, DivisionUnique, Zenon
  <2>3. QED
    BY <2>1, <2>2
<1>7. Octets(n4) = <<o1, o2, o3, o4>>
  <2> HIDE DEF n4
  <2>1. Octets(n4) = <<((n4 \div b) \div b) \div b, ((n4 \div b) \div b) % b,
                       (n4 \div b) % b, n4 % b>>
    BY <1>6, OctetsAsQuotients DEF b
  <2>2. QED
    BY <1>4, <1>5, <1>6, <2>1
<1>8. n4 < b * b * b * b
  <2>1. n2 < b * b
    <3>1. o1 * b + b <= b * b /\ o1 * b \in Nat /\ b * b \in Nat
      BY <1>1, <1>2, ProductMonotonic
    <3>2. QED
      BY <1>1, <1>2, <3>1 DEF n2
  <2>2. n3 < b * b * b
    <3>1. n2 * b + b <= (b * b) * b /\ n2 * b \in Nat /\ b * b \in Nat /\ (b * b) * b \in Nat
      BY <1>1, <1>4, <2>1, ProductMonotonic
    <3>2. QED
      BY <1>1, <1>2, <3>1 DEF n3
  <2>3. b * b * b \in Nat
    BY <1>1
  <2>4. n3 * b + b <= (b * b * b) * b /\ n3 * b \in Nat /\ (b * b * b) * b \in Nat
    BY <1>1, <1>5, <2>2, <2>3, ProductMonotonic
  <2>5. QED
    BY <1>1, <1>2, <2>4
<1> HIDE DEF n4
<1>9. n4 \in Addresses
  <2> DEFINE z == b * b * b * b
  <2>1. z \in Nat
    BY <1>1
  <2>2. n4 < z /\ Power2[AddrBits] = z
    BY <1>1, <1>8
  <2> HIDE DEF z
  <2>3. QED
    BY <1>6, <2>1, <2>2 DEF Addresses
<1>10. QED
  BY <1>2, <1>3, <1>7, <1>9

(* A number is the address of its octets. *)
LEMMA NumberOfOctets ==
  ASSUME NEW text, NEW x \in Nat, text.octets = Octets(x)
  PROVE  ipv4Number(text) = x
<1> DEFINE b == Octet
           y == x \div b
           z == y \div b
<1>1. b \in Nat /\ b > 0
  BY OctetPowers
<1>2. text.octets = <<z \div b, z % b, y % b, x % b>>
  BY OctetsAsQuotients
<1>3. ipv4Number(text) = (((z \div b) * b + (z % b)) * b + (y % b)) * b + (x % b)
  BY <1>2 DEF ipv4Number
<1> HIDE DEF b
<1>4. y \in Nat /\ x = y * b + (x % b)
  BY <1>1, Division
<1> HIDE DEF y
<1>5. z \in Nat /\ y = z * b + (y % b)
  BY <1>1, <1>4, Division
<1> HIDE DEF z
<1>6. z = (z \div b) * b + (z % b)
  BY <1>1, <1>5, Division
<1>7. QED
  BY <1>3, <1>4, <1>5, <1>6

(* An address in a file names the number whose octets it lists. *)
LEMMA SameAddress ==
  ASSUME NEW text, IsIPv4(text), IsText(text), NEW x \in Nat
  PROVE  text.octets = Octets(x) <=> ipv4Number(text) = x
BY OctetsOfText, NumberOfOctets

(* Bit k of an address, counted from the most significant one *)
NumberBit(x, k) == (x \div Power2[AddrBits - 1 - k]) % 2

(* The quotient by a power of two, one bit further *)
LEMMA NextBit ==
  ASSUME NEW x \in Nat, NEW k \in 0 .. AddrBits - 1
  PROVE  /\ x \div Power2[AddrBits - k] \in Nat /\ NumberBit(x, k) \in {0, 1}
         /\ x \div Power2[AddrBits - (k + 1)] = 2 * (x \div Power2[AddrBits - k]) + NumberBit(x, k)
<1> DEFINE m == Power2[AddrBits - (k + 1)]
           y == x \div m
<1>1. /\ AddrBits - k \in 0 .. AddrBits /\ AddrBits - k # 0
      /\ AddrBits - (k + 1) \in 0 .. AddrBits /\ (AddrBits - k) - 1 = AddrBits - (k + 1)
      /\ AddrBits - 1 - k = AddrBits - (k + 1)
  BY AddrBitsNat
<1>2. m \in Nat /\ m > 0 /\ Power2[AddrBits - k] = 2 * m
  BY <1>1, PowerPositive, PowerSteps
<1>3. NumberBit(x, k) = y % 2
  BY <1>1 DEF NumberBit
<1> HIDE DEF m
<1>4. m * 2 = 2 * m /\ y \div 2 = x \div (m * 2)
  BY <1>2, DivDiv
<1>5. y \in Nat
  BY <1>2, Division
<1>6. x \div Power2[AddrBits - k] = y \div 2
  BY <1>2, <1>4
<1> HIDE DEF y
<1>7. y \div 2 \in Nat /\ y % 2 \in {0, 1} /\ y = 2 * (y \div 2) + (y % 2)
  BY <1>5
<1>8. QED
  BY <1>3, <1>6, <1>7 DEF y, m

(* Two addresses have the same first d bits when the quotients agree. *)
LEMMA TopBits ==
  ASSUME NEW x \in Addresses, NEW y \in Addresses, NEW depth \in 0 .. AddrBits
  PROVE  (\A k \in 0 .. depth - 1 : NumberBit(x, k) = NumberBit(y, k))
           <=> x \div Power2[AddrBits - depth] = y \div Power2[AddrBits - depth]
<1> DEFINE top(z, d) == z \div Power2[AddrBits - d]
           same(d) == \A k \in 0 .. d - 1 : NumberBit(x, k) = NumberBit(y, k)
           T == {d \in Nat : d <= AddrBits => (same(d) <=> top(x, d) = top(y, d))}
<1>0. AddrBits \in Nat /\ x \in Nat /\ y \in Nat
  BY AddrBitsNat DEF Addresses
<1>1. 0 \in T
  <2> DEFINE m == Power2[AddrBits]
  <2>1. m \in Nat /\ x < m /\ y < m
    BY <1>0, PowerPositive DEF Addresses
  <2> HIDE DEF m
  <2>2. (0 * m + x) \div m = 0 /\ (0 * m + y) \div m = 0
    BY <1>0, <2>1, DivisionUnique
  <2>3. x \div m = 0 /\ y \div m = 0
    BY <1>0, <2>1, <2>2
  <2>4. top(x, 0) = top(y, 0)
    BY <1>0, <2>3 DEF m
  <2>5. QED
    BY <2>4
<1>2. ASSUME NEW d \in Nat, d \in T PROVE d + 1 \in T
  <2>1. CASE d + 1 <= AddrBits
    <3>1. d \in 0 .. AddrBits - 1 /\ d <= AddrBits
      BY <1>0, <2>1
    <3>2. /\ top(x, d) \in Nat /\ NumberBit(x, d) \in {0, 1}
          /\ top(x, d + 1) = 2 * top(x, d) + NumberBit(x, d)
      BY <1>0, <3>1, NextBit
    <3>3. /\ top(y, d) \in Nat /\ NumberBit(y, d) \in {0, 1}
          /\ top(y, d + 1) = 2 * top(y, d) + NumberBit(y, d)
      BY <1>0, <3>1, NextBit
    <3>4. same(d) <=> top(x, d) = top(y, d)
      BY <1>2, <3>1
    <3>5. same(d + 1) <=> same(d) /\ NumberBit(x, d) = NumberBit(y, d)
      <4>1. \A k : k \in 0 .. (d + 1) - 1 <=> k \in 0 .. d - 1 \/ k = d
        OBVIOUS
      <4>2. QED
        BY <4>1
    <3> HIDE DEF top, same
    <3>6. top(x, d + 1) = top(y, d + 1)
            <=> top(x, d) = top(y, d) /\ NumberBit(x, d) = NumberBit(y, d)
      BY <3>2, <3>3
    <3>7. QED
      BY <3>4, <3>5, <3>6
  <2>2. CASE ~ (d + 1 <= AddrBits)
    BY <2>2
  <2>3. QED
    BY <2>1, <2>2
<1>3. Nat \subseteq T
  <2> HIDE DEF T
  <2>1. QED
    BY <1>1, <1>2, SetInduction
<1>4. QED
  BY <1>0, <1>3

(* The low bits of a number are those of its last octet. *)
LEMMA LowBit ==
  ASSUME NEW y \in Nat, NEW c \in 0 .. OctetBits - 1
  PROVE  ((y % Octet) \div Power2[c]) % 2 = (y \div Power2[c]) % 2
<1> DEFINE m == Power2[c]
           e == Power2[OctetBits - c - 1]
           h == y \div Octet
           l == y % Octet
           l1 == l \div m
           l2 == l % m
<1>1. /\ OctetBits \in Nat /\ c \in 0 .. AddrBits /\ OctetBits - c \in 0 .. AddrBits
      /\ OctetBits - c # 0 /\ OctetBits - c - 1 \in 0 .. AddrBits
      /\ (OctetBits - c) - 1 = OctetBits - c - 1 /\ c + (OctetBits - c) = OctetBits
      /\ c + (OctetBits - c) <= AddrBits /\ OctetBits - c \in Nat
  BY FormatAssumption DEF AddrBits
<1>2. m \in Nat /\ m > 0 /\ e \in Nat /\ Octet \in Nat /\ Octet > 0
  BY <1>1, PowerPositive, OctetPowers
<1>3. Octet = m * (2 * e)
  <2>1. Power2[OctetBits - c] = 2 * e
    BY <1>1, PowerSteps
  <2>2. Power2[c + (OctetBits - c)] = m * Power2[OctetBits - c]
    BY <1>1, PowerSum
  <2>3. QED
    BY <1>1, <2>1, <2>2 DEF Octet
<1> HIDE DEF m, e
<1>4. h \in Nat /\ l \in Nat /\ y = h * Octet + l
  BY <1>2, Division
<1> HIDE DEF h, l
<1>5. l1 \in Nat /\ l2 \in Nat /\ l2 < m /\ l = l1 * m + l2
  BY <1>2, <1>4, Division
<1> HIDE DEF l1, l2
<1> DEFINE z == h * e
<1>6. z \in Nat /\ h * Octet = (2 * z) * m
  BY <1>2, <1>3, <1>4
<1> HIDE DEF z
<1>7. (2 * z) * m + l1 * m = (2 * z + l1) * m /\ 2 * z + l1 \in Nat /\ (2 * z + l1) * m \in Nat
      /\ l1 * m \in Nat /\ (2 * z) * m \in Nat
  BY <1>2, <1>5, <1>6
<1>8. y = (2 * z + l1) * m + l2
  BY <1>4, <1>5, <1>6, <1>7
<1>9. ((2 * z + l1) * m + l2) \div m = 2 * z + l1
  BY <1>2, <1>5, <1>7, DivisionUnique
<1>10. (2 * z + l1) % 2 = l1 % 2
  BY <1>5, <1>6
<1>11. (y \div m) % 2 = l1 % 2
  BY <1>8, <1>9, <1>10
<1>12. QED
  BY <1>11 DEF l1, l, m

(* Octet q of an address, as a quotient *)
LEMMA OctetAt ==
  ASSUME NEW x \in Addresses, NEW q \in 0 .. 3
  PROVE  Octets(x)[q + 1] = (x \div Power2[(3 - q) * OctetBits]) % Octet
<1> DEFINE b == Octet
<1>1. /\ b \in Nat /\ b > 0 /\ x \in Nat /\ OctetBits \in Nat
      /\ Power2[2 * OctetBits] = b * b /\ Power2[3 * OctetBits] = b * b * b
      /\ Power2[AddrBits] = b * b * b * b /\ Power2[0] = 1 /\ Power2[OctetBits] = b
  BY OctetPowers, PowerSteps, FormatAssumption DEF Addresses, Octet
<1>2. Octets(x) = <<x \div (b * b * b), (x \div (b * b)) % b, (x \div b) % b, x % b>>
  BY DEF Octets
<1>3. x \div (b * b * b) = (x \div (b * b * b)) % b
  <2> DEFINE m == b * b * b
             h == x \div m
  <2> HIDE DEF b
  <2>1. m \in Nat /\ m > 0
    <3>1. b * b \in Nat /\ b * b > 0
      BY <1>1
    <3> DEFINE c == b * b
    <3> HIDE DEF c
    <3>2. c * b \in Nat /\ c * b > 0
      BY <1>1, <3>1 DEF c
    <3>3. QED
      BY <3>2 DEF c
  <2>2. x < m * b
    <3>1. m * b = Power2[AddrBits] /\ m * b \in Nat
      BY <1>1, <2>1
    <3>2. QED
      BY <3>1 DEF Addresses
  <2> HIDE DEF m
  <2>3. h \in Nat /\ x % m \in Nat /\ x = h * m + (x % m)
    BY <1>1, <2>1, Division
  <2> HIDE DEF h
  <2>4. h < b
    <3> SUFFICES ASSUME b <= h PROVE FALSE
      BY <1>1, <2>3
    <3>1. b * m <= h * m
      <4>1. CASE b = h
        BY <1>1, <2>1, <4>1
      <4>2. CASE b < h
        <5>1. b * m + m <= h * m /\ b * m \in Nat /\ h * m \in Nat
          BY <1>1, <2>1, <2>3, <4>2, ProductMonotonic
        <5>2. QED
          BY <2>1, <5>1
      <4>3. QED
        BY <1>1, <2>3, <4>1, <4>2
    <3>2. b * m = m * b /\ b * m \in Nat /\ h * m \in Nat
      BY <1>1, <2>1, <2>3
    <3>3. QED
      BY <1>1, <2>2, <2>3, <3>1, <3>2
  <2>5. h % b = h
    BY <1>1, <2>3, <2>4
  <2>6. QED
    BY <2>5 DEF h, m
<1>4. q \in {0, 1, 2, 3}
  OBVIOUS
<1>5. /\ (3 - 0) * OctetBits = 3 * OctetBits /\ (3 - 1) * OctetBits = 2 * OctetBits
      /\ (3 - 2) * OctetBits = OctetBits /\ (3 - 3) * OctetBits = 0
  BY <1>1
<1>6. x \div 1 = x
  BY <1>1
<1>7. CASE q = 0
  BY <1>1, <1>2, <1>3, <1>5, <1>7
<1>8. CASE q = 1
  BY <1>1, <1>2, <1>5, <1>8
<1>9. CASE q = 2
  BY <1>1, <1>2, <1>5, <1>9
<1>10. CASE q = 3
  BY <1>1, <1>2, <1>5, <1>6, <1>10
<1>11. QED
  BY <1>4, <1>7, <1>8, <1>9, <1>10

(* A bit of the octets of an address is that bit of its number. *)
LEMMA BitOfOctets ==
  ASSUME NEW x \in Addresses, NEW k \in 0 .. AddrBits - 1
  PROVE  Bit(Octets(x), k) = NumberBit(x, k)
<1> DEFINE w == OctetBits
           q == k \div w
           c == w - 1 - (k % w)
           n == (3 - q) * w
<1>1. w \in Nat /\ w > 0 /\ k \in Nat /\ AddrBits = 4 * w /\ k < 4 * w /\ x \in Nat
  BY FormatAssumption DEF AddrBits, Addresses
<1>2. q \in Nat /\ k % w \in Nat /\ k % w < w /\ k = q * w + (k % w)
  BY <1>1, Division
<1>3. q \in 0 .. 3
  <2> HIDE DEF q
  <2> SUFFICES ASSUME 4 <= q PROVE FALSE
    BY <1>2
  <2>1. 4 * w <= q * w
    <3>1. CASE q = 4
      BY <1>1, <3>1
    <3>2. CASE 4 < q
      <4>1. 4 * w + w <= q * w /\ q * w \in Nat
        BY <1>1, <1>2, <3>2, ProductMonotonic
      <4>2. QED
        BY <1>1, <4>1
    <3>3. QED
      BY <1>2, <3>1, <3>2
  <2>2. q * w \in Nat
    BY <1>1, <1>2
  <2>3. QED
    BY <1>1, <1>2, <2>1, <2>2
<1>4. c \in 0 .. w - 1 /\ n \in Nat /\ n + c = AddrBits - 1 - k /\ n + c <= AddrBits
  <2> HIDE DEF q
  <2>1. q \in {0, 1, 2, 3}
    BY <1>3
  <2>2. (3 - q) * w \in Nat /\ (3 - q) * w = 3 * w - q * w
    BY <1>1, <2>1
  <2>3. QED
    BY <1>1, <1>2, <2>1, <2>2
<1>5. Octets(x)[q + 1] = (x \div Power2[n]) % Octet
  BY <1>3, OctetAt
<1>6. Bit(Octets(x), k) = (((x \div Power2[n]) % Octet) \div Power2[c]) % 2
  BY <1>5 DEF Bit
<1> HIDE DEF c, n, q
<1>7. n \in 0 .. AddrBits /\ c \in 0 .. AddrBits /\ c \in Nat
  BY <1>1, <1>4
<1>8. Power2[n] \in Nat /\ Power2[n] > 0 /\ Power2[c] \in Nat /\ Power2[c] > 0
  BY <1>7, PowerPositive
<1>9. x \div Power2[n] \in Nat
  BY <1>1, <1>8, Division
<1>10. Bit(Octets(x), k) = ((x \div Power2[n]) \div Power2[c]) % 2
  BY <1>4, <1>6, <1>9, LowBit
<1>11. (x \div Power2[n]) \div Power2[c] = x \div (Power2[n] * Power2[c])
  BY <1>1, <1>8, DivDiv
<1>12. Power2[n] * Power2[c] = Power2[AddrBits - 1 - k]
  <2>1. Power2[n + c] = Power2[n] * Power2[c]
    BY <1>4, <1>7, PowerSum
  <2>2. QED
    BY <1>4, <2>1
<1>13. QED
  BY <1>10, <1>11, <1>12 DEF NumberBit

(* The numbers with the same first bits have the same network. *)
LEMMA SameNetwork ==
  ASSUME NEW x \in Nat, NEW y \in Nat, NEW depth \in 0 .. AddrBits
  PROVE  x \div Power2[AddrBits - depth] = y \div Power2[AddrBits - depth]
           <=> Network(x, depth) = Network(y, depth)
<1> DEFINE m == Power2[AddrBits - depth]
<1>1. m \in Nat /\ m > 0
  <2>1. AddrBits - depth \in 0 .. AddrBits
    BY AddrBitsNat
  <2>2. QED
    BY <2>1, PowerPositive
<1>2. Network(x, depth) = x - (x % m) /\ Network(y, depth) = y - (y % m)
  BY DEF Network
<1> HIDE DEF m
<1>3. /\ x \div m \in Nat /\ x % m \in Nat /\ x = (x \div m) * m + (x % m)
      /\ y \div m \in Nat /\ y % m \in Nat /\ y = (y \div m) * m + (y % m)
  BY <1>1, Division
<1> DEFINE u == x \div m
           v == y \div m
<1>4. u \in Nat /\ v \in Nat /\ u * m \in Nat /\ v * m \in Nat
  BY <1>1, <1>3
<1>5. Network(x, depth) = u * m /\ Network(y, depth) = v * m
  BY <1>2, <1>3, <1>4
<1> HIDE DEF u, v
<1>6. u < v => u * m + m <= v * m
  BY <1>1, <1>4, ProductMonotonic
<1>7. v < u => v * m + m <= u * m
  BY <1>1, <1>4, ProductMonotonic
<1>8. u = v <=> u * m = v * m
  BY <1>1, <1>4, <1>6, <1>7
<1>9. QED
  BY <1>5, <1>8 DEF u, v, m

-----------------------------------------------------------------------------
(* What a rule means and what the tables hold of it *)

(* A prefix in a file covers the addresses that share its first bits, and   *)
(* these are the ones whose network is the parsed prefix.                   *)
LEMMA TextRoute ==
  ASSUME NEW d, RouteParses(d), IsText(d.prefix), NEW p \in FlowKeys
  PROVE  TextRouteMatches(d, p)
           <=> Network(p.dst_ipv4, d.prefix.depth) = ParsedPrefix(d.prefix)
<1> DEFINE n == ipv4Number(d.prefix)
           x == p.dst_ipv4
           depth == d.prefix.depth
<1>1. IsIPv4(d.prefix) /\ depth \in 1 .. AddrBits
  BY DEF RouteParses
<1>2. n \in Addresses /\ d.prefix.octets = Octets(n)
  BY <1>1, OctetsOfText
<1>3. x \in Addresses
  BY DEF FlowKeys
<1>4. TextRouteMatches(d, p)
        <=> \A k \in 0 .. depth - 1 : Bit(Octets(n), k) = Bit(Octets(x), k)
  BY <1>2 DEF TextRouteMatches
<1>5. ParsedPrefix(d.prefix) = Network(n, depth)
  BY DEF ParsedPrefix
<1> HIDE DEF n, x, depth
<1>6. /\ depth \in 0 .. AddrBits /\ \A k \in 0 .. depth - 1 : k \in 0 .. AddrBits - 1
      /\ n \in Nat /\ x \in Nat
  BY <1>1, <1>2, <1>3, AddrBitsNat DEF Addresses
<1>7. \A k \in 0 .. depth - 1 : /\ Bit(Octets(n), k) = NumberBit(n, k)
                                /\ Bit(Octets(x), k) = NumberBit(x, k)
  BY <1>2, <1>3, <1>6, BitOfOctets
<1>8. TextRouteMatches(d, p) <=> \A k \in 0 .. depth - 1 : NumberBit(n, k) = NumberBit(x, k)
  BY <1>4, <1>7
<1>9. TextRouteMatches(d, p)
        <=> n \div Power2[AddrBits - depth] = x \div Power2[AddrBits - depth]
  BY <1>2, <1>3, <1>6, <1>8, TopBits
<1>10. TextRouteMatches(d, p) <=> Network(n, depth) = Network(x, depth)
  BY <1>6, <1>9, SameNetwork
<1>11. QED
  BY <1>5, <1>10 DEF x, depth

(* A route that a caller gives as a number matches as the table does. *)
LEMMA NumberRoute ==
  ASSUME NEW rule, rule.key \in RouteKeys, rule.key.depth \in 1 .. AddrBits,
         Network(rule.key.prefix, rule.key.depth) = rule.key.prefix, NEW p \in FlowKeys
  PROVE  RouteMatches(rule, p) <=> Network(p.dst_ipv4, rule.key.depth) = rule.key.prefix
<1>1. /\ rule.key.prefix \in Nat /\ p.dst_ipv4 \in Nat /\ rule.key.depth \in 0 .. AddrBits
  BY AddrBitsNat DEF RouteKeys, FlowKeys, Addresses
<1>2. QED
  BY <1>1, SameNetwork DEF RouteMatches

(* A flow of a rules file matches the packets with its key. *)
LEMMA TextFlow ==
  ASSUME NEW d, FlowParses(d), IsText(d.src_ipv4), IsText(d.dst_ipv4),
         NEW p \in FlowKeys, p.l4_proto \in {6, 17}
  PROVE  TextFlowMatches(d, p) <=> ParsedFlow(d).key = dp_flow_key_from_meta(p)
<1>1. IsIPv4(d.src_ipv4) /\ IsIPv4(d.dst_ipv4) /\ d.protocol \in {"tcp", "udp"}
  BY DEF FlowParses
<1>2. p.src_ipv4 \in Nat /\ p.dst_ipv4 \in Nat
  BY DEF FlowKeys, Addresses
<1>3. /\ d.src_ipv4.octets = Octets(p.src_ipv4) <=> ipv4Number(d.src_ipv4) = p.src_ipv4
      /\ d.dst_ipv4.octets = Octets(p.dst_ipv4) <=> ipv4Number(d.dst_ipv4) = p.dst_ipv4
  BY <1>1, <1>2, SameAddress
<1>4. d.protocol = (IF p.l4_proto = 6 THEN "tcp" ELSE "udp")
        <=> parseProtocol(d.protocol) = p.l4_proto
  BY <1>1 DEF parseProtocol
<1> DEFINE a == ParsedFlow(d).key
           b == dp_flow_key_from_meta(p)
<1>5. /\ a = [src_ipv4 |-> ipv4Number(d.src_ipv4), dst_ipv4 |-> ipv4Number(d.dst_ipv4),
              src_port |-> d.src_port, dst_port |-> d.dst_port,
              l4_proto |-> parseProtocol(d.protocol)]
      /\ b = [src_ipv4 |-> p.src_ipv4, dst_ipv4 |-> p.dst_ipv4, src_port |-> p.src_port,
              dst_port |-> p.dst_port, l4_proto |-> p.l4_proto]
  BY DEF ParsedFlow, dp_flow_key_from_meta
<1> HIDE DEF a, b
<1>6. a = b <=> /\ ipv4Number(d.src_ipv4) = p.src_ipv4 /\ ipv4Number(d.dst_ipv4) = p.dst_ipv4
                /\ d.src_port = p.src_port /\ d.dst_port = p.dst_port
                /\ parseProtocol(d.protocol) = p.l4_proto
  BY <1>5
<1>7. QED
  BY <1>3, <1>4, <1>6 DEF TextFlowMatches, a, b

(* So does a flow that a caller gives as a key. *)
LEMMA NumberFlow ==
  ASSUME NEW rule, rule.key \in FlowKeys, NEW p \in FlowKeys
  PROVE  FlowMatches(rule, p) <=> rule.key = dp_flow_key_from_meta(p)
<1> DEFINE a == rule.key
<1>1. DOMAIN a = {"src_ipv4", "dst_ipv4", "src_port", "dst_port", "l4_proto"}
  BY DEF FlowKeys
<1>2. a = [src_ipv4 |-> a.src_ipv4, dst_ipv4 |-> a.dst_ipv4, src_port |-> a.src_port,
           dst_port |-> a.dst_port, l4_proto |-> a.l4_proto]
  BY DEF FlowKeys
<1>3. FlowMatches(rule, p) <=>
        /\ a.src_ipv4 = p.src_ipv4 /\ a.dst_ipv4 = p.dst_ipv4 /\ a.src_port = p.src_port
        /\ a.dst_port = p.dst_port /\ a.l4_proto = p.l4_proto
  BY <1>1 DEF FlowMatches
<1> HIDE DEF a
<1>4. QED
  BY <1>2, <1>3 DEF dp_flow_key_from_meta, a

(* An action of a rules file is the one the table stores. *)
LEMMA ParsedActionMeant ==
  ASSUME NEW d, ActionParses(d), IsTextAction(d)
  PROVE  TextAction(parseAction(d), d)
<1> DEFINE a == parseAction(d)
<1>1. /\ a.type = d.type /\ DOMAIN a.rewrite = DOMAIN d.fields
      /\ \A f \in DOMAIN d.fields :
           a.rewrite[f] = IF f \in AddressFields THEN ipv4Number(d.fields[f]) ELSE d.fields[f]
  BY DEF parseAction
<1>2. ASSUME NEW f \in DOMAIN d.fields, f \in AddressFields
      PROVE  Octets(ipv4Number(d.fields[f])) = d.fields[f].octets
  BY <1>2, OctetsOfText DEF ActionParses, IsTextAction
<1> HIDE DEF a
<1>3. QED
  BY <1>1, <1>2 DEF TextAction, a

(* An argument in numbers, and what the argument itself says of its rules *)
Ruled(argument) ==
  IF argument.via = "file" THEN Normalized(argument.rules) ELSE argument.rules

FlowMeant(argument, j, p) ==
  IF argument.via = "file" THEN TextFlowMatches(argument.rules.flows[j], p)
                           ELSE FlowMatches(argument.rules.flows[j], p)

RouteMeant(argument, j, p) ==
  IF argument.via = "file" THEN TextRouteMatches(argument.rules.routes[j], p)
                           ELSE RouteMatches(argument.rules.routes[j], p)

DepthMeant(argument, j) == IF argument.via = "file" THEN argument.rules.routes[j].prefix.depth
                                                    ELSE argument.rules.routes[j].key.depth

ActionMeant(argument, action, a) ==
  IF argument.via = "file" THEN TextAction(action, a) ELSE action = a

(* The arguments that come as far as dp_snapshot_build *)
Submitted(argument) ==
  IF argument.via = "file" THEN argument.rules \in Documents /\ normalizeRules(argument.rules)
                           ELSE argument.rules \in Snapshots \cup NativeArrays

RoutesNormal(routes) ==
  \A j \in DOMAIN routes :
    /\ routes[j].key.depth \in 1 .. AddrBits
    /\ Network(routes[j].key.prefix, routes[j].key.depth) = routes[j].key.prefix

(* The rules of an argument in numbers are as many as the argument has. *)
LEMMA RuledArrays ==
  ASSUME NEW argument, Submitted(argument)
  PROVE  /\ IsArray(Ruled(argument).flows) /\ Len(Ruled(argument).flows) = Len(argument.rules.flows)
         /\ IsArray(Ruled(argument).routes)
         /\ Len(Ruled(argument).routes) = Len(argument.rules.routes)
         /\ IsArray(argument.rules.flows) /\ IsArray(argument.rules.routes)
BY NormalizedArrays, InputAssumption DEF Ruled, Submitted

(* The rules in numbers say the same as the argument. *)
LEMMA ArgumentRead ==
  ASSUME NEW argument, Submitted(argument), RoutesNormal(Ruled(argument).routes),
         NEW p \in Packets
  PROVE  /\ \A j \in DOMAIN argument.rules.flows :
              /\ FlowMeant(argument, j, p)
                   <=> Ruled(argument).flows[j].key = dp_flow_key_from_meta(p)
              /\ ActionMeant(argument, Ruled(argument).flows[j].action,
                             argument.rules.flows[j].action)
         /\ \A j \in DOMAIN argument.rules.routes :
              /\ RouteMeant(argument, j, p)
                   <=> Network(p.dst_ipv4, Ruled(argument).routes[j].key.depth)
                         = Ruled(argument).routes[j].key.prefix
              /\ ActionMeant(argument, Ruled(argument).routes[j].action,
                             argument.rules.routes[j].action)
              /\ DepthMeant(argument, j) = Ruled(argument).routes[j].key.depth
<1> DEFINE d == argument.rules
<1>0. p \in FlowKeys /\ p.l4_proto \in {6, 17}
  BY InputAssumption
<1>1. CASE argument.via = "file"
  <2>1. /\ d \in Documents /\ normalizeRules(d) /\ Ruled(argument) = Normalized(d)
    BY <1>1 DEF Submitted, Ruled
  <2>2. ASSUME NEW j \in DOMAIN d.flows
        PROVE  /\ TextFlowMatches(d.flows[j], p)
                    <=> Normalized(d).flows[j].key = dp_flow_key_from_meta(p)
               /\ TextAction(Normalized(d).flows[j].action, d.flows[j].action)
    <3> DEFINE f == d.flows[j]
    <3>1. /\ FlowParses(f) /\ IsText(f.src_ipv4) /\ IsText(f.dst_ipv4) /\ IsTextAction(f.action)
      BY <2>1, InputAssumption DEF normalizeRules
    <3>2. Normalized(d).flows[j] = ParsedFlow(f)
      BY DEF Normalized
    <3> HIDE DEF f, d
    <3>3. ParsedFlow(f).action = parseAction(f.action) /\ ActionParses(f.action)
      BY <3>1 DEF ParsedFlow, FlowParses
    <3>4. TextAction(ParsedFlow(f).action, f.action)
      BY <3>1, <3>3, ParsedActionMeant
    <3>5. TextFlowMatches(f, p) <=> ParsedFlow(f).key = dp_flow_key_from_meta(p)
      BY <1>0, <3>1, TextFlow
    <3>6. QED
      BY <3>2, <3>4, <3>5 DEF f
  <2>3. ASSUME NEW j \in DOMAIN d.routes
        PROVE  /\ TextRouteMatches(d.routes[j], p)
                    <=> Network(p.dst_ipv4, Normalized(d).routes[j].key.depth)
                          = Normalized(d).routes[j].key.prefix
               /\ TextAction(Normalized(d).routes[j].action, d.routes[j].action)
               /\ d.routes[j].prefix.depth = Normalized(d).routes[j].key.depth
    <3> DEFINE r == d.routes[j]
    <3>1. RouteParses(r) /\ IsText(r.prefix) /\ IsTextAction(r.action)
      BY <2>1, InputAssumption DEF normalizeRules
    <3>2. Normalized(d).routes[j] = ParsedRoute(r)
      BY DEF Normalized
    <3> HIDE DEF r, d
    <3>3. /\ ParsedRoute(r).action = parseAction(r.action) /\ ActionParses(r.action)
          /\ ParsedRoute(r).key.depth = r.prefix.depth
          /\ ParsedRoute(r).key.prefix = ParsedPrefix(r.prefix)
      BY <3>1 DEF ParsedRoute, RouteParses
    <3>4. TextAction(ParsedRoute(r).action, r.action)
      BY <3>1, <3>3, ParsedActionMeant
    <3>5. TextRouteMatches(r, p) <=> Network(p.dst_ipv4, r.prefix.depth) = ParsedPrefix(r.prefix)
      BY <1>0, <3>1, TextRoute
    <3>6. QED
      BY <3>2, <3>3, <3>4, <3>5 DEF r
  <2>4. QED
    BY <1>1, <2>1, <2>2, <2>3 DEF FlowMeant, RouteMeant, ActionMeant, DepthMeant
<1>2. CASE argument.via # "file"
  <2>1. d \in Snapshots \cup NativeArrays /\ Ruled(argument) = d
    BY <1>2 DEF Submitted, Ruled
  <2>2. ASSUME NEW j \in DOMAIN d.flows
        PROVE  FlowMatches(d.flows[j], p) <=> d.flows[j].key = dp_flow_key_from_meta(p)
    <3>1. d.flows[j].key \in FlowKeys
      BY <2>1, InputAssumption
    <3>2. QED
      BY <1>0, <3>1, NumberFlow
  <2>3. ASSUME NEW j \in DOMAIN d.routes
        PROVE  RouteMatches(d.routes[j], p)
                 <=> Network(p.dst_ipv4, d.routes[j].key.depth) = d.routes[j].key.prefix
    <3>1. d.routes[j].key \in RouteKeys
      BY <2>1, InputAssumption
    <3>2. /\ d.routes[j].key.depth \in 1 .. AddrBits
          /\ Network(d.routes[j].key.prefix, d.routes[j].key.depth) = d.routes[j].key.prefix
      BY <2>1 DEF RoutesNormal
    <3>3. QED
      BY <1>0, <3>1, <3>2, NumberRoute
  <2>4. QED
    BY <1>2, <2>1, <2>2, <2>3 DEF FlowMeant, RouteMeant, ActionMeant, DepthMeant
<1>3. QED
  BY <1>1, <1>2

(* Meant without regard to how the argument was given *)
LEMMA MeantCases ==
  ASSUME NEW argument, NEW p, NEW action,
         IF \E j \in DOMAIN argument.rules.flows : FlowMeant(argument, j, p)
         THEN \E j \in DOMAIN argument.rules.flows :
                /\ FlowMeant(argument, j, p)
                /\ ActionMeant(argument, action, argument.rules.flows[j].action)
         ELSE IF \E j \in DOMAIN argument.rules.routes : RouteMeant(argument, j, p)
         THEN \E j \in DOMAIN argument.rules.routes :
                /\ RouteMeant(argument, j, p)
                /\ \A k \in DOMAIN argument.rules.routes :
                     RouteMeant(argument, k, p) => DepthMeant(argument, k) <= DepthMeant(argument, j)
                /\ ActionMeant(argument, action, argument.rules.routes[j].action)
         ELSE action = Miss
  PROVE  Meant(argument, p, action)
BY DEF Meant, FlowMeant, RouteMeant, DepthMeant, ActionMeant

(* The tables of a snapshot hold the first f flows and r routes. *)
Holds(s, rules, f, r) ==
  /\ DOMAIN s.actions = 0 .. f + r - 1
  /\ DOMAIN s.flow_table = Keys(rules.flows, f) /\ DOMAIN s.route_table = Keys(rules.routes, r)
  /\ \A j \in 1 .. f : /\ s.flow_table[rules.flows[j].key] = j - 1
                       /\ s.actions[j - 1] = rules.flows[j].action
  /\ \A j \in 1 .. r : /\ s.route_table[rules.routes[j].key] = f + j - 1
                       /\ s.actions[f + j - 1] = rules.routes[j].action

HoldsAll(s, rules) == Holds(s, rules, Len(rules.flows), Len(rules.routes))

(* A snapshot that packets may use *)
Sound(s, argument) == /\ Submitted(argument) /\ RoutesNormal(Ruled(argument).routes)
                      /\ HoldsAll(s, Ruled(argument))

(* Among the prefixes that cover an address there is a longest one. *)
LEMMA LongestExists ==
  ASSUME NEW C, C # {}, \A key \in C : key.depth \in 1 .. AddrBits
  PROVE  \E key \in C : \A other \in C : other.depth <= key.depth
<1> DEFINE U == {n \in Nat : \E key \in C : n = AddrBits - key.depth}
           R == {ss \in Nat \X Nat : ss[1] < ss[2]}
<1>0. AddrBits \in Nat
  BY AddrBitsNat
<1>1. U # {} /\ U \subseteq Nat
  <2>1. PICK key \in C : TRUE
    OBVIOUS
  <2>2. AddrBits - key.depth \in Nat
    BY <1>0
  <2>3. QED
    BY <2>1, <2>2
<1>2. PICK n \in U : \A m \in U : ~ (<<m, n>> \in R)
  <2> HIDE DEF R, U
  <2>1. IsWellFoundedOn(R, Nat)
    BY LessThanWellFounded DEF R
  <2>2. QED
    BY <1>1, <2>1, WFMin
<1>3. PICK key \in C : n = AddrBits - key.depth
  BY <1>2
<1>4. ASSUME NEW other \in C PROVE other.depth <= key.depth
  <2> DEFINE m == AddrBits - other.depth
  <2>1. m \in Nat /\ n \in Nat
    BY <1>0, <1>2
  <2>2. m \in U
    BY <2>1
  <2> HIDE DEF m
  <2>3. ~ (m < n)
    <3>1. <<m, n>> \in R <=> m < n
      BY <2>1
    <3>2. QED
      BY <1>2, <2>2, <3>1
  <2>4. QED
    BY <1>0, <1>3, <2>1, <2>3 DEF m
<1>5. QED
  BY <1>4

(* The kinds of objects that a snapshot consists of are those its rules    *)
(* need.                                                                    *)
LEMMA NeededKinds ==
  ASSUME NEW rules, Len(rules.flows) \in Nat, Len(rules.routes) \in Nat
  PROVE  /\ "flow_table" \in Needed(rules) <=> Len(rules.flows) # 0
         /\ "route_table" \in Needed(rules) <=> Len(rules.routes) # 0
         /\ "actions" \in Needed(rules) <=> Len(rules.flows) + Len(rules.routes) # 0
BY DEF Needed, ActionCount

(* In a sound snapshot whose objects are live, dp_lookup_packet finds the   *)
(* action that the argument asks for.                                       *)
LEMMA LookupMeant ==
  ASSUME NEW s, NEW argument, Sound(s, argument),
         \A kind : Live(s, kind) <=> kind \in Needed(argument.rules),
         NEW p \in Packets
  PROVE  Meant(argument, p, dp_lookup_packet(s, p))
<1> DEFINE R == Ruled(argument)
           nf == Len(R.flows)
           nr == Len(R.routes)
           K == dp_flow_key_from_meta(p)
           flows == argument.rules.flows
           routes == argument.rules.routes
           covers(j) == Network(p.dst_ipv4, R.routes[j].key.depth) = R.routes[j].key.prefix
           C == Covering(s.route_table, p.dst_ipv4)
<1>1. Submitted(argument) /\ RoutesNormal(R.routes) /\ Holds(s, R, nf, nr)
  BY DEF Sound, HoldsAll
<1>2. /\ nf \in Nat /\ nr \in Nat /\ DOMAIN flows = 1 .. nf /\ DOMAIN routes = 1 .. nr
      /\ Len(flows) = nf /\ Len(routes) = nr /\ DOMAIN R.routes = 1 .. nr
  BY <1>1, RuledArrays, ArrayDomain
<1>3. /\ Live(s, "flow_table") <=> nf # 0
      /\ Live(s, "route_table") <=> nr # 0
      /\ Live(s, "actions") <=> nf + nr # 0
  BY <1>2, NeededKinds
<1>4. /\ \A j \in 1 .. nf : /\ FlowMeant(argument, j, p) <=> R.flows[j].key = K
                            /\ ActionMeant(argument, R.flows[j].action, flows[j].action)
      /\ \A j \in 1 .. nr : /\ RouteMeant(argument, j, p) <=> covers(j)
                            /\ ActionMeant(argument, R.routes[j].action, routes[j].action)
                            /\ DepthMeant(argument, j) = R.routes[j].key.depth
  BY <1>1, <1>2, ArgumentRead
<1>5. \A j \in 1 .. nr : R.routes[j].key.depth \in 1 .. AddrBits
  BY <1>1, <1>2 DEF RoutesNormal
<1> HIDE DEF R, nf, nr, K, flows, routes
<1>6. FlowHit(s, p) <=> \E j \in 1 .. nf : R.flows[j].key = K
  <2>1. FlowHit(s, p) <=> nf # 0 /\ K \in Keys(R.flows, nf)
    BY <1>1, <1>3 DEF FlowHit, Holds, K
  <2>2. K \in Keys(R.flows, nf) <=> \E j \in 1 .. nf : R.flows[j].key = K
    BY DEF Keys
  <2>3. nf = 0 => ~ \E j \in 1 .. nf : R.flows[j].key = K
    OBVIOUS
  <2>4. QED
    BY <2>1, <2>2, <2>3
<1>7. ASSUME NEW n \in 0 .. nf + nr - 1
      PROVE  ActionAt(s, n) = s.actions[n]
  <2>1. nf + nr # 0 /\ n \in DOMAIN s.actions
    BY <1>1, <1>2, <1>7 DEF Holds
  <2>2. QED
    BY <1>3, <2>1 DEF ActionAt
<1>8. CASE FlowHit(s, p)
  <2>1. PICK j \in 1 .. nf : R.flows[j].key = K
    BY <1>6, <1>8
  <2>2. s.flow_table[K] = j - 1 /\ s.actions[j - 1] = R.flows[j].action
    BY <1>1, <2>1 DEF Holds
  <2>3. j - 1 \in 0 .. nf + nr - 1
    BY <1>2
  <2>4. dp_lookup_packet(s, p) = ActionAt(s, s.flow_table[K])
    BY <1>8 DEF dp_lookup_packet, K
  <2>5. dp_lookup_packet(s, p) = R.flows[j].action
    BY <1>7, <2>2, <2>3, <2>4
  <2>6. FlowMeant(argument, j, p) /\ ActionMeant(argument, R.flows[j].action, flows[j].action)
    BY <1>4, <2>1
  <2>7. QED
    BY <1>2, <2>5, <2>6, MeantCases DEF flows
<1>9. CASE ~ FlowHit(s, p)
  <2>1. ~ \E j \in DOMAIN flows : FlowMeant(argument, j, p)
    BY <1>2, <1>4, <1>6, <1>9
  <2>2. C = {R.routes[j].key : j \in {k \in 1 .. nr : covers(k)}}
    <3>1. DOMAIN s.route_table = Keys(R.routes, nr)
      BY <1>1 DEF Holds
    <3>2. QED
      BY <3>1 DEF Covering, Keys
  <2>3. CASE C # {}
    <3> DEFINE best == CHOOSE key \in C : \A other \in C : other.depth <= key.depth
    <3>1. \A key \in C : key.depth \in 1 .. AddrBits
      BY <1>5, <2>2
    <3>2. best \in C /\ \A other \in C : other.depth <= best.depth
      <4> HIDE DEF C
      <4>1. \E key \in C : \A other \in C : other.depth <= key.depth
        BY <2>3, <3>1, LongestExists
      <4>2. QED
        BY <4>1
    <3>3. rte_lpm_lookup(s.route_table, p.dst_ipv4) = s.route_table[best]
      BY DEF rte_lpm_lookup
    <3> HIDE DEF best
    <3>4. PICK j \in 1 .. nr : covers(j) /\ R.routes[j].key = best
      BY <2>2, <3>2
    <3>5. /\ s.route_table[best] = nf + j - 1
          /\ s.actions[nf + j - 1] = R.routes[j].action
      BY <1>1, <3>4 DEF Holds
    <3>6. nf + j - 1 \in 0 .. nf + nr - 1 /\ nr # 0 /\ nf + j - 1 < nf + nr
      BY <1>2
    <3>7. Cardinality(DOMAIN s.actions) = nf + nr
      <4>1. DOMAIN s.actions = 0 .. nf + nr - 1
        BY <1>1 DEF Holds
      <4>2. Cardinality(0 .. nf + nr - 1) = (nf + nr - 1) - 0 + 1
        <5>1. 0 \in Int /\ nf + nr - 1 \in Int /\ ~ (0 > nf + nr - 1)
          BY <1>2, <3>6
        <5>2. QED
          BY <5>1, FS_Interval
      <4>3. QED
        BY <1>2, <4>1, <4>2
    <3>8. RouteHit(s, p)
      BY <1>3, <2>3, <3>3, <3>5, <3>6, <3>7 DEF RouteHit
    <3>9. dp_lookup_packet(s, p) = ActionAt(s, nf + j - 1)
      BY <1>9, <3>3, <3>5, <3>8 DEF dp_lookup_packet
    <3>10. dp_lookup_packet(s, p) = R.routes[j].action
      BY <1>7, <3>5, <3>6, <3>9
    <3>11. /\ RouteMeant(argument, j, p)
           /\ ActionMeant(argument, R.routes[j].action, routes[j].action)
      BY <1>4, <3>4
    <3>12. ASSUME NEW k \in 1 .. nr, RouteMeant(argument, k, p)
           PROVE  DepthMeant(argument, k) <= DepthMeant(argument, j)
      <4>1. covers(k)
        BY <1>4, <3>12
      <4>2. R.routes[k].key \in C
        BY <2>2, <4>1
      <4>3. R.routes[k].key.depth <= R.routes[j].key.depth
        BY <3>2, <3>4, <4>2
      <4>4. QED
        BY <1>4, <4>3
    <3>13. QED
      BY <1>2, <2>1, <3>10, <3>11, <3>12, MeantCases DEF flows, routes
  <2>4. CASE C = {}
    <3>1. ~ \E j \in DOMAIN routes : RouteMeant(argument, j, p)
      <4>1. ASSUME NEW j \in 1 .. nr, covers(j) PROVE FALSE
        <5>1. R.routes[j].key \in C
          BY <2>2, <4>1
        <5>2. QED
          BY <2>4, <5>1
      <4>2. QED
        BY <1>2, <1>4, <4>1
    <3>2. dp_lookup_packet(s, p) = Miss
      BY <1>9, <2>4 DEF dp_lookup_packet, RouteHit
    <3>3. QED
      BY <2>1, <3>1, <3>2, MeantCases DEF flows, routes
  <2>5. QED
    BY <2>3, <2>4
<1>10. QED
  BY <1>8, <1>9

(* The same keys and actions *)
SameRules(a, b) ==
  /\ Len(a.flows) = Len(b.flows) /\ Len(a.routes) = Len(b.routes)
  /\ \A j \in 1 .. Len(a.flows) : /\ a.flows[j].key = b.flows[j].key
                                  /\ a.flows[j].action = b.flows[j].action
  /\ \A j \in 1 .. Len(a.routes) : /\ a.routes[j].key = b.routes[j].key
                                   /\ a.routes[j].action = b.routes[j].action

(* The C arrays say what the argument of the call says, the tables hold the *)
(* rules added so far, and the snapshots that packets use are complete.     *)
ContentInv ==
  /\ pc \in Calling \cup Building => Submitted(input) /\ SameRules(arrays, Ruled(input))
  /\ pc = "allocate" => Holds(new, arrays, 0, 0)
  /\ pc = "flows" => Holds(new, arrays, i, 0)
  /\ pc = "routes" => Holds(new, arrays, Len(arrays.flows), i)
  /\ rules_generation # 0 /\ pc # "down" => Sound(active_rules, published[rules_generation])
  /\ pc = "grace" => Sound(old_snapshot, published[rules_generation - 1])

(* At the start there is neither a call nor a snapshot. *)
LEMMA ContentInit == Init => ContentInv
BY DEF Init, ContentInv, Calling, Building

(* Steps that touch neither the tables nor the snapshots in use *)
LEMMA ContentKept ==
  ASSUME ContentInv, UNCHANGED rule_vars, pc # "down", pc' \notin Building, pc' # "grace",
         pc' \in Calling => Submitted(input)' /\ SameRules(arrays, Ruled(input))'
  PROVE  ContentInv'
<1>1. UNCHANGED <<active_rules, rules_generation, published>>
  BY DEF rule_vars
<1>2. QED
  BY <1>1 DEF ContentInv, Building

(* The arrays of a call hold the rules the call was given. *)
LEMMA SubmitSame ==
  ASSUME NEW rules, IsArray(rules.flows), IsArray(rules.routes), validateRules(rules),
         Submit(rules)
  PROVE  SameRules(arrays', rules)
<1>1. /\ IsArrays(arrays') /\ Len(arrays'.flows) = Len(rules.flows)
      /\ Len(arrays'.routes) = Len(rules.routes)
  BY SubmittedArrays
<1>2. /\ DOMAIN rules.flows = 1 .. Len(rules.flows) /\ DOMAIN rules.routes = 1 .. Len(rules.routes)
  BY ArrayDomain
<1>3. /\ \A j \in DOMAIN rules.flows : arrays'.flows[j] = dp_rule_set(rules.flows[j])
      /\ \A j \in DOMAIN rules.routes : arrays'.routes[j] = dp_rule_set(rules.routes[j])
  BY DEF Submit
<1>4. /\ \A j \in DOMAIN rules.flows : /\ arrays'.flows[j].key = rules.flows[j].key
                                       /\ arrays'.flows[j].action = rules.flows[j].action
      /\ \A j \in DOMAIN rules.routes : /\ arrays'.routes[j].key = rules.routes[j].key
                                        /\ arrays'.routes[j].action = rules.routes[j].action
  <2>1. \A rule : dp_rule_set(rule).key = rule.key /\ dp_rule_set(rule).action = rule.action
    BY DEF dp_rule_set
  <2>2. QED
    BY <1>3, <2>1
<1>5. QED
  BY <1>1, <1>2, <1>4 DEF SameRules

(* The argument of a native call is itself the arrays. *)
LEMMA SameRulesSelf == \A rules : SameRules(rules, rules)
BY DEF SameRules

(* The calls of the Go runtime and of the C tests *)
LEMMA CallContent ==
  ASSUME ContentInv, LoadRulesFile \/ ReplaceRules \/ NativeCall
  PROVE  ContentInv'
<1>1. pc = "idle" /\ UNCHANGED rule_vars
  BY DEF LoadRulesFile, ReplaceRules, NativeCall, CallBegins
<1>2. pc' \in {"release", "arrays", "build"}
  BY DEF LoadRulesFile, ReplaceRules, NativeCall, Refuse, Submit
<1>3. ASSUME pc' # "release" PROVE Submitted(input') /\ SameRules(arrays', Ruled(input'))
  <2>1. CASE LoadRulesFile
    <3>1. PICK d \in Documents :
            /\ input' = [via |-> "file", rules |-> d]
            /\ \/ ~ normalizeRules(d) /\ Refuse("parse")
               \/ /\ normalizeRules(d)
                  /\ IF validateRules(Normalized(d)) THEN Submit(Normalized(d))
                                                     ELSE Refuse("validate")
      BY <2>1 DEF LoadRulesFile
    <3>2. normalizeRules(d) /\ validateRules(Normalized(d)) /\ Submit(Normalized(d))
      BY <1>3, <3>1, LoadedRulesValid DEF Refuse
    <3>3. Submitted(input') /\ Ruled(input') = Normalized(d)
      BY <3>1, <3>2 DEF Submitted, Ruled
    <3>4. SameRules(arrays', Normalized(d))
      BY <3>2, NormalizedArrays, SubmitSame
    <3>5. QED
      BY <3>3, <3>4
  <2>2. CASE ReplaceRules
    <3>1. PICK rules \in Snapshots :
            /\ input' = [via |-> "api", rules |-> rules]
            /\ IF validateRules(rules) THEN Submit(rules) ELSE Refuse("validate")
      BY <2>2 DEF ReplaceRules
    <3>2. validateRules(rules) /\ Submit(rules)
      BY <1>3, <3>1 DEF Refuse
    <3>3. Submitted(input') /\ Ruled(input') = rules
      BY <3>1 DEF Submitted, Ruled
    <3>4. SameRules(arrays', rules)
      BY <3>2, InputAssumption, SubmitSame
    <3>5. QED
      BY <3>3, <3>4
  <2>3. CASE NativeCall
    <3>1. PICK rules \in NativeArrays :
            arrays' = rules /\ input' = [via |-> "native", rules |-> rules]
      BY <2>3 DEF NativeCall
    <3>2. Submitted(input') /\ Ruled(input') = rules
      BY <3>1 DEF Submitted, Ruled
    <3>3. QED
      BY <3>1, <3>2, SameRulesSelf
  <2>4. QED
    BY <2>1, <2>2, <2>3
<1>4. QED
  BY <1>1, <1>2, <1>3, ContentKept DEF Calling, Building

(* The arrays are allocated, or not, and freed (newRuleArrays). *)
LEMMA ArraysContent ==
  ASSUME ContentInv, ArraysStep \/ Release
  PROVE  ContentInv'
<1>1. /\ pc # "down" /\ UNCHANGED rule_vars /\ pc' \in {"route_array", "build", "idle"}
      /\ pc' # "idle" => pc \in {"arrays", "route_array"} /\ UNCHANGED <<input, arrays>>
  BY DEF ArraysStep, AllocateFlowArray, AllocateRouteArray, newRuleArraysFails, Release
<1>2. pc' \in Calling => Submitted(input)' /\ SameRules(arrays, Ruled(input))'
  BY <1>1 DEF ContentInv, Calling
<1>3. QED
  BY <1>1, <1>2, ContentKept DEF Building

(* A step inside dp_snapshot_build *)
LEMMA BuildContent ==
  ASSUME ContentInv, pc \in Calling \cup Building, pc' \in Building,
         UNCHANGED <<input, arrays, rule_vars>>,
         pc' = "allocate" => Holds(new, arrays, 0, 0)',
         pc' = "flows" => Holds(new, arrays, i, 0)',
         pc' = "routes" => Holds(new, arrays, Len(arrays.flows), i)'
  PROVE  ContentInv'
<1>1. UNCHANGED <<active_rules, rules_generation, published>>
  BY DEF rule_vars
<1>2. Submitted(input)' /\ SameRules(arrays, Ruled(input))'
  BY DEF ContentInv
<1>3. pc # "down" /\ pc' # "grace"
  BY DEF Calling, Building
<1>4. QED
  BY <1>1, <1>2, <1>3 DEF ContentInv

(* Empty tables hold no rule. *)
LEMMA HoldsNone ==
  ASSUME NEW s, NEW rules,
         DOMAIN s.actions = {}, DOMAIN s.flow_table = {}, DOMAIN s.route_table = {}
  PROVE  Holds(s, rules, 0, 0)
BY DEF Holds, Keys

(* A failed build leaves the snapshots in use alone. *)
LEMMA FailContent ==
  ASSUME ContentInv, pc \in Building, pc' = "release", UNCHANGED rule_vars
  PROVE  ContentInv'
BY ContentKept DEF Building, Calling

(* dp_snapshot_build begins with an empty snapshot. *)
LEMMA BuildBeginsContent ==
  ASSUME TablesInv, ContentInv, BuildBegins
  PROVE  ContentInv'
<1>1. pc = "build" /\ UNCHANGED <<input, arrays, rule_vars>>
  BY DEF BuildBegins, call_vars
<1>2. CASE pc' = "release"
  BY <1>1, <1>2, ContentKept DEF Calling, Building
<1>3. CASE pc' = "allocate" /\ new' = Snapshot(NextGeneration)
  <2>1. DOMAIN new'.actions = {} /\ DOMAIN new'.flow_table = {} /\ DOMAIN new'.route_table = {}
    BY <1>3 DEF Snapshot, NoTable
  <2>2. Holds(new', arrays', 0, 0)
    BY <2>1, HoldsNone
  <2>3. QED
    BY <1>1, <1>3, <2>2, BuildContent DEF Calling, Building
<1>4. QED
  BY <1>2, <1>3 DEF BuildBegins

(* Steps of the build that add no rule *)
LEMMA LoopContent ==
  ASSUME TablesInv, ContentInv, Allocate \/ AllocationsEnd \/ FlowsEnd
  PROVE  ContentInv'
<1>1. pc \in Building /\ UNCHANGED <<input, arrays, rule_vars>>
  BY DEF Allocate, AllocationsEnd, FlowsEnd, call_vars, Building
<1>2. CASE Allocate
  <2>1. CASE pc' = "release"
    BY <1>1, <2>1, FailContent
  <2>2. CASE pc = "allocate" /\ UNCHANGED <<pc, new>>
    BY <1>1, <2>2, BuildContent DEF ContentInv, Building
  <2>3. QED
    BY <1>2, <2>1, <2>2 DEF Allocate, BuildFails
<1>3. CASE AllocationsEnd
  BY <1>1, <1>3, BuildContent DEF AllocationsEnd, ContentInv, Building
<1>4. CASE FlowsEnd
  BY <1>1, <1>4, BuildContent DEF FlowsEnd, ContentInv, Building
<1>5. QED
  BY <1>2, <1>3, <1>4

(* A turn of the loop over the flows adds the next one. *)
LEMMA AddFlowContent ==
  ASSUME TablesInv, ContentInv, AddFlow
  PROVE  ContentInv'
<1> DEFINE rule == arrays.flows[i + 1]
<1>1. /\ pc = "flows" /\ pc \in Building /\ i \in Nat /\ UNCHANGED <<input, arrays, rule_vars>>
  BY DEF AddFlow, call_vars, Building, TablesInv, TablesTypeOK
<1>2. CASE pc' = "release"
  BY <1>1, <1>2, FailContent
<1>3. CASE /\ rule.key \notin DOMAIN new.flow_table
           /\ new' = [new EXCEPT !.actions = Put(@, i, rule.action),
                                 !.flow_table = Put(@, rule.key, i)]
           /\ i' = i + 1 /\ UNCHANGED pc
  <2>1. Holds(new, arrays, i, 0) /\ IsSnapshot(new)
    BY <1>1 DEF ContentInv, TablesInv, SnapshotInv
  <2>2. /\ new'.actions = Put(new.actions, i, rule.action)
        /\ new'.flow_table = Put(new.flow_table, rule.key, i)
        /\ new'.route_table = new.route_table
    BY <1>3, <2>1 DEF IsSnapshot
  <2> HIDE DEF rule
  <2>3. /\ DOMAIN new'.actions = 0 .. (i + 1) + 0 - 1
        /\ DOMAIN new'.flow_table = Keys(arrays.flows, i + 1)
        /\ DOMAIN new'.route_table = Keys(arrays.routes, 0)
    <3>1. /\ DOMAIN new'.actions = (0 .. i + 0 - 1) \cup {i}
          /\ DOMAIN new'.flow_table = Keys(arrays.flows, i) \cup {rule.key}
          /\ DOMAIN new'.route_table = Keys(arrays.routes, 0)
      BY <2>1, <2>2 DEF Holds, Put
    <3>2. (0 .. i + 0 - 1) \cup {i} = 0 .. (i + 1) + 0 - 1
      BY <1>1
    <3>3. QED
      BY <1>1, <3>1, <3>2, KeysNext DEF rule
  <2>4. ASSUME NEW j \in 1 .. i + 1
        PROVE  /\ new'.flow_table[arrays.flows[j].key] = j - 1
               /\ new'.actions[j - 1] = arrays.flows[j].action
    <3>1. CASE j = i + 1
      <4>1. j - 1 = i /\ arrays.flows[j] = rule
        BY <1>1, <3>1 DEF rule
      <4>2. QED
        BY <2>2, <4>1 DEF Put
    <3>2. CASE j # i + 1
      <4>1. j \in 1 .. i /\ j - 1 # i /\ j - 1 \in 0 .. i + 0 - 1
        BY <1>1, <3>2
      <4>2. /\ new.flow_table[arrays.flows[j].key] = j - 1
            /\ new.actions[j - 1] = arrays.flows[j].action
            /\ j - 1 \in DOMAIN new.actions
        BY <2>1, <4>1 DEF Holds
      <4>3. arrays.flows[j].key \in DOMAIN new.flow_table
        BY <2>1, <4>1 DEF Holds, Keys
      <4>4. QED
        BY <1>3, <2>2, <4>1, <4>2, <4>3 DEF Put
    <3>3. QED
      BY <3>1, <3>2
  <2>5. Holds(new', arrays, i + 1, 0)
    BY <2>3, <2>4 DEF Holds
  <2>6. QED
    BY <1>1, <1>3, <2>5, BuildContent
<1>4. QED
  BY <1>2, <1>3 DEF AddFlow, BuildFails

(* A turn of the loop over the routes adds the next one, its action after  *)
(* those of the flows.                                                      *)
LEMMA AddRouteContent ==
  ASSUME TablesInv, ContentInv, AddRoute
  PROVE  ContentInv'
<1> DEFINE rule == arrays.routes[i + 1]
           nf == Len(arrays.flows)
           table == Put(new.route_table, rule.key, action_index(i))
<1>1. /\ pc = "routes" /\ pc \in Building /\ i \in Nat /\ UNCHANGED <<input, arrays, rule_vars>>
      /\ nf \in Nat
  <2>1. nf \in Nat
    BY ArrayDomain DEF TablesInv, TablesTypeOK, IsArrays
  <2>2. QED
    BY <2>1 DEF AddRoute, call_vars, Building, TablesInv, TablesTypeOK
<1>2. CASE pc' = "release"
  BY <1>1, <1>2, FailContent
<1>3. CASE /\ rule.key \notin DOMAIN new.route_table
           /\ new' = [new EXCEPT !.actions = Put(@, action_index(i), rule.action),
                                 !.route_table = table]
           /\ i' = i + 1 /\ UNCHANGED pc
  <2>1. Holds(new, arrays, nf, i) /\ IsSnapshot(new)
    BY <1>1 DEF ContentInv, TablesInv, SnapshotInv
  <2>2. /\ new'.actions = Put(new.actions, nf + i, rule.action)
        /\ new'.route_table = Put(new.route_table, rule.key, nf + i)
        /\ new'.flow_table = new.flow_table
    <3>1. action_index(i) = nf + i
      BY DEF action_index
    <3> HIDE DEF table
    <3>2. /\ new'.actions = Put(new.actions, action_index(i), rule.action)
          /\ new'.route_table = table /\ new'.flow_table = new.flow_table
      BY <1>3, <2>1 DEF IsSnapshot
    <3>3. QED
      BY <3>1, <3>2 DEF table
  <2> HIDE DEF rule, nf, table
  <2>3. /\ DOMAIN new'.actions = 0 .. nf + (i + 1) - 1
        /\ DOMAIN new'.flow_table = Keys(arrays.flows, nf)
        /\ DOMAIN new'.route_table = Keys(arrays.routes, i + 1)
    <3>1. /\ DOMAIN new'.actions = (0 .. nf + i - 1) \cup {nf + i}
          /\ DOMAIN new'.route_table = Keys(arrays.routes, i) \cup {rule.key}
          /\ DOMAIN new'.flow_table = Keys(arrays.flows, nf)
      BY <2>1, <2>2 DEF Holds, Put
    <3>2. (0 .. nf + i - 1) \cup {nf + i} = 0 .. nf + (i + 1) - 1
      BY <1>1
    <3>3. QED
      BY <1>1, <3>1, <3>2, KeysNext DEF rule
  <2>4. ASSUME NEW j \in 1 .. i + 1
        PROVE  /\ new'.route_table[arrays.routes[j].key] = nf + j - 1
               /\ new'.actions[nf + j - 1] = arrays.routes[j].action
    <3>1. CASE j = i + 1
      <4>1. nf + j - 1 = nf + i /\ arrays.routes[j] = rule
        BY <1>1, <3>1 DEF rule
      <4>2. QED
        BY <2>2, <4>1 DEF Put
    <3>2. CASE j # i + 1
      <4>1. j \in 1 .. i /\ nf + j - 1 # nf + i /\ nf + j - 1 \in 0 .. nf + i - 1
        BY <1>1, <3>2
      <4>2. /\ new.route_table[arrays.routes[j].key] = nf + j - 1
            /\ new.actions[nf + j - 1] = arrays.routes[j].action
            /\ nf + j - 1 \in DOMAIN new.actions
        BY <2>1, <4>1 DEF Holds
      <4>3. arrays.routes[j].key \in DOMAIN new.route_table
        BY <2>1, <4>1 DEF Holds, Keys
      <4>4. QED
        BY <1>3, <2>2, <4>1, <4>2, <4>3 DEF Put
    <3>3. QED
      BY <3>1, <3>2
  <2>5. ASSUME NEW j \in 1 .. nf
        PROVE  /\ new'.flow_table[arrays.flows[j].key] = j - 1
               /\ new'.actions[j - 1] = arrays.flows[j].action
    <3>1. j - 1 # nf + i /\ j - 1 \in 0 .. nf + i - 1
      BY <1>1
    <3>2. /\ new.flow_table[arrays.flows[j].key] = j - 1
          /\ new.actions[j - 1] = arrays.flows[j].action
          /\ j - 1 \in DOMAIN new.actions
      BY <2>1, <3>1 DEF Holds
    <3>3. QED
      BY <2>2, <3>1, <3>2 DEF Put
  <2>6. Holds(new', arrays, nf, i + 1)
    BY <2>3, <2>4, <2>5 DEF Holds
  <2>7. QED
    BY <1>1, <1>3, <2>6, BuildContent DEF nf
<1>4. ASSUME NEW code, BuildFails(code) PROVE pc' = "release"
  BY <1>4 DEF BuildFails
<1>5. QED
  BY <1>2, <1>3, <1>4 DEF AddRoute

(* Rules with the same keys and actions fill the tables in the same way. *)
LEMMA HoldsSame ==
  ASSUME NEW s, NEW a, NEW b, SameRules(a, b), HoldsAll(s, a)
  PROVE  HoldsAll(s, b)
<1> DEFINE nf == Len(a.flows)
           nr == Len(a.routes)
<1>1. /\ nf = Len(b.flows) /\ nr = Len(b.routes) /\ Holds(s, a, nf, nr)
      /\ \A j \in 1 .. nf : a.flows[j].key = b.flows[j].key /\ a.flows[j].action = b.flows[j].action
      /\ \A j \in 1 .. nr : /\ a.routes[j].key = b.routes[j].key
                            /\ a.routes[j].action = b.routes[j].action
  BY DEF SameRules, HoldsAll
<1> HIDE DEF nf, nr
<1>2. Keys(a.flows, nf) = Keys(b.flows, nf)
  <2>1. \A j \in 1 .. nf : a.flows[j].key = b.flows[j].key
    BY <1>1
  <2>2. QED
    BY <2>1 DEF Keys
<1>3. Keys(a.routes, nr) = Keys(b.routes, nr)
  <2>1. \A j \in 1 .. nr : a.routes[j].key = b.routes[j].key
    BY <1>1
  <2>2. QED
    BY <2>1 DEF Keys
<1>4. Holds(s, b, nf, nr)
  <2>1. /\ DOMAIN s.actions = 0 .. nf + nr - 1
        /\ DOMAIN s.flow_table = Keys(b.flows, nf) /\ DOMAIN s.route_table = Keys(b.routes, nr)
    BY <1>1, <1>2, <1>3 DEF Holds
  <2>2. ASSUME NEW j \in 1 .. nf
        PROVE  s.flow_table[b.flows[j].key] = j - 1 /\ s.actions[j - 1] = b.flows[j].action
    BY <1>1 DEF Holds
  <2>3. ASSUME NEW j \in 1 .. nr
        PROVE  /\ s.route_table[b.routes[j].key] = nf + j - 1
               /\ s.actions[nf + j - 1] = b.routes[j].action
    BY <1>1 DEF Holds
  <2>4. QED
    BY <2>1, <2>2, <2>3 DEF Holds
<1>5. QED
  BY <1>1, <1>4 DEF HoldsAll

(* A snapshot is published when it is complete. *)
LEMMA ExchangeContent ==
  ASSUME TablesInv, ContentInv, Exchange
  PROVE  ContentInv'
<1> DEFINE G == rules_generation
<1>1. /\ pc = "routes" /\ i = Len(arrays.routes) /\ pc \in Building
      /\ active_rules' = new /\ old_snapshot' = active_rules /\ rules_generation' = new.generation
      /\ published' = Append(published, input)
      /\ pc' = IF G = 0 THEN "release" ELSE "grace"
  BY DEF Exchange, Building
<1>2. /\ G \in Nat /\ rules_generation' = G + 1
      /\ published \in Seq(Inputs) /\ Len(published) = G /\ input \in Inputs
  BY <1>1 DEF TablesInv, TablesTypeOK, SnapshotInv
<1>3. /\ published'[G + 1] = input /\ \A g \in 1 .. G : published'[g] = published[g]
  BY <1>1, <1>2
<1>4. Sound(new, input)
  <2>1. /\ Submitted(input) /\ SameRules(arrays, Ruled(input)) /\ HoldsAll(new, arrays)
    BY <1>1 DEF ContentInv, HoldsAll
  <2>2. validateRules(arrays) /\ IsArrays(arrays)
    BY <1>1, BuiltRulesValid DEF TablesInv, TablesTypeOK, BuildInv
  <2>3. RoutesNormal(Ruled(input).routes)
    <3> DEFINE R == Ruled(input)
    <3>1. DOMAIN arrays.routes = 1 .. Len(arrays.routes) /\ DOMAIN R.routes = 1 .. Len(R.routes)
      BY <2>1, <2>2, ArrayDomain, RuledArrays DEF IsArrays
    <3>2. \A j \in DOMAIN R.routes : j \in DOMAIN arrays.routes
                                     /\ R.routes[j].key = arrays.routes[j].key
      BY <2>1, <3>1 DEF SameRules
    <3>3. \A j \in DOMAIN arrays.routes :
            /\ arrays.routes[j].key.depth \in 1 .. AddrBits
            /\ Network(arrays.routes[j].key.prefix, arrays.routes[j].key.depth)
                 = arrays.routes[j].key.prefix
      BY <2>2 DEF validateRules
    <3> HIDE DEF R
    <3>4. RoutesNormal(R.routes)
      BY <3>2, <3>3 DEF RoutesNormal
    <3>5. QED
      BY <3>4 DEF R
  <2>4. HoldsAll(new, Ruled(input))
    BY <2>1, HoldsSame
  <2>5. QED
    BY <2>1, <2>3, <2>4 DEF Sound
<1>5. Sound(active_rules', published'[rules_generation'])
  BY <1>1, <1>2, <1>3, <1>4
<1>6. pc' = "grace" => Sound(old_snapshot', published'[rules_generation' - 1])
  <2> SUFFICES ASSUME pc' = "grace" PROVE Sound(old_snapshot', published'[rules_generation' - 1])
    OBVIOUS
  <2>1. G # 0 /\ pc # "down"
    BY <1>1
  <2>2. Sound(active_rules, published[G])
    BY <2>1 DEF ContentInv
  <2>3. rules_generation' - 1 = G /\ published'[G] = published[G]
    BY <1>2, <1>3, <2>1
  <2>4. QED
    BY <1>1, <2>2, <2>3
<1>7. QED
  BY <1>1, <1>5, <1>6 DEF ContentInv, Calling, Building

(* Reclaiming the old snapshot, and the teardown *)
LEMMA ReleaseContent ==
  ASSUME TablesInv, ContentInv, Reclaim \/ dp_rules_teardown
  PROVE  ContentInv'
BY DEF ContentInv, Reclaim, dp_rules_teardown, Calling, Building

(* Every step keeps the contents right. *)
LEMMA ContentStep == TablesInv /\ ContentInv /\ [Next]_vars => ContentInv'
<1> SUFFICES ASSUME TablesInv, ContentInv, [Next]_vars PROVE ContentInv'
  OBVIOUS
<1>1. CASE LoadRulesFile \/ ReplaceRules \/ NativeCall
  BY <1>1, CallContent
<1>2. CASE ArraysStep \/ Release
  BY <1>2, ArraysContent
<1>3. CASE BuildBegins
  BY <1>3, BuildBeginsContent
<1>4. CASE Allocate \/ AllocationsEnd \/ FlowsEnd
  BY <1>4, LoopContent
<1>5. CASE AddFlow
  BY <1>5, AddFlowContent
<1>6. CASE AddRoute
  BY <1>6, AddRouteContent
<1>7. CASE Exchange
  BY <1>7, ExchangeContent
<1>8. CASE Reclaim \/ dp_rules_teardown
  BY <1>8, ReleaseContent
<1>9. CASE UNCHANGED vars
  BY <1>9 DEF vars, call_vars, rule_vars, ContentInv
<1>10. QED
  BY <1>1, <1>2, <1>3, <1>4, <1>5, <1>6, <1>7, <1>8, <1>9 DEF Next, ArraysStep

(* The snapshots that packets use, and the one under construction, hold the *)
(* rules of their arguments.                                                *)
THEOREM ContentInvariance == Spec => []ContentInv
<1>1. QED
  BY ContentInit, ContentStep, TablesInvariance, PTL DEF Spec

(* The objects of the snapshots in use are live. *)
LEMMA UsedObjects ==
  ASSUME TablesInv, NEW s \in {active_rules, old_snapshot}, s # NULL, NEW kind
  PROVE  Live(s, kind) <=> kind \in Needed(published[s.generation].rules)
<1> DEFINE G == rules_generation
<1>1. /\ G \in Nat /\ SnapshotInv /\ HeapInv /\ pc \in Points
  BY DEF TablesInv, TablesTypeOK
<1>2. CASE s = active_rules
  <2>1. G # 0 /\ pc # "down" /\ s.generation = G
    BY <1>1, <1>2 DEF SnapshotInv
  <2>2. ActiveObjects = Objects(G)
    BY <2>1 DEF ActiveObjects
  <2>3. <<kind, G>> \in heap <=> <<kind, G>> \in Objects(G)
    <3>1. CASE pc \in Building
      <4>1. PICK n \in Nat : heap = ActiveObjects \cup Built(n)
        BY <3>1, BuildHeap
      <4>2. new.generation = G + 1
        BY <1>1, <3>1 DEF SnapshotInv
      <4>3. \A object \in Built(n) : object[2] # G
        BY <1>1, <4>2 DEF Built
      <4>4. QED
        BY <2>2, <4>1, <4>3
    <3>2. CASE pc = "grace"
      <4>1. heap = Objects(G) \cup Objects(G - 1)
        BY <1>1, <3>2 DEF HeapInv
      <4>2. \A object \in Objects(G - 1) : object[2] # G
        BY <1>1 DEF Objects
      <4>3. QED
        BY <4>1, <4>2
    <3>3. CASE pc \notin Building /\ pc # "grace"
      <4>1. heap = ActiveObjects
        BY <1>1, <2>1, <3>3 DEF HeapInv, Building
      <4>2. QED
        BY <2>2, <4>1
    <3>4. QED
      BY <3>1, <3>2, <3>3
  <2>4. QED
    BY <2>1, <2>3 DEF Live, Objects
<1>3. CASE s = old_snapshot
  <2>1. pc = "grace" /\ s.generation = G - 1
    BY <1>1, <1>3 DEF SnapshotInv
  <2>2. heap = Objects(G) \cup Objects(G - 1)
    BY <1>1, <2>1 DEF HeapInv
  <2>3. \A object \in Objects(G) : object[2] # G - 1
    BY <1>1 DEF Objects
  <2>4. QED
    BY <2>1, <2>2, <2>3 DEF Live, Objects
<1>4. QED
  BY <1>2, <1>3

(* Every packet gets the action its rules ask for, whatever the width of    *)
(* an address, the rules and the order of the publications: the parsed,     *)
(* copied, indexed and looked up rules agree with the text of the file,     *)
(* octet by octet and bit by bit (normalizeRules, toNativeRules,            *)
(* dp_snapshot_build, dp_lookup_packet).                                    *)
THEOREM VerdictCorrectness == Spec => []VerdictsFollowRules
<1>1. TablesInv /\ ContentInv => VerdictsFollowRules
  <2> SUFFICES ASSUME TablesInv, ContentInv,
                      NEW s \in {active_rules, old_snapshot}, s # NULL, NEW p \in Packets
               PROVE  Meant(published[s.generation], p, dp_lookup_packet(s, p))
    BY DEF VerdictsFollowRules
  <2>1. Sound(s, published[s.generation])
    <3>1. rules_generation \in Nat /\ SnapshotInv
      BY DEF TablesInv, TablesTypeOK
    <3>2. CASE s = active_rules
      BY <3>1, <3>2 DEF SnapshotInv, ContentInv
    <3>3. CASE s = old_snapshot
      BY <3>1, <3>3 DEF SnapshotInv, ContentInv
    <3>4. QED
      BY <3>2, <3>3
  <2>2. \A kind : Live(s, kind) <=> kind \in Needed(published[s.generation].rules)
    BY UsedObjects
  <2>3. QED
    BY <2>1, <2>2, LookupMeant
<1>2. QED
  BY <1>1, TablesInvariance, ContentInvariance, PTL
=============================================================================
