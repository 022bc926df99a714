------------------------------ MODULE RuleFormat ------------------------------
(***************************************************************************)
(* Rules in their three forms and the checks between them: the document of *)
(* a rules file, the RuleSnapshot of the Go control plane, and what        *)
(* dp_snapshot_build accepts.  An address is a number of four octets; the  *)
(* width of an octet is a parameter.  The text of an address is the list   *)
(* of octets it names, and whether it is written as an IPv4-mapped IPv6     *)
(* address.  A rewrite mask is the set of the fields it names.             *)
(***************************************************************************)
EXTENDS Integers, Sequences

CONSTANTS OctetBits,      \* 8
          MaxFlowRules,   \* DP_MAX_FLOW_RULES
          MaxRouteRules   \* DP_MAX_ROUTE_RULES

ASSUME FormatAssumption ==
  OctetBits \in Nat \ {0} /\ MaxFlowRules \in Nat /\ MaxRouteRules \in Nat

AddrBits == 4 * OctetBits

Power2[k \in 0 .. AddrBits] == IF k = 0 THEN 1 ELSE 2 * Power2[k - 1]

Octet == Power2[OctetBits]

(* The number without the bits below a prefix of the given depth *)
Network(number, depth) == number - (number % Power2[AddrBits - depth])

RewriteFields == {"src_ipv4", "dst_ipv4", "src_port", "dst_port"}
AddressFields == {"src_ipv4", "dst_ipv4"}

RewriteMask(action) == DOMAIN action.rewrite

-----------------------------------------------------------------------------
(* The rules file *)

(* net.ParseIP and To4 give four octets *)
IsIPv4(text) == Len(text.octets) = 4 /\ \A k \in 1 .. 4 : text.octets[k] < Octet

ipv4Number(text) ==
  ((text.octets[1] * Octet + text.octets[2]) * Octet + text.octets[3]) * Octet + text.octets[4]

(* A document's action names its type and the fields that are not null. *)
ActionParses(d) ==
  /\ d.type \in {"drop", "forward", "rewrite"}
  /\ d.type # "rewrite" => DOMAIN d.fields = {}
  /\ d.type = "rewrite" => DOMAIN d.fields # {}
  /\ \A f \in DOMAIN d.fields \cap AddressFields : IsIPv4(d.fields[f])

parseAction(d) ==
  [type |-> d.type,
   rewrite |-> [f \in DOMAIN d.fields |->
                  IF f \in AddressFields THEN ipv4Number(d.fields[f]) ELSE d.fields[f]]]

parseProtocol(text) == CASE text = "tcp" -> 6 [] text = "udp" -> 17 [] OTHER -> 0

FlowParses(d) == /\ IsIPv4(d.src_ipv4) /\ IsIPv4(d.dst_ipv4)
                 /\ d.protocol \in {"tcp", "udp"} /\ ActionParses(d.action)

ParsedFlow(d) ==
  [key |-> [src_ipv4 |-> ipv4Number(d.src_ipv4), dst_ipv4 |-> ipv4Number(d.dst_ipv4),
            src_port |-> d.src_port, dst_port |-> d.dst_port,
            l4_proto |-> parseProtocol(d.protocol)],
   action |-> parseAction(d.action)]

(* net.ParseCIDR clears the host bits. *)
ParsedPrefix(c) == Network(ipv4Number(c), c.depth)

(* The mask of a mapped address has 128 bits; /0 has no place in rte_lpm. *)
RouteParses(d) == /\ IsIPv4(d.prefix) /\ ~ d.prefix.mapped
                  /\ d.prefix.depth \in 1 .. AddrBits /\ ActionParses(d.action)

ParsedRoute(d) == [key |-> [prefix |-> ParsedPrefix(d.prefix), depth |-> d.prefix.depth],
                   action |-> parseAction(d.action)]

NoTwins(rules) == \A j, k \in DOMAIN rules : rules[j].key = rules[k].key => j = k

Normalized(document) ==
  [flows |-> [j \in DOMAIN document.flows |-> ParsedFlow(document.flows[j])],
   routes |-> [j \in DOMAIN document.routes |-> ParsedRoute(document.routes[j])]]

(* normalizeRules returns a snapshot, Normalized, and no error *)
normalizeRules(document) ==
  /\ Len(document.flows) <= MaxFlowRules /\ Len(document.routes) <= MaxRouteRules
  /\ \A j \in DOMAIN document.flows : FlowParses(document.flows[j])
  /\ \A j \in DOMAIN document.routes : RouteParses(document.routes[j])
  /\ NoTwins(Normalized(document).flows) /\ NoTwins(Normalized(document).routes)

-----------------------------------------------------------------------------
(* The checks of the Go control plane *)

(* Mutation: any mask goes with a rewrite. *)
validateRuleActionLoose(action) ==
  action.type \in {"drop", "forward"} => RewriteMask(action) = {}

validateRuleAction(action) ==
  IF action.type \in {"drop", "forward"} THEN RewriteMask(action) = {}
  ELSE /\ action.type = "rewrite"
       /\ RewriteMask(action) # {} /\ RewriteMask(action) \subseteq RewriteFields

validateRules(snapshot) ==
  /\ Len(snapshot.flows) <= MaxFlowRules /\ Len(snapshot.routes) <= MaxRouteRules
  /\ \A j \in DOMAIN snapshot.flows :
       /\ snapshot.flows[j].key.l4_proto \in {6, 17}
       /\ validateRuleAction(snapshot.flows[j].action)
  /\ \A j \in DOMAIN snapshot.routes :
       /\ snapshot.routes[j].key.depth \in 1 .. AddrBits
       /\ Network(snapshot.routes[j].key.prefix, snapshot.routes[j].key.depth)
            = snapshot.routes[j].key.prefix
       /\ validateRuleAction(snapshot.routes[j].action)
  /\ NoTwins(snapshot.flows) /\ NoTwins(snapshot.routes)

-----------------------------------------------------------------------------
(* The C form of a rule and the checks of dp_snapshot_build on it.  The     *)
(* reserved bytes of a rule and of its action are one field.                *)

(* dp_flow_rule_set and dp_route_rule_set clear the whole struct first. *)
dp_rule_set(rule) == [key |-> rule.key, action |-> rule.action, reserved |-> 0]

dp_validate_action(action) ==
  \/ action.type \in {"drop", "forward"} /\ RewriteMask(action) = {}
  \/ /\ action.type = "rewrite" /\ RewriteMask(action) # {}
     /\ RewriteMask(action) \ RewriteFields = {}

FlowAccepted(rule) ==
  /\ rule.key.l4_proto \in {6, 17} /\ rule.reserved = 0
  /\ dp_validate_action(rule.action)

RouteAccepted(rule) ==
  /\ rule.key.depth # 0 /\ rule.key.depth <= AddrBits /\ rule.reserved = 0
  /\ Network(rule.key.prefix, rule.key.depth) = rule.key.prefix
  /\ dp_validate_action(rule.action)
=============================================================================
