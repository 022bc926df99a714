---------------------------- MODULE MCRuleTables ----------------------------
(* Addresses of four one-bit octets, three routes, two tbl8 groups: as in   *)
(* the code, fewer groups than routes.                                      *)
EXTENDS RuleTables

A(a, b, c, d) == [octets |-> <<a, b, c, d>>, mapped |-> FALSE]
Mapped(a, b, c, d) == [octets |-> <<a, b, c, d>>, mapped |-> TRUE]
Cidr(a, b, c, d, n) == [octets |-> <<a, b, c, d>>, mapped |-> FALSE, depth |-> n]
Do(type) == [type |-> type, fields |-> NoTable]
Set(fields) == [type |-> "rewrite", fields |-> fields]
F(src, dst, protocol, action) ==
  [src_ipv4 |-> src, dst_ipv4 |-> dst, src_port |-> 7, dst_port |-> 9,
   protocol |-> protocol, action |-> action]
R(prefix, action) == [prefix |-> prefix, action |-> action]
D(flows, routes) == [flows |-> flows, routes |-> routes]

Flow == F(A(0, 0, 1, 1), A(1, 0, 1, 1), "tcp", Set([dst_ipv4 |-> A(0, 1, 1, 0)]))

MCDocuments == {
  D(<<>>, <<>>),
  D(<<Flow, F(A(0, 0, 1, 1), Mapped(1, 0, 1, 1), "udp", Do("drop"))>>,
    <<R(Cidr(1, 0, 1, 1, 1), Do("forward")), R(Cidr(1, 0, 1, 0, 3), Set([src_port |-> 8]))>>),
  D(<<>>, <<R(Cidr(1, 0, 1, 1, 4), Do("drop")), R(Cidr(1, 0, 1, 0, 4), Do("forward")),
            R(Cidr(0, 0, 1, 1, 4), Do("drop"))>>),
  D(<<>>, <<R(Cidr(1, 0, 1, 1, 4), Do("drop")), R(Cidr(0, 1, 1, 0, 4), Do("forward")),
            R(Cidr(0, 0, 1, 1, 4), Do("drop"))>>),
  D(<<Flow, F(Mapped(0, 0, 1, 1), A(1, 0, 1, 1), "tcp", Do("drop"))>>, <<>>),
  D(<<>>, <<R(Cidr(1, 0, 1, 1, 2), Do("drop")), R(Cidr(1, 0, 0, 1, 2), Do("forward"))>>),
  D(<<>>, <<R([Cidr(1, 0, 1, 1, 3) EXCEPT !.mapped = TRUE], Do("drop"))>>),
  D(<<>>, <<R(Cidr(0, 0, 0, 0, 0), Do("drop"))>>),
  D(<<F(A(0, 0, 2, 1), A(1, 0, 1, 1), "tcp", Do("drop"))>>, <<>>),
  D(<<F(A(0, 0, 1, 1), A(1, 0, 1, 1), "icmp", Do("drop"))>>, <<>>),
  D(<<Flow, Flow, Flow>>, <<>>),
  D(<<[Flow EXCEPT !.action.type = "drop"]>>, <<>>),
  D(<<[Flow EXCEPT !.action.fields = NoTable]>>, <<>>) }

K(src, dst, proto) == [src_ipv4 |-> src, dst_ipv4 |-> dst, src_port |-> 7, dst_port |-> 9,
                       l4_proto |-> proto]
Rule(key, action) == [key |-> key, action |-> action]
P(prefix, depth) == [prefix |-> prefix, depth |-> depth]
Act(type) == [type |-> type, rewrite |-> NoTable]
Mask(fields) == [type |-> "rewrite", rewrite |-> [f \in fields |-> 5]]

Accepted == D(<<Rule(K(3, 11, 17), Mask({"src_port", "dst_ipv4"}))>>,
              <<Rule(P(8, 2), Act("drop")), Rule(P(10, 4), Act("forward"))>>)

MCSnapshots == {
  Accepted,
  D(<<>>, <<Rule(P(9, 2), Act("drop"))>>),
  D(<<>>, <<Rule(P(8, 5), Act("drop"))>>),
  D(<<Rule(K(3, 11, 6), Mask({"src_port", "other"}))>>, <<>>) }

Native(rules) ==
  [flows |-> [j \in DOMAIN rules.flows |-> dp_rule_set(rules.flows[j])],
   routes |-> [j \in DOMAIN rules.routes |-> dp_rule_set(rules.routes[j])]]

MCNativeArrays == {D(<<[dp_rule_set(Rule(K(3, 11, 6), Act("drop"))) EXCEPT !.reserved = 1]>>, <<>>)}
  \cup {Native(rules) : rules \in MCSnapshots \cup {
  D(<<Rule(K(3, 11, 6), Mask({"src_port"})), Rule(K(3, 11, 6), Act("drop"))>>, <<>>),
  D(<<Rule(K(3, 11, 1), Act("drop"))>>, <<>>),
  D(<<Rule(K(3, 11, 6), Mask({}))>>, <<>>),
  D([k \in 1 .. 3 |-> Rule(K(k, 11, 6), Act("drop"))], <<>>),
  D(<<Rule(K(3, 11, 6), Act("bad"))>>, <<>>),
  D(<<>>, <<Rule(P(0, 0), Act("drop"))>>),
  D(<<>>, <<Rule(P(8, 2), Act("drop")), Rule(P(8, 2), Act("forward"))>>) }}

MCPackets == {[src_ipv4 |-> src, dst_ipv4 |-> dst, src_port |-> 7, dst_port |-> port,
               l4_proto |-> proto] :
                src \in {3, 12}, dst \in 0 .. 15, port \in {7, 9}, proto \in {6, 17}}
=============================================================================
