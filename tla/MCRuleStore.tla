----------------------------- MODULE MCRuleStore -----------------------------
(* Two flow keys and a flow key with a bad protocol, one route; one valid   *)
(* and one invalid action; room for two flows and one route.                *)
EXTENDS RuleStore

CONSTANTS c1, c2, f1, f2, f3, r1, fwd, bad

MCKeys == [flows |-> {f1, f2, f3}, routes |-> {r1}]
MCCapacity == [flows |-> 2, routes |-> 1]
Fl(k) == [key |-> k, action |-> fwd]
(* Empty, full, over capacity and with a duplicate key *)
MCSnapshots == {NoRules,
                [flows |-> <<Fl(f1)>>, routes |-> <<Fl(r1)>>],
                [flows |-> <<Fl(f1), Fl(f2), Fl(f1)>>, routes |-> <<>>],
                [flows |-> <<Fl(f2), Fl(f2)>>, routes |-> <<>>]}
CallerSymmetry == Permutations(Callers)
=============================================================================
