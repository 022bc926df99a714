------------------------- MODULE MCRulePublication -------------------------
(***************************************************************************)
(* Model values for RulePublication: two publishers contend for the writer *)
(* lock while two workers start, poll and stop.                            *)
(***************************************************************************)
EXTENDS RulePublication, TLC

CONSTANTS p1, p2

(* Sound for the safety run only: no property there orders publishers. *)
PublisherSymmetry == Permutations(Publishers)
=============================================================================
