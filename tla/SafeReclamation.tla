--------------------------- MODULE SafeReclamation ---------------------------
(***************************************************************************)
(* What the rule publication of the data plane promises, without tokens,   *)
(* counters, locks or control points: a writer allocates objects, makes    *)
(* one of them current, and reclaims an object only when it is neither     *)
(* current nor held; a reader holds at most one object, always one that    *)
(* was current when it was acquired.                                       *)
(***************************************************************************)
EXTENDS Naturals

CONSTANT Holders       \* the readers

Nothing == 0           \* no object; objects are positive numbers
Objects == Nat \ {0}

VARIABLES live,        \* objects allocated and not reclaimed
          current,     \* the published object, or Nothing
          held         \* the object each reader uses, or Nothing

abstract_vars == <<live, current, held>>

AInit ==
  /\ live = {}
  /\ current = Nothing
  /\ held = [h \in Holders |-> Nothing]

(* A fresh object, newer than the published one *)
Allocate ==
  /\ live' = live \cup {current + 1}
  /\ current + 1 \notin live
  /\ UNCHANGED <<current, held>>

(* The initial configuration: allocated and published in one step *)
Install ==
  /\ current = Nothing /\ live = {}
  /\ live' = {1}
  /\ current' = 1
  /\ UNCHANGED held

Publish ==
  /\ current + 1 \in live
  /\ current' = current + 1
  /\ UNCHANGED <<live, held>>

Withdraw ==
  /\ current # Nothing
  /\ current' = Nothing
  /\ UNCHANGED <<live, held>>

Acquire(h) ==
  /\ current # Nothing
  /\ held[h] = Nothing
  /\ held' = [held EXCEPT ![h] = current]
  /\ UNCHANGED <<live, current>>

Release(h) ==
  /\ held[h] # Nothing
  /\ held' = [held EXCEPT ![h] = Nothing]
  /\ UNCHANGED <<live, current>>

Reclaim(s) ==
  /\ s # current
  /\ \A h \in Holders : held[h] # s
  /\ live' = live \ {s}
  /\ UNCHANGED <<current, held>>

ANext ==
  \/ Allocate \/ Install \/ Publish \/ Withdraw
  \/ \E h \in Holders : Acquire(h) \/ Release(h)
  \/ \E s \in live : Reclaim(s)

ASpec == AInit /\ [][ANext]_abstract_vars

=============================================================================
