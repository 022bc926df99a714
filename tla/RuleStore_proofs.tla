-------------------------- MODULE RuleStore_proofs --------------------------
(***************************************************************************)
(* Proofs about RuleStore, for any goroutines, keys, actions, capacities   *)
(* and numbers of calls: the Go copy of the rules and the native snapshot  *)
(* agree, a publication is never refused for its content, and the rule API *)
(* is linearizable.                                                        *)
(***************************************************************************)
EXTENDS RuleStore, SequenceTheorems, TLAPS

USE DEF MutexFree, RulesKept

-----------------------------------------------------------------------------
(* The inductive invariant *)

StoreTypeOK ==
  /\ owner \in {"init", "setup", "uninitialized", "failed", "opened", "running", "returned",
                "closed", "tornDown", "done"}
  /\ rulesMu \in Callers \cup {"none", "owner"}
  /\ rulesOpen \in BOOLEAN /\ generation \in Nat /\ rules_generation \in Nat
  /\ currentRules \in RuleSets /\ active_rules \in RuleSets \cup {NULL}
  /\ pc \in [Callers -> {"idle", "wait", "locked", "publish", "native", "grace", "unlock",
                         "return"}]
  /\ req \in [Callers -> Requests]
  /\ candidate \in [Callers -> RuleSets]
  /\ err \in [Callers -> BOOLEAN]

(* rulesMu is held by whoever is between Lock and Unlock; a publication     *)
(* runs inside it, and only while the API is open.                          *)
MutexInv ==
  /\ \A c \in Callers :
       pc[c] \in {"locked", "publish", "native", "grace", "unlock"} <=> rulesMu = c
  /\ owner \in {"closed", "tornDown"} <=> rulesMu = "owner"
  /\ \A c \in Callers : pc[c] \in {"native", "grace"} => rulesOpen

(* The native rules exist while the API is open; before, they are the       *)
(* configured ones.                                                         *)
OpenInv ==
  /\ rulesOpen => owner \in {"opened", "running", "returned"} /\ active_rules # NULL
  /\ owner = "init" => /\ active_rules = NULL /\ rules_generation = 0
                       /\ currentRules \in {s \in Snapshots : validateRules(s)}
  /\ owner = "setup" => active_rules = currentRules /\ rules_generation = 1

(* The two copies, and the rules on their way from one to the other *)
CopyInv ==
  /\ CopiesAgree
  /\ \A c \in Callers : pc[c] = "grace" => active_rules = candidate[c]

(* Every rule set that is published has been validated, or is a valid one   *)
(* without one of its rules.                                                *)
ValidInv ==
  /\ validateRules(currentRules)
  /\ \A c \in Callers :
       /\ pc[c] \in {"wait", "locked"} /\ req[c].op = "Replace" => validateRules(req[c].rules)
       /\ pc[c] \in {"publish", "native", "grace"} => validateRules(candidate[c])

(* A candidate is what its call makes of the current rules. *)
CandidateInv ==
  \A c \in Callers :
    /\ pc[c] \in {"wait", "locked", "publish", "native", "grace"} => ~ err[c]
    /\ pc[c] \in {"publish", "native"} =>
         Content(candidate[c]) \in Effect(req[c], Content(currentRules))

StoreInv == StoreTypeOK /\ MutexInv /\ OpenInv /\ CopyInv /\ ValidInv /\ CandidateInv

-----------------------------------------------------------------------------
(* Rule sets *)

LEMMA RuleSetFacts ==
  ASSUME NEW s \in RuleSets
  PROVE  /\ s # NULL
         /\ \A k \in Kinds : s[k] \in Seq(Rules(k))
         /\ \A k \in Kinds : DOMAIN s[k] = 1 .. Len(s[k]) /\ Len(s[k]) \in Nat
         /\ \A k \in Kinds : \A i \in DOMAIN s[k] : s[k][i] \in Rules(k)
<1>1. \A k \in Kinds : s[k] \in Seq(Rules(k))
  BY DEF RuleSets, Kinds
<1>2. \A k \in Kinds : DOMAIN s[k] = 1 .. Len(s[k]) /\ Len(s[k]) \in Nat
  BY <1>1, LenProperties
<1>3. \A k \in Kinds : \A i \in DOMAIN s[k] : s[k][i] \in Rules(k)
  BY <1>1, <1>2, ElementOfSeq
<1>4. QED
  BY <1>1, <1>2, <1>3, NullAssumption

(* One table replaced *)
LEMMA RuleSetExcept ==
  ASSUME NEW s \in RuleSets, NEW k \in Kinds, NEW t \in Seq(Rules(k))
  PROVE  /\ [s EXCEPT ![k] = t] \in RuleSets
         /\ \A j \in Kinds : [s EXCEPT ![k] = t][j] = IF j = k THEN t ELSE s[j]
BY DEF RuleSets, Kinds

LEMMA SnapshotFacts ==
  /\ NoRules \in Snapshots /\ NoRules \in RuleSets
  /\ Snapshots \subseteq RuleSets
  /\ NoRequest \in Requests
<1>1. NoRules \in Snapshots /\ Snapshots \subseteq RuleSets
  BY SnapshotsAssumption
<1>2. NoRequest \in [op : {"Replace"}, rules : Snapshots]
  BY <1>1 DEF NoRequest
<1>3. NoRequest \in Requests
  BY <1>2 DEF Requests
<1>4. QED
  BY <1>1, <1>3

LEMMA RequestFacts ==
  ASSUME NEW r \in Requests
  PROVE  \/ r.op = "Add" /\ r.kind \in Kinds /\ r.rule \in Rules(r.kind)
         \/ r.op = "Delete" /\ r.kind \in Kinds /\ r.key \in Keys[r.kind]
         \/ r.op = "Replace" /\ r.rules \in Snapshots
<1>1. CASE r \in UNION { [op : {"Add"}, kind : {k}, rule : Rules(k)] : k \in Kinds }
  <2>1. PICK k \in Kinds : r \in [op : {"Add"}, kind : {k}, rule : Rules(k)]
    BY <1>1
  <2>2. QED
    BY <2>1
<1>2. CASE r \in UNION { [op : {"Delete"}, kind : {k}, key : Keys[k]] : k \in Kinds }
  <2>1. PICK k \in Kinds : r \in [op : {"Delete"}, kind : {k}, key : Keys[k]]
    BY <1>2
  <2>2. QED
    BY <2>1
<1>3. CASE r \in [op : {"Replace"}, rules : Snapshots]
  BY <1>3
<1>4. QED
  BY <1>1, <1>2, <1>3 DEF Requests

(* What a rule set contains *)
LEMMA ContentFacts ==
  ASSUME NEW s \in RuleSets
  PROVE  /\ \A x : x \in Content(s) <=> \E k \in Kinds : \E i \in DOMAIN s[k] : x = s[k][i]
         /\ Content(s) # NULL
<1>1. Content(s) = UNION {ToSet(s[kind]) : kind \in Kinds}
  BY RuleSetFacts DEF Content
<1>2. \A x : x \in Content(s) <=> \E k \in Kinds : x \in ToSet(s[k])
  BY <1>1
<1>3. \A x : x \in Content(s) <=> \E k \in Kinds : \E i \in DOMAIN s[k] : x = s[k][i]
  BY <1>2 DEF ToSet
<1>4. Content(s) \in SUBSET (Rules("flows") \cup Rules("routes"))
  BY <1>3, RuleSetFacts DEF Kinds
<1>5. QED
  BY <1>3, <1>4, NullAssumption

(* The keys of the two tables are different. *)
LEMMA KeysApart ==
  ASSUME NEW j \in Kinds, NEW k \in Kinds, NEW x \in Rules(j), NEW y \in Rules(k), x.key = y.key
  PROVE  j = k
BY KeysAssumption DEF Kinds, Rules

(* validateRules and dp_snapshot_build agree on what is acceptable. *)
LEMMA ValidIsBuildable ==
  ASSUME NEW s \in RuleSets, validateRules(s)
  PROVE  BuildAccepts(s)
<1> SUFFICES ASSUME NEW k \in Kinds, NEW i \in 1 .. Len(s[k])
             PROVE  /\ s[k][i].key \notin InvalidKeys /\ s[k][i].action \notin InvalidActions
                    /\ s[k][i].key \notin KeysOf(SubSeq(s[k], 1, i - 1))
  BY DEF BuildAccepts, validateRules
<1>1. s[k] \in Seq(Rules(k)) /\ DOMAIN s[k] = 1 .. Len(s[k]) /\ Len(s[k]) \in Nat
  BY RuleSetFacts
<1>2. s[k][i].key \notin InvalidKeys /\ s[k][i].action \notin InvalidActions
  BY <1>1 DEF validateRules
<1>3. ASSUME NEW j \in DOMAIN SubSeq(s[k], 1, i - 1)
      PROVE  SubSeq(s[k], 1, i - 1)[j].key # s[k][i].key
  <2>1. j \in 1 .. i - 1 /\ SubSeq(s[k], 1, i - 1)[j] = s[k][j]
    BY <1>1, <1>3
  <2>2. QED
    BY <1>1, <2>1 DEF validateRules
<1>4. QED
  BY <1>2, <1>3 DEF KeysOf

(* RemoveAt *)
LEMMA RemoveAtFacts ==
  ASSUME NEW K, NEW s \in Seq(K), NEW i \in 1 .. Len(s)
  PROVE  /\ RemoveAt(s, i) \in Seq(K) /\ Len(RemoveAt(s, i)) = Len(s) - 1
         /\ \A j \in 1 .. Len(s) - 1 : RemoveAt(s, i)[j] = IF j < i THEN s[j] ELSE s[j + 1]
<1> DEFINE a == SubSeq(s, 1, i - 1)
           b == SubSeq(s, i + 1, Len(s))
<1>1. /\ a \in Seq(K) /\ Len(a) = i - 1 /\ b \in Seq(K) /\ Len(b) = Len(s) - i
  BY SubSeqProperties
<1>2. \A j \in 1 .. i - 1 : a[j] = s[j]
  OBVIOUS
<1>3. \A j \in 1 .. Len(s) - i : b[j] = s[i + j]
  OBVIOUS
<1> HIDE DEF a, b
<1>4. /\ a \o b \in Seq(K) /\ Len(a \o b) = Len(s) - 1
      /\ \A j \in 1 .. Len(s) - 1 : (a \o b)[j] = IF j < i THEN a[j] ELSE b[j - (i - 1)]
  <2>1. /\ a \o b \in Seq(K) /\ Len(a \o b) = Len(a) + Len(b)
        /\ \A j \in 1 .. Len(a) + Len(b) :
             (a \o b)[j] = IF j <= Len(a) THEN a[j] ELSE b[j - Len(a)]
    BY <1>1, ConcatProperties
  <2>2. Len(a) + Len(b) = Len(s) - 1 /\ \A j \in Nat : j <= Len(a) <=> j < i
    BY <1>1
  <2>3. QED
    BY <1>1, <2>1, <2>2
<1>5. ASSUME NEW j \in 1 .. Len(s) - 1
      PROVE  (a \o b)[j] = IF j < i THEN s[j] ELSE s[j + 1]
  <2>0. (a \o b)[j] = IF j < i THEN a[j] ELSE b[j - (i - 1)]
    BY <1>4
  <2>1. CASE j < i
    <3>1. j \in 1 .. i - 1
      BY <2>1
    <3>2. a[j] = s[j]
      BY <1>2, <3>1
    <3>3. QED
      BY <2>0, <2>1, <3>2
  <2>2. CASE ~ (j < i)
    <3> DEFINE k == j - (i - 1)
    <3>1. k \in 1 .. Len(s) - i /\ i + k = j + 1
      BY <2>2
    <3> HIDE DEF k
    <3>2. b[k] = s[j + 1]
      BY <1>3, <3>1
    <3>3. QED
      BY <2>0, <2>2, <3>2 DEF k
  <2>3. QED
    BY <2>1, <2>2
<1>6. QED
  BY <1>4, <1>5 DEF RemoveAt, a, b

-----------------------------------------------------------------------------
(* What AddFlow, AddRoute, DeleteFlow and DeleteRoute propose *)

LEMMA AddProposal ==
  ASSUME NEW r \in Requests, r.op = "Add", currentRules \in RuleSets,
         ~ NotAddable(r.kind, r.rule)
  PROVE  LET t == [currentRules EXCEPT ![r.kind] = Append(@, r.rule)]
         IN  t \in RuleSets /\ validateRules(t) /\ Content(t) \in Effect(r, Content(currentRules))
<1> DEFINE s == currentRules
           k == r.kind
           new == Append(s[k], r.rule)
           t == [s EXCEPT ![k] = new]
<1>1. k \in Kinds /\ r.rule \in Rules(k) /\ s \in RuleSets
  BY RequestFacts
<1>2. s[k] \in Seq(Rules(k)) /\ Len(s[k]) \in Nat /\ DOMAIN s[k] = 1 .. Len(s[k])
  BY <1>1, RuleSetFacts
<1>3. /\ new \in Seq(Rules(k)) /\ Len(new) = Len(s[k]) + 1 /\ DOMAIN new = 1 .. Len(s[k]) + 1
      /\ new[Len(s[k]) + 1] = r.rule /\ \A i \in 1 .. Len(s[k]) : new[i] = s[k][i]
  BY <1>1, <1>2, AppendProperties
<1>4. r.rule.key \notin KeysOf(s[k]) /\ validateRules(t)
  BY DEF NotAddable
<1> HIDE DEF new
<1>5. t \in RuleSets /\ \A j \in Kinds : t[j] = IF j = k THEN new ELSE s[j]
  BY <1>1, <1>3, RuleSetExcept
<1> HIDE DEF t, s, k
<1>6. \A x \in Content(s) : x.key # r.rule.key
  <2> SUFFICES ASSUME NEW x \in Content(s), x.key = r.rule.key PROVE FALSE
    OBVIOUS
  <2>1. PICK j \in Kinds : \E i \in DOMAIN s[j] : x = s[j][i]
    BY <1>1, ContentFacts
  <2>2. j = k
    BY <1>1, <2>1, RuleSetFacts, KeysApart
  <2>3. QED
    BY <1>4, <2>1, <2>2 DEF KeysOf
<1>7. r.rule.key \notin InvalidKeys /\ r.rule.action \notin InvalidActions
  BY <1>1, <1>3, <1>5, <1>4, <1>2 DEF validateRules
<1>8. Content(t) = Content(s) \cup {r.rule}
  <2>1. ASSUME NEW x \in Content(t) PROVE x \in Content(s) \cup {r.rule}
    <3>1. PICK j \in Kinds : \E i \in DOMAIN t[j] : x = t[j][i]
      BY <1>5, <2>1, ContentFacts
    <3>2. PICK i \in DOMAIN t[j] : x = t[j][i]
      BY <3>1
    <3>3. CASE j = k
      <4>1. t[k] = new /\ i \in 1 .. Len(s[k]) + 1 /\ x = new[i]
        BY <1>1, <1>3, <1>5, <3>2, <3>3
      <4>2. CASE i = Len(s[k]) + 1
        BY <1>3, <4>1, <4>2
      <4>3. CASE i # Len(s[k]) + 1
        <5>1. i \in DOMAIN s[k] /\ x = s[k][i]
          BY <1>2, <1>3, <4>1, <4>3
        <5>2. QED
          BY <1>1, <5>1, ContentFacts
      <4>4. QED
        BY <4>2, <4>3
    <3>4. CASE j # k
      BY <1>1, <1>5, <3>2, <3>4, ContentFacts
    <3>5. QED
      BY <3>3, <3>4
  <2>2. r.rule \in Content(t)
    BY <1>1, <1>2, <1>3, <1>5, ContentFacts
  <2>3. ASSUME NEW x \in Content(s) PROVE x \in Content(t)
    <3>1. PICK j \in Kinds : \E i \in DOMAIN s[j] : x = s[j][i]
      BY <1>1, <2>3, ContentFacts
    <3>2. PICK i \in DOMAIN s[j] : x = s[j][i]
      BY <3>1
    <3>3. i \in DOMAIN t[j] /\ x = t[j][i]
      BY <1>2, <1>3, <1>5, <3>2
    <3>4. QED
      BY <1>5, <3>3, ContentFacts
  <2>4. QED
    BY <2>1, <2>2, <2>3
<1>9. Effect(r, Content(s)) = {Content(s) \cup {r.rule}}
  BY <1>6, <1>7 DEF Effect
<1>10. QED
  BY <1>5, <1>4, <1>8, <1>9 DEF t, new, s, k

(* The position of the key a Delete call looks for *)
DeleteIndex(r) ==
  LET found == {i \in DOMAIN currentRules[r.kind] : currentRules[r.kind][i].key = r.key}
  IN CHOOSE i \in found : \A j \in found : i <= j

LEMMA DeleteProposal ==
  ASSUME NEW r \in Requests, r.op = "Delete", currentRules \in RuleSets,
         validateRules(currentRules),
         {i \in DOMAIN currentRules[r.kind] : currentRules[r.kind][i].key = r.key} # {}
  PROVE  LET t == [currentRules EXCEPT ![r.kind] = RemoveAt(@, DeleteIndex(r))]
         IN  t \in RuleSets /\ validateRules(t) /\ Content(t) \in Effect(r, Content(currentRules))
<1> DEFINE s == currentRules
           k == r.kind
           found == {i \in DOMAIN s[k] : s[k][i].key = r.key}
           first == DeleteIndex(r)
           new == RemoveAt(s[k], first)
           t == [s EXCEPT ![k] = new]
<1>1. k \in Kinds /\ r.key \in Keys[k] /\ s \in RuleSets
  BY RequestFacts
<1>2. s[k] \in Seq(Rules(k)) /\ Len(s[k]) \in Nat /\ DOMAIN s[k] = 1 .. Len(s[k])
  BY <1>1, RuleSetFacts
<1>3. \A i \in found : \A j \in found : i <= j /\ i = j
  BY <1>1, <1>2 DEF validateRules
<1>4. first \in found
  <2>1. \E i \in found : \A j \in found : i <= j
    BY <1>3
  <2>2. first = CHOOSE i \in found : \A j \in found : i <= j
    BY DEF DeleteIndex
  <2> HIDE DEF first, found
  <2>3. QED
    BY <2>1, <2>2
<1>5. first \in 1 .. Len(s[k]) /\ s[k][first].key = r.key
  BY <1>2, <1>4
<1> HIDE DEF first
<1>6. /\ new \in Seq(Rules(k)) /\ Len(new) = Len(s[k]) - 1
      /\ \A j \in 1 .. Len(s[k]) - 1 : new[j] = IF j < first THEN s[k][j] ELSE s[k][j + 1]
  BY <1>2, <1>5, RemoveAtFacts
<1> HIDE DEF new
<1>7. DOMAIN new = 1 .. Len(s[k]) - 1
  BY <1>6, LenProperties
<1>8. t \in RuleSets /\ \A j \in Kinds : t[j] = IF j = k THEN new ELSE s[j]
  BY <1>1, <1>6, RuleSetExcept
<1> HIDE DEF t, s, k, found
<1>9. validateRules(s)
  BY DEF s
<1>10. validateRules(t)
  <2> SUFFICES ASSUME NEW kind \in Kinds
               PROVE  /\ Len(t[kind]) <= Capacity[kind]
                      /\ \A i \in DOMAIN t[kind] :
                           /\ t[kind][i].key \notin InvalidKeys
                           /\ t[kind][i].action \notin InvalidActions
                           /\ \A j \in DOMAIN t[kind] : t[kind][i].key = t[kind][j].key => i = j
    BY DEF validateRules
  <2>1. CASE kind # k
    BY <1>8, <1>9, <2>1 DEF validateRules
  <2>2. CASE kind = k
    <3>1. Len(new) <= Capacity[k]
      <4>1. Len(s[k]) <= Capacity[k] /\ Capacity[k] \in Nat
        BY <1>1, <1>9, CapacityAssumption DEF validateRules
      <4>2. QED
        BY <1>2, <1>6, <4>1
    <3>2. ASSUME NEW i \in DOMAIN new
          PROVE  \E m \in DOMAIN s[k] : new[i] = s[k][m] /\ m = IF i < first THEN i ELSE i + 1
      BY <1>2, <1>5, <1>6, <1>7
    <3>3. \A i \in DOMAIN new : new[i].key \notin InvalidKeys /\ new[i].action \notin InvalidActions
      BY <1>1, <1>9, <3>2 DEF validateRules
    <3>4. ASSUME NEW i \in DOMAIN new, NEW j \in DOMAIN new, new[i].key = new[j].key
          PROVE  i = j
      <4>1. PICK m \in DOMAIN s[k] : new[i] = s[k][m] /\ m = IF i < first THEN i ELSE i + 1
        BY <3>2
      <4>2. PICK n \in DOMAIN s[k] : new[j] = s[k][n] /\ n = IF j < first THEN j ELSE j + 1
        BY <3>2
      <4>3. m = n
        BY <1>1, <1>9, <3>4, <4>1, <4>2 DEF validateRules
      <4>4. QED
        BY <1>2, <1>5, <1>7, <4>1, <4>2, <4>3
    <3>5. QED
      BY <1>8, <2>2, <3>1, <3>3, <3>4
  <2>3. QED
    BY <2>1, <2>2
<1>11. Content(t) = {x \in Content(s) : x.key # r.key}
  <2>1. ASSUME NEW x \in Content(t) PROVE x \in Content(s) /\ x.key # r.key
    <3>1. PICK j \in Kinds : \E i \in DOMAIN t[j] : x = t[j][i]
      BY <1>8, <2>1, ContentFacts
    <3>2. PICK i \in DOMAIN t[j] : x = t[j][i]
      BY <3>1
    <3>3. CASE j = k
      <4>1. PICK m \in DOMAIN s[k] : x = s[k][m] /\ m # first
        <5>1. t[k] = new /\ i \in 1 .. Len(s[k]) - 1 /\ x = new[i]
          BY <1>1, <1>7, <1>8, <3>2, <3>3
        <5>2. CASE i < first
          <6>1. i \in DOMAIN s[k] /\ x = s[k][i] /\ i # first
            BY <1>2, <1>5, <1>6, <5>1, <5>2
          <6>2. QED
            BY <6>1
        <5>3. CASE ~ (i < first)
          <6>1. i + 1 \in DOMAIN s[k] /\ x = s[k][i + 1] /\ i + 1 # first
            BY <1>2, <1>5, <1>6, <5>1, <5>3
          <6>2. QED
            BY <6>1
        <5>4. QED
          BY <5>2, <5>3
      <4>2. x.key # r.key
        BY <1>1, <1>2, <1>5, <1>9, <4>1 DEF validateRules
      <4>3. QED
        BY <1>1, <4>1, <4>2, ContentFacts
    <3>4. CASE j # k
      <4>1. x \in Rules(j) /\ i \in DOMAIN s[j] /\ x = s[j][i]
        BY <1>1, <1>8, <3>2, <3>4, RuleSetFacts
      <4>2. s[k][first] \in Rules(k)
        BY <1>1, <1>2, <1>5, RuleSetFacts
      <4>3. x.key # r.key
        BY <1>1, <1>5, <3>4, <4>1, <4>2, KeysApart
      <4>4. QED
        BY <1>1, <4>1, <4>3, ContentFacts
    <3>5. QED
      BY <3>3, <3>4
  <2>2. ASSUME NEW x \in Content(s), x.key # r.key PROVE x \in Content(t)
    <3>1. PICK j \in Kinds : \E i \in DOMAIN s[j] : x = s[j][i]
      BY <1>1, <2>2, ContentFacts
    <3>2. PICK i \in DOMAIN s[j] : x = s[j][i]
      BY <3>1
    <3>3. CASE j = k
      <4>1. i # first
        BY <1>5, <2>2, <3>2, <3>3
      <4>2. CASE i < first
        <5>1. i \in 1 .. Len(s[k]) - 1
          BY <1>2, <1>5, <3>2, <3>3, <4>2
        <5>2. i \in DOMAIN new /\ new[i] = s[k][i]
          BY <1>6, <1>7, <4>2, <5>1
        <5>3. QED
          BY <1>1, <1>8, <3>2, <3>3, <5>2, ContentFacts
      <4>3. CASE i > first
        <5>1. i - 1 \in 1 .. Len(s[k]) - 1 /\ ~ (i - 1 < first) /\ (i - 1) + 1 = i
          BY <1>2, <1>5, <3>2, <3>3, <4>3
        <5>2. i - 1 \in DOMAIN new /\ new[i - 1] = s[k][i]
          BY <1>6, <1>7, <5>1
        <5>3. QED
          BY <1>1, <1>8, <3>2, <3>3, <5>2, ContentFacts
      <4>4. QED
        BY <1>2, <1>5, <3>2, <3>3, <4>1, <4>2, <4>3
    <3>4. CASE j # k
      BY <1>8, <3>2, <3>4, ContentFacts
    <3>5. QED
      BY <3>3, <3>4
  <2>3. QED
    BY <2>1, <2>2
<1>12. s[k][first] \in Content(s)
  BY <1>1, <1>2, <1>5, ContentFacts
<1>13. Effect(r, Content(s)) = {{x \in Content(s) : x.key # r.key}}
  BY <1>5, <1>12 DEF Effect
<1>14. QED
  BY <1>8, <1>10, <1>11, <1>13 DEF t, new, first, s, k

LEMMA ReplaceProposal ==
  ASSUME NEW r \in Requests, r.op = "Replace"
  PROVE  r.rules \in RuleSets /\ Content(r.rules) \in Effect(r, Content(currentRules))
<1>1. r.rules \in RuleSets
  BY RequestFacts, SnapshotFacts
<1>2. QED
  BY <1>1 DEF Effect

-----------------------------------------------------------------------------
(* StoreInv is inductive. *)

LEMMA InitStoreInv == Init => StoreInv
<1> SUFFICES ASSUME Init PROVE StoreInv
  OBVIOUS
<1>1. StoreTypeOK
  BY SnapshotFacts DEF Init, StoreTypeOK
<1>2. MutexInv /\ OpenInv
  BY StoreBoundAssumption DEF Init, MutexInv, OpenInv
<1>3. CopyInv /\ ValidInv /\ CandidateInv
  BY DEF Init, CopyInv, CopiesAgree, ValidInv, CandidateInv
<1>4. QED
  BY <1>1, <1>2, <1>3 DEF StoreInv

(* Runtime.owner *)
LEMMA OwnerStoreInv ==
  ASSUME StoreInv, OwnerStep
  PROVE  StoreInv'
<1>1. StoreTypeOK /\ MutexInv /\ OpenInv /\ CopyInv /\ ValidInv /\ CandidateInv
  BY DEF StoreInv
<1>2. /\ UNCHANGED <<currentRules, pc, req, candidate, err>>
      /\ UNCHANGED <<generation, rulesOpen>> \/ OpenRules \/ CloseRules
  BY DEF OwnerStep, ConfigureRules, InitFails, StartFails, OpenRules, CloseReady, RunReturns,
     CloseRules, Teardown, FinishLifecycle, go_vars, caller_vars
<1>3. ValidInv' /\ CandidateInv'
  BY <1>1, <1>2 DEF ValidInv, CandidateInv
<1> USE <1>1, <1>2, StoreBoundAssumption
    DEF OwnerMoves, go_vars, native_vars, caller_vars
<1>4. StoreTypeOK' /\ MutexInv'
  <2> USE DEF StoreTypeOK, MutexInv
  <2>1. CASE ConfigureRules
    BY <2>1 DEF ConfigureRules, OpenInv
  <2>2. CASE InitFails
    BY <2>2 DEF InitFails, OpenInv
  <2>3. CASE StartFails
    BY <2>3 DEF StartFails, OpenInv
  <2>4. CASE OpenRules
    BY <2>4 DEF OpenRules, OpenInv
  <2>5. CASE CloseReady
    BY <2>5 DEF CloseReady, OpenInv
  <2>6. CASE RunReturns
    BY <2>6 DEF RunReturns, OpenInv
  <2>7. CASE CloseRules
    <3>1. /\ owner = "returned" /\ owner' = "closed" /\ rulesMu = "none" /\ rulesMu' = "owner"
          /\ rulesOpen' = FALSE /\ UNCHANGED <<generation, active_rules, rules_generation>>
      BY <2>7 DEF CloseRules
    <3>2. StoreTypeOK'
      BY <3>1
    <3>3. MutexInv'
      BY <3>1
    <3>4. QED
      BY <3>2, <3>3
  <2>8. CASE Teardown
    BY <2>8 DEF Teardown, OpenInv
  <2>9. CASE FinishLifecycle
    BY <2>9 DEF FinishLifecycle, OpenInv
  <2>10. QED
    BY <2>1, <2>2, <2>3, <2>4, <2>5, <2>6, <2>7, <2>8, <2>9 DEF OwnerStep
<1>5. OpenInv' /\ CopyInv'
  <2> USE DEF OpenInv, CopyInv, CopiesAgree, StoreTypeOK, MutexInv
  <2>1. CASE ConfigureRules
    BY <2>1 DEF ConfigureRules
  <2>2. CASE InitFails
    BY <2>2 DEF InitFails
  <2>3. CASE StartFails
    BY <2>3 DEF StartFails
  <2>4. CASE OpenRules
    BY <2>4, RuleSetFacts DEF OpenRules
  <2>5. CASE CloseReady
    BY <2>5 DEF CloseReady
  <2>6. CASE RunReturns
    BY <2>6 DEF RunReturns
  <2>7. CASE CloseRules
    BY <2>7 DEF CloseRules
  <2>8. CASE Teardown
    BY <2>8 DEF Teardown
  <2>9. CASE FinishLifecycle
    BY <2>9 DEF FinishLifecycle
  <2>10. QED
    BY <2>1, <2>2, <2>3, <2>4, <2>5, <2>6, <2>7, <2>8, <2>9 DEF OwnerStep
<1>6. QED
  BY <1>3, <1>4, <1>5 DEF StoreInv

(* A goroutine that enters the API waits for the mutex, or returns at once. *)
LEMMA CallEffect ==
  ASSUME NEW c \in Callers, Call(c)
  PROVE  \E r \in Requests :
        /\ pc[c] = "idle" /\ req' = [req EXCEPT ![c] = r]
        /\ \/ /\ pc' = [pc EXCEPT ![c] = "wait"] /\ err' = [err EXCEPT ![c] = FALSE]
              /\ r.op = "Replace" => validateRules(r.rules)
           \/ pc' = [pc EXCEPT ![c] = "return"] /\ err' = [err EXCEPT ![c] = TRUE]
<1>1. PICK r \in Requests :
        /\ req' = [req EXCEPT ![c] = r]
        /\ IF r.op = "Replace"
           THEN /\ Moves(c, "idle", IF validateRules(r.rules) THEN "wait" ELSE "return")
                /\ err' = [err EXCEPT ![c] = ~ validateRules(r.rules)]
           ELSE Moves(c, "idle", "wait") /\ err' = [err EXCEPT ![c] = FALSE]
  BY DEF Call
<1>2. CASE r.op = "Replace"
  <2>1. CASE validateRules(r.rules)
    <3>1. (~ validateRules(r.rules)) = FALSE
      BY <2>1
    <3>2. QED
      BY <1>1, <1>2, <2>1, <3>1 DEF Moves
  <2>2. CASE ~ validateRules(r.rules)
    <3>1. (~ validateRules(r.rules)) = TRUE
      BY <2>2
    <3>2. QED
      BY <1>1, <1>2, <2>2, <3>1 DEF Moves
  <2>3. QED
    BY <2>1, <2>2
<1>3. CASE r.op # "Replace"
  BY <1>1, <1>3 DEF Moves
<1>4. QED
  BY <1>2, <1>3

LEMMA CallStoreInv ==
  ASSUME StoreInv, NEW c \in Callers, Call(c)
  PROVE  StoreInv'
<1>1. StoreTypeOK /\ MutexInv /\ OpenInv /\ CopyInv /\ ValidInv /\ CandidateInv
  BY DEF StoreInv
<1>2. PICK r \in Requests :
        /\ pc[c] = "idle" /\ req' = [req EXCEPT ![c] = r]
        /\ \/ /\ pc' = [pc EXCEPT ![c] = "wait"] /\ err' = [err EXCEPT ![c] = FALSE]
              /\ r.op = "Replace" => validateRules(r.rules)
           \/ pc' = [pc EXCEPT ![c] = "return"] /\ err' = [err EXCEPT ![c] = TRUE]
  BY CallEffect
<1>3. UNCHANGED <<owner, rulesMu, rulesOpen, currentRules, generation, active_rules,
                  rules_generation, candidate>>
  BY DEF Call, go_vars, native_vars
<1> USE <1>1, <1>2, <1>3
<1>4. StoreTypeOK'
  BY DEF StoreTypeOK
<1>5. MutexInv' /\ OpenInv'
  BY DEF StoreTypeOK, MutexInv, OpenInv
<1>6. CopyInv'
  BY DEF StoreTypeOK, CopyInv, CopiesAgree
<1>7. ValidInv'
  BY DEF StoreTypeOK, ValidInv
<1>8. CandidateInv'
  BY DEF StoreTypeOK, CandidateInv
<1>9. QED
  BY <1>4, <1>5, <1>6, <1>7, <1>8 DEF StoreInv

(* Waiting for the mutex, giving it back, returning *)
LEMMA MutexStoreInv ==
  ASSUME StoreInv, NEW c \in Callers, Lock(c) \/ Unlock(c) \/ Return(c)
  PROVE  StoreInv'
<1>1. StoreTypeOK /\ MutexInv /\ OpenInv /\ CopyInv /\ ValidInv /\ CandidateInv
  BY DEF StoreInv
<1>2. UNCHANGED <<owner, rulesOpen, currentRules, generation, active_rules, rules_generation>>
  BY DEF Lock, Unlock, Return, go_vars, native_vars
<1> USE <1>1, <1>2, StoreBoundAssumption, SnapshotFacts DEF Moves
<1>3. StoreTypeOK'
  <2>1. CASE Lock(c)
    BY <2>1 DEF Lock, StoreTypeOK
  <2>2. CASE Unlock(c)
    BY <2>2 DEF Unlock, StoreTypeOK
  <2>3. CASE Return(c)
    BY <2>3 DEF Return, StoreTypeOK
  <2>4. QED
    BY <2>1, <2>2, <2>3
<1>4. MutexInv'
  BY DEF Lock, Unlock, Return, StoreTypeOK, MutexInv
<1>5. OpenInv'
  BY DEF OpenInv
<1>6. CopyInv'
  BY DEF Lock, Unlock, Return, StoreTypeOK, CopyInv, CopiesAgree
<1>7. ValidInv'
  BY DEF Lock, Unlock, Return, StoreTypeOK, ValidInv
<1>8. CandidateInv'
  BY DEF Lock, Unlock, Return, StoreTypeOK, CandidateInv
<1>9. QED
  BY <1>3, <1>4, <1>5, <1>6, <1>7, <1>8 DEF StoreInv

(* A call is refused: its error is set and nothing changes. *)
LEMMA RefuseStoreInv ==
  ASSUME StoreInv, NEW c \in Callers, NEW from \in {"locked", "publish", "native"},
         Refuse(c, from), UNCHANGED <<owner, rulesMu, go_vars, native_vars, req>>
  PROVE  StoreInv'
<1>1. StoreTypeOK /\ MutexInv /\ OpenInv /\ CopyInv /\ ValidInv /\ CandidateInv
  BY DEF StoreInv
<1> USE <1>1 DEF Refuse, Moves, go_vars, native_vars
<1>2. StoreTypeOK'
  BY DEF StoreTypeOK
<1>3. MutexInv' /\ OpenInv'
  BY DEF StoreTypeOK, MutexInv, OpenInv
<1>4. CopyInv'
  BY DEF StoreTypeOK, CopyInv, CopiesAgree
<1>5. ValidInv'
  BY DEF StoreTypeOK, ValidInv
<1>6. CandidateInv'
  BY DEF StoreTypeOK, CandidateInv
<1>7. QED
  BY <1>2, <1>3, <1>4, <1>5, <1>6 DEF StoreInv

(* A call proposes a valid rule set that it made of the current rules. *)
LEMMA ProposeStoreInv ==
  ASSUME StoreInv, NEW c \in Callers, NEW t \in RuleSets,
         Propose(c, t), UNCHANGED <<owner, rulesMu, go_vars, native_vars, req>>,
         validateRules(t), Content(t) \in Effect(req[c], Content(currentRules))
  PROVE  StoreInv'
<1>1. StoreTypeOK /\ MutexInv /\ OpenInv /\ CopyInv /\ ValidInv /\ CandidateInv
  BY DEF StoreInv
<1> USE <1>1 DEF Propose, Moves, go_vars, native_vars
<1>2. StoreTypeOK'
  BY DEF StoreTypeOK
<1>3. MutexInv' /\ OpenInv'
  BY DEF StoreTypeOK, MutexInv, OpenInv
<1>4. CopyInv'
  BY DEF StoreTypeOK, CopyInv, CopiesAgree
<1>5. ValidInv'
  BY DEF StoreTypeOK, ValidInv
<1>6. CandidateInv'
  BY DEF StoreTypeOK, CandidateInv
<1>7. QED
  BY <1>2, <1>3, <1>4, <1>5, <1>6 DEF StoreInv

(* ReplaceRules, AddFlow, AddRoute, DeleteFlow and DeleteRoute *)
LEMMA ChangeStoreInv ==
  ASSUME StoreInv, NEW c \in Callers,
         \/ ReplaceRules(c) \/ AddFlow(c) \/ AddRoute(c) \/ DeleteFlow(c) \/ DeleteRoute(c)
  PROVE  StoreInv'
<1>1. /\ req[c] \in Requests /\ currentRules \in RuleSets /\ validateRules(currentRules)
      /\ pc[c] = "locked" /\ req[c].op = "Replace" => validateRules(req[c].rules)
  BY DEF StoreInv, StoreTypeOK, ValidInv
<1>2. CASE ReplaceRules(c)
  <2>1. /\ req[c].op = "Replace" /\ Propose(c, req[c].rules)
        /\ UNCHANGED <<owner, rulesMu, go_vars, native_vars, req>>
    BY <1>2 DEF ReplaceRules
  <2>2. validateRules(req[c].rules)
    BY <1>1, <2>1 DEF Propose, Moves
  <2>3. QED
    BY <1>1, <2>1, <2>2, ReplaceProposal, ProposeStoreInv
<1>3. ASSUME NEW kind \in Kinds, Add(c, kind)
      PROVE  StoreInv'
  <2>1. /\ req[c].op = "Add" /\ req[c].kind = kind
        /\ UNCHANGED <<owner, rulesMu, go_vars, native_vars, req>>
    BY <1>3 DEF Add
  <2>2. CASE NotAddable(kind, req[c].rule)
    <3>1. Refuse(c, "locked")
      BY <1>3, <2>2 DEF Add
    <3>2. QED
      BY <2>1, <3>1, RefuseStoreInv
  <2>3. CASE ~ NotAddable(kind, req[c].rule)
    <3> DEFINE t == [currentRules EXCEPT ![kind] = Append(@, req[c].rule)]
    <3>1. Propose(c, t)
      BY <1>3, <2>3 DEF Add
    <3>2. t \in RuleSets /\ validateRules(t) /\ Content(t) \in Effect(req[c], Content(currentRules))
      BY <1>1, <2>1, <2>3, AddProposal
    <3> HIDE DEF t
    <3>3. QED
      BY <2>1, <3>1, <3>2, ProposeStoreInv
  <2>4. QED
    BY <2>2, <2>3
<1>4. ASSUME NEW kind \in Kinds, Delete(c, kind)
      PROVE  StoreInv'
  <2> DEFINE found == {i \in DOMAIN currentRules[kind] : currentRules[kind][i].key = req[c].key}
             t == [currentRules EXCEPT ![kind] = RemoveAt(@, DeleteIndex(req[c]))]
  <2>1. /\ req[c].op = "Delete" /\ req[c].kind = kind
        /\ UNCHANGED <<owner, rulesMu, go_vars, native_vars, req>>
    BY <1>4 DEF Delete
  <2>2. IF found = {} THEN Refuse(c, "locked") ELSE Propose(c, t)
    BY <1>4, <2>1 DEF Delete, DeleteIndex
  <2>3. CASE found = {}
    BY <2>1, <2>2, <2>3, RefuseStoreInv
  <2>4. CASE found # {}
    <3>1. t \in RuleSets /\ validateRules(t) /\ Content(t) \in Effect(req[c], Content(currentRules))
      BY <1>1, <2>1, <2>4, DeleteProposal
    <3>2. Propose(c, t)
      BY <2>2, <2>4
    <3> HIDE DEF t
    <3>3. QED
      BY <2>1, <3>1, <3>2, ProposeStoreInv
  <2>5. QED
    BY <2>3, <2>4
<1>5. QED
  BY <1>2, <1>3, <1>4 DEF AddFlow, AddRoute, DeleteFlow, DeleteRoute, Kinds

(* publishSnapshotLocked and the native call *)
LEMMA PublishStoreInv ==
  ASSUME StoreInv, NEW c \in Callers,
         \/ publishSnapshotLocked(c) \/ PublishRules(c) \/ PublishRulesFails(c)
         \/ PublishReturns(c)
  PROVE  StoreInv'
<1>1. StoreTypeOK /\ MutexInv /\ OpenInv /\ CopyInv /\ ValidInv /\ CandidateInv
  BY DEF StoreInv
<1>2. CASE publishSnapshotLocked(c)
  <2>1. CASE rulesOpen
    <3> USE <1>1, <1>2, <2>1 DEF publishSnapshotLocked, Moves, go_vars, native_vars
    <3>1. StoreTypeOK'
      BY DEF StoreTypeOK
    <3>2. MutexInv' /\ OpenInv'
      BY DEF StoreTypeOK, MutexInv, OpenInv
    <3>3. CopyInv'
      BY DEF StoreTypeOK, CopyInv, CopiesAgree
    <3>4. ValidInv'
      BY DEF StoreTypeOK, ValidInv
    <3>5. CandidateInv'
      BY DEF StoreTypeOK, CandidateInv
    <3>6. QED
      BY <3>1, <3>2, <3>3, <3>4, <3>5 DEF StoreInv
  <2>2. CASE ~ rulesOpen
    BY <1>2, <2>2, RefuseStoreInv DEF publishSnapshotLocked
  <2>3. QED
    BY <2>1, <2>2
<1>3. CASE PublishRules(c)
  <2>1. /\ pc[c] = "native" /\ pc' = [pc EXCEPT ![c] = "grace"] /\ active_rules' = candidate[c]
        /\ rules_generation' = rules_generation + 1
        /\ UNCHANGED <<owner, rulesMu, rulesOpen, currentRules, generation, req, candidate, err>>
    BY <1>3 DEF PublishRules, Moves, go_vars
  <2>2. \A d \in Callers : pc[d] \in {"publish", "native", "grace"} => d = c
    BY <1>1, <2>1 DEF MutexInv
  <2>3. candidate[c] \in RuleSets /\ candidate[c] # NULL
    BY <1>1, RuleSetFacts DEF StoreTypeOK
  <2>4. rulesOpen /\ owner \in {"opened", "running", "returned"}
    BY <1>1, <2>1 DEF MutexInv, OpenInv
  <2> USE <1>1, <2>1, <2>2, <2>3, <2>4
  <2>5. StoreTypeOK'
    BY DEF StoreTypeOK
  <2>6. MutexInv' /\ OpenInv'
    BY DEF StoreTypeOK, MutexInv, OpenInv
  <2>7. CopyInv'
    <3>1. pc'[c] = "grace"
      BY DEF StoreTypeOK
    <3>2. \A d \in Callers : pc'[d] = "grace" => d = c
      BY DEF StoreTypeOK
    <3>3. QED
      BY <3>1, <3>2 DEF CopyInv, CopiesAgree
  <2>8. ValidInv'
    BY DEF StoreTypeOK, ValidInv
  <2>9. CandidateInv'
    BY DEF StoreTypeOK, CandidateInv
  <2>10. QED
    BY <2>5, <2>6, <2>7, <2>8, <2>9 DEF StoreInv
<1>4. CASE PublishRulesFails(c)
  BY <1>4, RefuseStoreInv DEF PublishRulesFails, go_vars
<1>5. CASE PublishReturns(c)
  <2>1. /\ pc[c] = "grace" /\ pc' = [pc EXCEPT ![c] = "unlock"] /\ currentRules' = candidate[c]
        /\ generation' = rules_generation
        /\ UNCHANGED <<owner, rulesMu, rulesOpen, active_rules, rules_generation, req, candidate,
                       err>>
    BY <1>5 DEF PublishReturns, Moves, native_vars
  <2>2. \A d \in Callers : pc[d] \in {"publish", "native", "grace"} => d = c
    BY <1>1, <2>1 DEF MutexInv
  <2>3. rulesOpen /\ owner \in {"opened", "running", "returned"} /\ active_rules = candidate[c]
        /\ validateRules(candidate[c])
    BY <1>1, <2>1 DEF MutexInv, OpenInv, CopyInv, ValidInv
  <2> USE <1>1, <2>1, <2>2, <2>3
  <2>4. StoreTypeOK'
    BY DEF StoreTypeOK
  <2>5. MutexInv' /\ OpenInv'
    BY DEF StoreTypeOK, MutexInv, OpenInv
  <2>6. CopyInv'
    BY DEF StoreTypeOK, CopyInv, CopiesAgree
  <2>7. ValidInv'
    BY DEF StoreTypeOK, ValidInv
  <2>8. CandidateInv'
    BY DEF StoreTypeOK, CandidateInv
  <2>9. QED
    BY <2>4, <2>5, <2>6, <2>7, <2>8 DEF StoreInv
<1>6. QED
  BY <1>2, <1>3, <1>4, <1>5

LEMMA NextStoreInv == StoreInv /\ [Next]_vars => StoreInv'
<1> SUFFICES ASSUME StoreInv, [Next]_vars PROVE StoreInv'
  OBVIOUS
<1>1. CASE OwnerStep
  BY <1>1, OwnerStoreInv
<1>2. ASSUME NEW c \in Callers, Call(c) \/ CallerStep(c)
      PROVE  StoreInv'
  BY <1>2, CallStoreInv, MutexStoreInv, ChangeStoreInv, PublishStoreInv DEF CallerStep
<1>3. CASE UNCHANGED vars
  <2> USE <1>3 DEF StoreInv, vars, go_vars, native_vars, caller_vars
  <2>1. StoreTypeOK' /\ MutexInv' /\ OpenInv'
    BY DEF StoreTypeOK, MutexInv, OpenInv
  <2>2. CopyInv' /\ ValidInv' /\ CandidateInv'
    BY DEF CopyInv, CopiesAgree, ValidInv, CandidateInv
  <2>3. QED
    BY <2>1, <2>2
<1>4. QED
  BY <1>1, <1>2, <1>3 DEF Next

-----------------------------------------------------------------------------
(* The theorems *)

(* The strengthened invariant of the rule API holds in every reachable      *)
(* state.                                                                   *)
THEOREM StoreInvariance == SafeSpec => []StoreInv
BY InitStoreInv, NextStoreInv, PTL DEF SafeSpec

(* The rules the Go side computes with are the rules packets follow. *)
THEOREM CopyAgreement == SafeSpec => []CopiesAgree
BY StoreInvariance, PTL DEF StoreInv, CopyInv

(* dp_publish_rules finds no fault in what reaches it, though Delete does   *)
(* not validate.                                                            *)
THEOREM PublicationsAccepted == SafeSpec => []NeverRejected
<1>1. StoreInv => NeverRejected
  BY ValidIsBuildable DEF StoreInv, StoreTypeOK, MutexInv, OpenInv, ValidInv, NeverRejected
<1>2. QED
  BY <1>1, StoreInvariance, PTL

-----------------------------------------------------------------------------
(* Linearizability: every step of the rule API is a step of the one atomic  *)
(* table, or changes nothing of it.  A call takes effect at the exchange of *)
(* active_rules.                                                            *)

LEMMA OutcomeOf ==
  ASSUME NEW c \in Callers
  PROVE  Outcome[c] = IF pc[c] = "idle" THEN "returned"
                      ELSE IF pc[c] \in {"grace", "unlock", "return"} /\ ~ err[c] THEN "applied"
                      ELSE "none"
BY DEF Outcome

(* A step of one caller changes the outcome of its own call only. *)
LEMMA OutcomeStep ==
  ASSUME StoreTypeOK, NEW c \in Callers, NEW o,
         NEW to, pc' = [pc EXCEPT ![c] = to],
         NEW e, err' = [err EXCEPT ![c] = e],
         o = IF to = "idle" THEN "returned"
             ELSE IF to \in {"grace", "unlock", "return"} /\ ~ e THEN "applied" ELSE "none"
  PROVE  Outcome' = [Outcome EXCEPT ![c] = o]
<1> DEFINE Of(p, x) == IF p = "idle" THEN "returned"
                       ELSE IF p \in {"grace", "unlock", "return"} /\ ~ x THEN "applied"
                       ELSE "none"
<1>1. pc'[c] = to /\ err'[c] = e
  BY DEF StoreTypeOK
<1>2. \A d \in Callers : d # c => pc'[d] = pc[d] /\ err'[d] = err[d]
  BY DEF StoreTypeOK
<1>3. Outcome' = [d \in Callers |-> Of(pc'[d], err'[d])]
  BY DEF Outcome
<1>4. Outcome = [d \in Callers |-> Of(pc[d], err[d])]
  BY DEF Outcome
<1>5. o = Of(to, e)
  OBVIOUS
<1> HIDE DEF Of
<1>6. QED
  BY <1>1, <1>2, <1>3, <1>4, <1>5

LEMMA OutcomeSame ==
  ASSUME StoreTypeOK, NEW c \in Callers,
         NEW to, pc' = [pc EXCEPT ![c] = to],
         NEW e \in BOOLEAN, err' = [err EXCEPT ![c] = e],
         Outcome[c] = IF to = "idle" THEN "returned"
                      ELSE IF to \in {"grace", "unlock", "return"} /\ ~ e THEN "applied"
                      ELSE "none"
  PROVE  UNCHANGED Outcome
<1>1. Outcome' = [Outcome EXCEPT ![c] = Outcome[c]]
  BY OutcomeStep
<1>2. [Outcome EXCEPT ![c] = Outcome[c]] = Outcome
  BY DEF Outcome
<1>3. QED
  BY <1>1, <1>2

(* Runtime.owner *)
LEMMA OwnerLinear ==
  ASSUME StoreInv, OwnerStep
  PROVE  Table!TConfigure \/ Table!TWithdraw \/ UNCHANGED Table!table_vars
<1>1. UNCHANGED <<pc, req, err>>
  BY DEF OwnerStep, ConfigureRules, InitFails, StartFails, OpenRules, CloseReady, RunReturns,
     CloseRules, Teardown, FinishLifecycle, caller_vars
<1>2. UNCHANGED Outcome
  BY <1>1 DEF Outcome
<1>3. CASE ConfigureRules
  <2>1. rules_generation = 0 /\ currentRules \in {z \in Snapshots : validateRules(z)}
    BY <1>3 DEF StoreInv, OpenInv, ConfigureRules, OwnerMoves
  <2>2. rules_generation' = 1 /\ active_rules' = currentRules
    BY <1>3 DEF ConfigureRules
  <2>3. Content(active_rules)' = Content(currentRules)
    BY <2>2 DEF Content
  <2>4. QED
    BY <1>1, <1>2, <2>1, <2>2, <2>3 DEF Table!TConfigure
<1>4. CASE Teardown
  <2>1. Content(active_rules)' = NULL /\ UNCHANGED rules_generation
    BY <1>4 DEF Teardown, Content
  <2>2. QED
    BY <1>1, <1>2, <2>1 DEF Table!TWithdraw
<1>5. CASE ~ ConfigureRules /\ ~ Teardown
  <2>1. UNCHANGED <<active_rules, rules_generation>>
    BY <1>5 DEF OwnerStep, InitFails, StartFails, OpenRules, CloseReady, RunReturns,
       CloseRules, FinishLifecycle, native_vars
  <2>2. UNCHANGED Content(active_rules)
    BY <2>1 DEF Content
  <2>3. QED
    BY <1>1, <1>2, <2>1, <2>2 DEF Table!table_vars
<1>6. QED
  BY <1>3, <1>4, <1>5

(* Callers *)
LEMMA CallerLinear ==
  ASSUME StoreInv, NEW c \in Callers, Call(c) \/ CallerStep(c)
  PROVE  \/ Table!Invoke(c) \/ Table!Apply(c) \/ Table!TReturn(c)
         \/ UNCHANGED Table!table_vars
<1>1. /\ StoreTypeOK /\ MutexInv /\ OpenInv /\ CopyInv /\ CandidateInv
      /\ err[c] \in BOOLEAN /\ err = [err EXCEPT ![c] = err[c]]
  BY DEF StoreInv, StoreTypeOK
<1>2. CASE Call(c)
  <2>1. PICK r \in Requests :
          /\ pc[c] = "idle" /\ req' = [req EXCEPT ![c] = r]
          /\ \/ pc' = [pc EXCEPT ![c] = "wait"] /\ err' = [err EXCEPT ![c] = FALSE]
             \/ pc' = [pc EXCEPT ![c] = "return"] /\ err' = [err EXCEPT ![c] = TRUE]
    BY <1>2, CallEffect
  <2>2. Outcome' = [Outcome EXCEPT ![c] = "none"]
    BY <1>1, <2>1, OutcomeStep
  <2>3. Outcome[c] = "returned"
    BY <2>1, OutcomeOf
  <2>4. UNCHANGED <<Content(active_rules), rules_generation>>
    BY <1>2 DEF Call, native_vars, Content
  <2>5. QED
    BY <2>1, <2>2, <2>3, <2>4 DEF Table!Invoke
<1>3. CASE PublishRules(c)
  <2>1. /\ pc[c] = "native" /\ pc' = [pc EXCEPT ![c] = "grace"] /\ active_rules' = candidate[c]
        /\ active_rules # NULL /\ rules_generation' = rules_generation + 1
        /\ UNCHANGED <<req, err>>
    BY <1>3 DEF PublishRules, Moves
  <2>2. ~ err[c] /\ Content(candidate[c]) \in Effect(req[c], Content(currentRules))
    BY <1>1, <2>1 DEF CandidateInv
  <2>3. currentRules = active_rules
    <3>1. \A d \in Callers : pc[d] # "grace"
      BY <1>1, <2>1 DEF MutexInv
    <3>2. rulesOpen
      BY <1>1, <2>1 DEF MutexInv
    <3>3. QED
      BY <1>1, <3>1, <3>2 DEF CopyInv, CopiesAgree
  <2>4. Outcome' = [Outcome EXCEPT ![c] = "applied"]
    BY <1>1, <2>1, <2>2, OutcomeStep
  <2>5. Outcome[c] = "none"
    BY <2>1, OutcomeOf
  <2>6. Content(active_rules) # NULL
    BY <1>1, <2>1, ContentFacts DEF StoreTypeOK
  <2>7. Content(active_rules)' = Content(candidate[c])
    BY <2>1 DEF Content
  <2>8. QED
    BY <2>1, <2>2, <2>3, <2>4, <2>5, <2>6, <2>7 DEF Table!Apply
<1>4. CASE Return(c)
  <2>1. /\ pc[c] = "return" /\ pc' = [pc EXCEPT ![c] = "idle"]
        /\ req' = [req EXCEPT ![c] = NoRequest] /\ err' = [err EXCEPT ![c] = FALSE]
        /\ UNCHANGED <<active_rules, rules_generation>>
    BY <1>4 DEF Return, Moves, native_vars
  <2>2. Outcome' = [Outcome EXCEPT ![c] = "returned"]
    BY <1>1, <2>1, OutcomeStep
  <2>3. Outcome[c] # "returned"
    BY <2>1, OutcomeOf
  <2>4. UNCHANGED Content(active_rules)
    BY <2>1 DEF Content
  <2>5. QED
    BY <2>1, <2>2, <2>3, <2>4, SnapshotFacts DEF Table!TReturn
<1>5. CASE ~ Call(c) /\ ~ PublishRules(c) /\ ~ Return(c)
  <2>1. UNCHANGED <<active_rules, rules_generation, req>>
    BY <1>5 DEF CallerStep, Lock, ReplaceRules, AddFlow, AddRoute, Add, DeleteFlow, DeleteRoute,
       Delete, publishSnapshotLocked, PublishRulesFails, PublishReturns, Unlock, native_vars
  <2>2. UNCHANGED Outcome
    <3>1. ASSUME NEW from \in {"locked", "publish", "native"}, Refuse(c, from)
          PROVE  UNCHANGED Outcome
      <4>1. /\ pc[c] = from /\ pc' = [pc EXCEPT ![c] = "unlock"]
            /\ err' = [err EXCEPT ![c] = TRUE]
        BY <3>1 DEF Refuse, Moves
      <4>2. Outcome[c] = "none"
        BY <4>1, OutcomeOf
      <4>3. pc'[c] = "unlock" /\ err'[c]
        BY <1>1, <4>1 DEF StoreTypeOK
      <4>4. \A d \in Callers : d # c => pc'[d] = pc[d] /\ err'[d] = err[d]
        BY <1>1, <4>1 DEF StoreTypeOK
      <4>5. Outcome'[c] = "none"
        BY <4>3 DEF Outcome
      <4>6. \A d \in Callers : Outcome'[d] = Outcome[d]
        BY <4>2, <4>4, <4>5 DEF Outcome
      <4>7. QED
        BY <4>6 DEF Outcome
    <3>2. ASSUME NEW from \in {"wait", "locked", "publish"},
                 NEW to \in {"locked", "publish", "native"}, Moves(c, from, to), UNCHANGED err
          PROVE  UNCHANGED Outcome
      <4>1. pc[c] = from /\ pc' = [pc EXCEPT ![c] = to] /\ err' = [err EXCEPT ![c] = err[c]]
        BY <1>1, <3>2 DEF Moves
      <4>2. Outcome[c] = "none"
        BY <4>1, OutcomeOf
      <4>3. QED
        BY <1>1, <4>1, <4>2, OutcomeSame
    <3>3. ASSUME NEW from \in {"grace", "unlock"}, NEW to \in {"unlock", "return"},
                 Moves(c, from, to), UNCHANGED err
          PROVE  UNCHANGED Outcome
      <4>1. pc[c] = from /\ pc' = [pc EXCEPT ![c] = to] /\ err' = [err EXCEPT ![c] = err[c]]
        BY <1>1, <3>3 DEF Moves
      <4>2. Outcome[c] = IF ~ err[c] THEN "applied" ELSE "none"
        BY <4>1, OutcomeOf
      <4>3. QED
        BY <1>1, <4>1, <4>2, OutcomeSame
    <3>4. CASE Lock(c) \/ ReplaceRules(c)
      BY <3>4, <3>2 DEF Lock, ReplaceRules, Propose
    <3>5. ASSUME NEW k, Add(c, k)
          PROVE  UNCHANGED Outcome
      BY <3>5, <3>1, <3>2 DEF Add, Propose
    <3>6. ASSUME NEW k, Delete(c, k)
          PROVE  UNCHANGED Outcome
      BY <3>6, <3>1, <3>2 DEF Delete, Propose
    <3>7. CASE publishSnapshotLocked(c)
      BY <3>7, <3>1, <3>2 DEF publishSnapshotLocked
    <3>8. CASE PublishRulesFails(c)
      BY <3>8, <3>1 DEF PublishRulesFails
    <3>9. CASE PublishReturns(c) \/ Unlock(c)
      BY <3>9, <3>3 DEF PublishReturns, Unlock
    <3>10. QED
      BY <1>5, <3>4, <3>5, <3>6, <3>7, <3>8, <3>9
         DEF CallerStep, AddFlow, AddRoute, DeleteFlow, DeleteRoute
  <2>3. UNCHANGED Content(active_rules)
    BY <2>1 DEF Content
  <2>4. QED
    BY <2>1, <2>2, <2>3 DEF Table!table_vars
<1>6. QED
  BY <1>2, <1>3, <1>4, <1>5

LEMMA LinearInit == Init => Table!TInit
<1> SUFFICES ASSUME Init PROVE Table!TInit
  OBVIOUS
<1>1. Content(active_rules) = NULL /\ rules_generation = 0
  BY DEF Init, Content
<1>2. req \in [Callers -> Requests]
  BY SnapshotFacts DEF Init
<1>3. Outcome = [c \in Callers |-> "returned"]
  BY DEF Init, Outcome
<1>4. QED
  BY <1>1, <1>2, <1>3 DEF Table!TInit

LEMMA LinearNext == StoreInv /\ [Next]_vars => [Table!TNext]_(Table!table_vars)
<1> SUFFICES ASSUME StoreInv, [Next]_vars
             PROVE  Table!TNext \/ UNCHANGED Table!table_vars
  OBVIOUS
<1>1. CASE OwnerStep
  BY <1>1, OwnerLinear DEF Table!TNext
<1>2. ASSUME NEW c \in Callers, Call(c) \/ CallerStep(c)
      PROVE  Table!TNext \/ UNCHANGED Table!table_vars
  BY <1>2, CallerLinear DEF Table!TNext
<1>3. CASE UNCHANGED vars
  <2>1. UNCHANGED <<active_rules, rules_generation, req, pc, err>>
    BY <1>3 DEF vars, native_vars, caller_vars
  <2>2. UNCHANGED Content(active_rules) /\ UNCHANGED Outcome
    BY <2>1 DEF Content, Outcome
  <2>3. QED
    BY <2>1, <2>2 DEF Table!table_vars
<1>4. QED
  BY <1>1, <1>2, <1>3 DEF Next

(* Every call of the rule API takes effect atomically on the rules that     *)
(* packets follow, at the exchange of active_rules, or fails and changes    *)
(* nothing; no update is lost.                                              *)
THEOREM RuleApiLinearizable == SafeSpec => Linearizable
BY StoreInvariance, LinearInit, LinearNext, PTL DEF SafeSpec, Linearizable, Table!TSpec
=============================================================================
