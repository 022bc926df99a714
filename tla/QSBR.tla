-------------------------------- MODULE QSBR --------------------------------
(***************************************************************************)
(* The quiescent-state variable of DPDK's rte_rcu library, which           *)
(* dp_lookup.c uses to decide when a retired rule snapshot may be freed.   *)
(* The library is not part of this repository; the operators below are the *)
(* memory accesses of the calls dp_lookup.c makes:                         *)
(*                                                                         *)
(*   rte_rcu_qsbr_thread_register   sets the reader's bit in the bitmap    *)
(*   rte_rcu_qsbr_thread_online     loads the token, then stores it in the *)
(*                                  reader's counter (two accesses)        *)
(*   rte_rcu_qsbr_quiescent         the same two accesses                  *)
(*   rte_rcu_qsbr_thread_offline    stores 0 in the counter                *)
(*   rte_rcu_qsbr_thread_unregister clears the bit                         *)
(*   rte_rcu_qsbr_start             increments the token and returns it    *)
(*   rte_rcu_qsbr_check(wait)       loads the bitmap, passes each reader   *)
(*                                  that is offline or has seen the token, *)
(*                                  and reloads the bitmap whenever it has *)
(*                                  to wait for one                        *)
(***************************************************************************)
EXTENDS Integers

CONSTANT ReaderCapacity    \* max_threads of rte_rcu_qsbr_init

ASSUME ReaderCapacityAssumption == ReaderCapacity \in Nat

Readers == 0 .. ReaderCapacity - 1

VARIABLES token,        \* v->token, 1 after rte_rcu_qsbr_init
          registered,   \* v->reg_thread_id, the bitmap of registered readers
          cnt           \* v->qsbr_cnt[r].cnt, 0 while the reader is offline

qsbr_vars == <<token, registered, cnt>>

QSBRTypeOK ==
  /\ token \in Nat \ {0}
  /\ registered \subseteq Readers
  /\ cnt \in [Readers -> Nat]

rte_rcu_qsbr_init ==
  /\ token = 1
  /\ registered = {}
  /\ cnt = [r \in Readers |-> 0]

rte_rcu_qsbr_thread_register(r) ==
  /\ registered' = registered \cup {r}
  /\ UNCHANGED <<token, cnt>>

(* The store half of thread_online and of quiescent: t is the value of the *)
(* token that the reader loaded earlier, possibly stale by now.            *)
qsbr_store(r, t) ==
  /\ cnt' = [cnt EXCEPT ![r] = t]
  /\ UNCHANGED <<token, registered>>

rte_rcu_qsbr_thread_offline(r) ==
  /\ cnt' = [cnt EXCEPT ![r] = 0]
  /\ UNCHANGED <<token, registered>>

rte_rcu_qsbr_thread_unregister(r) ==
  /\ registered' = registered \ {r}
  /\ UNCHANGED <<token, cnt>>

rte_rcu_qsbr_start ==
  /\ token' = token + 1
  /\ UNCHANGED <<registered, cnt>>

(* rte_rcu_qsbr_check passes reader r for the grace period t. *)
Acked(r, t) == cnt[r] = 0 \/ cnt[r] >= t

=============================================================================
