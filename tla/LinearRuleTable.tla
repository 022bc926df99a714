--------------------------- MODULE LinearRuleTable ---------------------------
(***************************************************************************)
(* What the rule API of Runtime promises its callers: one table of rules   *)
(* that every successful call changes atomically, at one moment between    *)
(* its invocation and its return, by what that call asked for and nothing  *)
(* else; a call that fails changes nothing.  The table has a version that   *)
(* grows by one with every change.                                         *)
(***************************************************************************)
EXTENDS Integers

CONSTANTS Callers, Requests,
          InitialTables,    \* tables the data plane may be configured with
          Effect(_, _),     \* the tables a request turns a table into
          Empty             \* what the data plane holds before and after

VARIABLES table, version,
          request,          \* the request each caller has in progress
          outcome           \* "none", "applied" or "returned"

table_vars == <<table, version, request, outcome>>

TInit ==
  /\ table = Empty /\ version = 0
  /\ request \in [Callers -> Requests]
  /\ outcome = [c \in Callers |-> "returned"]

(* The first table is installed before any call can succeed. *)
TConfigure ==
  /\ version = 0 /\ version' = 1
  /\ table' \in InitialTables
  /\ UNCHANGED <<request, outcome>>

Invoke(c) ==
  /\ outcome[c] = "returned"
  /\ outcome' = [outcome EXCEPT ![c] = "none"]
  /\ \E r \in Requests : request' = [request EXCEPT ![c] = r]
  /\ UNCHANGED <<table, version>>

Apply(c) ==
  /\ outcome[c] = "none" /\ table # Empty
  /\ table' \in Effect(request[c], table)
  /\ version' = version + 1
  /\ outcome' = [outcome EXCEPT ![c] = "applied"]
  /\ UNCHANGED request

(* After its change took effect, or with an error and no change *)
TReturn(c) ==
  /\ outcome[c] # "returned"
  /\ outcome' = [outcome EXCEPT ![c] = "returned"]
  /\ \E r \in Requests : request' = [request EXCEPT ![c] = r]
  /\ UNCHANGED <<table, version>>

(* The data plane withdraws its rules, for good. *)
TWithdraw ==
  /\ table' = Empty
  /\ UNCHANGED <<version, request, outcome>>

TNext == \/ TConfigure \/ TWithdraw
                 \/ \E c \in Callers : Invoke(c) \/ Apply(c) \/ TReturn(c)

TSpec == TInit /\ [][TNext]_table_vars
=============================================================================
