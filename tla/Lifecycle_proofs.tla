--------------------------- MODULE Lifecycle_proofs ---------------------------
(***************************************************************************)
(* Proofs about Lifecycle: whichever native calls fail, in whichever order *)
(* a stop arrives, nothing is released under what still uses it, no error  *)
(* is lost and a run without error has released everything.                *)
(***************************************************************************)
EXTENDS Lifecycle, TLAPS

USE DEF AfterFailedInit, StopAfterSetup, CloseSeen

-----------------------------------------------------------------------------
(* The inductive invariant, by the phases of Runtime.owner *)

Admission == {"start", "argv", "init"}            \* before the EAL is up
Configuration == {"info", "configure"}            \* the EAL and nothing else
PortSetup == {"pool", "port0", "port1", "setupDone"}
Running == {"run", "running"}
Ending == {"stats", "cleanup", "finish", "returned"}

LifeTypeOK ==
  /\ pc \in Admission \cup Configuration \cup {"setup"} \cup PortSetup \cup {"startEnd"}
            \cup Running \cup {"teardown", "closePort"} \cup Ending
  /\ arguments \in {"none", "live", "freed"} /\ eal \in {"down", "up", "cleaned", "partial"}
  /\ pool \in {"none", "live", "freed"}
  /\ owned \subseteq Ports /\ started \subseteq Ports /\ attached \subseteq Ports
  /\ next_port \in 0 .. 2

FlagTypeOK ==
  /\ probe \in BOOLEAN /\ initialized \in BOOLEAN /\ running \in BOOLEAN /\ done \in BOOLEAN
  /\ rules_configured \in BOOLEAN /\ rules_qsbr \in BOOLEAN /\ active_rules \in BOOLEAN

ErrorTypeOK ==
  /\ first_error \in BOOLEAN /\ err \in BOOLEAN /\ teardownErr \in BOOLEAN /\ failed \in BOOLEAN

StatsTypeOK ==
  stats \in [ports_closed : Nat, pool_freed : BOOLEAN, snapshot_freed : BOOLEAN,
             qsbr_freed : BOOLEAN]

(* What the EAL holds, and what it keeps of the arguments *)
EalInv ==
  /\ initialized <=> eal = "up"
  /\ pc \in Admission => eal = "down"
  /\ pc \notin Admission \cup {"startEnd", "finish", "returned"} => initialized
  /\ pc = "startEnd" /\ ~ initialized => err
  /\ pc = "init" => arguments = "live"
  /\ ArgumentsOutliveEal

(* Nothing is held, of the ports, the pool or the rules. *)
NothingHeld == /\ owned = {} /\ started = {} /\ attached = {} /\ pool = "none"
               /\ ~ active_rules /\ ~ rules_qsbr /\ ~ rules_configured

RulesHeld == active_rules /\ rules_qsbr /\ rules_configured

(* What the library holds at each point of the start-up *)
HeldInv ==
  /\ pc \in Admission \cup Configuration => NothingHeld
  /\ pc = "setup" => owned = {} /\ started = {} /\ attached = {} /\ pool = "none" /\ RulesHeld
  /\ pc \in PortSetup \cup Running => owned = Ports /\ RulesHeld
  /\ pc = "pool" => pool = "none" /\ started = {} /\ attached = {}
  /\ pc \in (PortSetup \ {"pool"}) \cup Running => pool = "live"
  /\ attached \subseteq owned
  /\ pc \notin {"closePort"} \cup Ending => started \subseteq attached /\ pool # "freed"
  /\ pool = "freed" => pc \in Ending /\ owned = {}
  /\ eal \notin {"down", "up"} =>
       /\ pc \in {"startEnd", "finish", "returned"} /\ owned = {} /\ started = {}
       /\ pool # "live" /\ ~ active_rules /\ ~ rules_qsbr

(* From dp_dataplane_teardown on, the rules are gone; with no error so far  *)
(* the ports behind the loop index are closed and stopped.                  *)
TeardownInv ==
  /\ pc # "running" => ~ running
  /\ pc \in {"closePort", "stats", "cleanup"} =>
       ~ active_rules /\ ~ rules_qsbr /\ ~ rules_configured
  /\ pc = "closePort" =>
       /\ pool # "freed"
       /\ ~ first_error => started \subseteq owned /\ \A i \in owned : i >= next_port
  /\ (pc = "stats" /\ ~ teardownErr) \/ pc = "cleanup" =>
       owned = {} /\ started = {} /\ pool # "live"

(* Where an error is kept between the call that fails and the end *)
ErrorInv ==
  /\ pc \in Admission \cup Configuration \cup {"setup"} \cup PortSetup \cup Running => ~ err
  /\ pc \notin {"closePort", "stats"} => (err <=> failed)
  /\ pc = "closePort" => (failed <=> err \/ first_error)
  /\ pc = "stats" => (failed <=> err \/ teardownErr)
  /\ done => pc = "returned"

(* What main prints so far, when nothing has failed and this is no probe *)
ReleaseInv ==
  /\ pc \in {"setup"} \cup PortSetup \cup Running \cup {"configure"} => ~ probe
  /\ pc \notin {"closePort"} \cup Ending => stats.ports_closed = 0
  /\ pc \in {"startEnd", "teardown"} /\ ~ err /\ ~ probe =>
       owned = Ports /\ pool = "live" /\ RulesHeld
  /\ pc = "closePort" /\ ~ err /\ ~ first_error /\ ~ probe =>
       /\ pool = "live" /\ owned = {i \in Ports : i >= next_port}
       /\ stats.ports_closed = next_port /\ stats.snapshot_freed /\ stats.qsbr_freed
  /\ pc \in Ending /\ ~ err /\ (pc = "stats" => ~ teardownErr) =>
       /\ ~ probe => /\ stats.ports_closed = 2 /\ stats.pool_freed
                     /\ stats.snapshot_freed /\ stats.qsbr_freed
       /\ pc \in {"finish", "returned"} => eal = "cleaned"

LifeInv == /\ LifeTypeOK /\ FlagTypeOK /\ ErrorTypeOK /\ StatsTypeOK
           /\ EalInv /\ HeldInv /\ TeardownInv /\ ErrorInv /\ ReleaseInv

-----------------------------------------------------------------------------
(* LifeInv is inductive: one lemma per part, one step per action *)

LEMMA InitLifeInv == Init => LifeInv
<1> SUFFICES ASSUME Init PROVE LifeInv
  OBVIOUS
<1> USE DEF Init, Admission, Configuration, PortSetup, Running, Ending, Ports
<1>1. LifeTypeOK /\ StatsTypeOK
  BY DEF LifeTypeOK, StatsTypeOK
<1>2. FlagTypeOK /\ ErrorTypeOK
  BY DEF FlagTypeOK, ErrorTypeOK
<1>3. EalInv /\ HeldInv
  BY DEF EalInv, ArgumentsOutliveEal, HeldInv, NothingHeld
<1>4. TeardownInv /\ ErrorInv /\ ReleaseInv
  BY DEF TeardownInv, ErrorInv, ReleaseInv
<1>5. QED
  BY <1>1, <1>2, <1>3, <1>4 DEF LifeInv

LEMMA NextTypeOK ==
  ASSUME LifeInv, Next
  PROVE  LifeTypeOK'
<1> USE DEF LifeInv, LifeTypeOK,
        Admission, Configuration, PortSetup, Running, Ending, Ports,
        Goes, Fails, NoError, eal_vars, rule_vars, port_vars, run_vars, teardown_vars, go_vars
<1>1. CASE Start
  BY <1>1 DEF Start
<1>2. CASE AllocateArguments
  BY <1>2 DEF AllocateArguments
<1>3. CASE dp_runtime_init
  BY <1>3 DEF dp_runtime_init
<1>4. CASE RuntimeInitFails
  BY <1>4 DEF RuntimeInitFails
<1>5. CASE CheckInfo
  BY <1>5 DEF CheckInfo, dp_runtime_get_info
<1>6. CASE dp_configure_rules
  BY <1>6 DEF dp_configure_rules
<1>7. CASE ConfigureRulesFails
  BY <1>7 DEF ConfigureRulesFails
<1>8. CASE SetupChecks
  BY <1>8 DEF SetupChecks
<1>9. CASE CreatePool
  BY <1>9 DEF CreatePool
<1>10. CASE SetupRxPort
  BY <1>10 DEF SetupRxPort, setup_port
<1>11. CASE SetupTxPort
  BY <1>11 DEF SetupTxPort, setup_port
<1>12. CASE SetupReturns
  BY <1>12 DEF SetupReturns, dp_runtime_get_info
<1>13. CASE CloseReady
  BY <1>13 DEF CloseReady, AfterStart
<1>14. CASE RunBegins
  BY <1>14 DEF RunBegins
<1>15. CASE RunReturns
  BY <1>15 DEF RunReturns
<1>16. CASE RequestStop
  BY <1>16 DEF RequestStop
<1>17. CASE TeardownBegins
  BY <1>17 DEF TeardownBegins
<1>18. CASE ClosePort
  BY <1>18 DEF ClosePort, CloseTurn
<1>19. CASE TeardownReturns
  BY <1>19 DEF TeardownReturns, PoolReleasable
<1>20. CASE GetStats
  BY <1>20 DEF GetStats, AfterStats, CombinedErrors, combine
<1>21. CASE dp_runtime_cleanup
  BY <1>21 DEF dp_runtime_cleanup, CleanupBusy, freeArguments
<1>22. CASE CloseDone
  BY <1>22 DEF CloseDone
<1>23. QED
  BY <1>1, <1>2, <1>3, <1>4, <1>5, <1>6, <1>7, <1>8, <1>9, <1>10, <1>11, <1>12,
     <1>13, <1>14, <1>15, <1>16, <1>17, <1>18, <1>19, <1>20, <1>21, <1>22
     DEF Next, Owner

LEMMA NextFlagTypeOK ==
  ASSUME LifeInv, Next
  PROVE  FlagTypeOK'
<1> USE DEF LifeInv, FlagTypeOK,
        Admission, Configuration, PortSetup, Running, Ending, Ports,
        Goes, Fails, NoError, eal_vars, rule_vars, port_vars, run_vars, teardown_vars, go_vars
<1>1. CASE Start
  BY <1>1 DEF Start
<1>2. CASE AllocateArguments
  BY <1>2 DEF AllocateArguments
<1>3. CASE dp_runtime_init
  BY <1>3 DEF dp_runtime_init
<1>4. CASE RuntimeInitFails
  BY <1>4 DEF RuntimeInitFails
<1>5. CASE CheckInfo
  BY <1>5 DEF CheckInfo, dp_runtime_get_info
<1>6. CASE dp_configure_rules
  BY <1>6 DEF dp_configure_rules
<1>7. CASE ConfigureRulesFails
  BY <1>7 DEF ConfigureRulesFails
<1>8. CASE SetupChecks
  BY <1>8 DEF SetupChecks
<1>9. CASE CreatePool
  BY <1>9 DEF CreatePool
<1>10. CASE SetupRxPort
  BY <1>10 DEF SetupRxPort, setup_port
<1>11. CASE SetupTxPort
  BY <1>11 DEF SetupTxPort, setup_port
<1>12. CASE SetupReturns
  BY <1>12 DEF SetupReturns, dp_runtime_get_info
<1>13. CASE CloseReady
  BY <1>13 DEF CloseReady, AfterStart
<1>14. CASE RunBegins
  BY <1>14 DEF RunBegins
<1>15. CASE RunReturns
  BY <1>15 DEF RunReturns
<1>16. CASE RequestStop
  BY <1>16 DEF RequestStop
<1>17. CASE TeardownBegins
  BY <1>17 DEF TeardownBegins
<1>18. CASE ClosePort
  BY <1>18 DEF ClosePort, CloseTurn
<1>19. CASE TeardownReturns
  BY <1>19 DEF TeardownReturns, PoolReleasable
<1>20. CASE GetStats
  BY <1>20 DEF GetStats, AfterStats, CombinedErrors, combine
<1>21. CASE dp_runtime_cleanup
  BY <1>21 DEF dp_runtime_cleanup, CleanupBusy, freeArguments
<1>22. CASE CloseDone
  BY <1>22 DEF CloseDone
<1>23. QED
  BY <1>1, <1>2, <1>3, <1>4, <1>5, <1>6, <1>7, <1>8, <1>9, <1>10, <1>11, <1>12,
     <1>13, <1>14, <1>15, <1>16, <1>17, <1>18, <1>19, <1>20, <1>21, <1>22
     DEF Next, Owner

LEMMA NextErrorTypeOK ==
  ASSUME LifeInv, Next
  PROVE  ErrorTypeOK'
<1> USE DEF LifeInv, ErrorTypeOK,
        Admission, Configuration, PortSetup, Running, Ending, Ports,
        Goes, Fails, NoError, eal_vars, rule_vars, port_vars, run_vars, teardown_vars, go_vars
<1>1. CASE Start
  BY <1>1 DEF Start
<1>2. CASE AllocateArguments
  BY <1>2 DEF AllocateArguments
<1>3. CASE dp_runtime_init
  BY <1>3 DEF dp_runtime_init
<1>4. CASE RuntimeInitFails
  BY <1>4 DEF RuntimeInitFails
<1>5. CASE CheckInfo
  BY <1>5 DEF CheckInfo, dp_runtime_get_info
<1>6. CASE dp_configure_rules
  BY <1>6 DEF dp_configure_rules
<1>7. CASE ConfigureRulesFails
  BY <1>7 DEF ConfigureRulesFails
<1>8. CASE SetupChecks
  BY <1>8 DEF SetupChecks
<1>9. CASE CreatePool
  BY <1>9 DEF CreatePool
<1>10. CASE SetupRxPort
  BY <1>10 DEF SetupRxPort, setup_port
<1>11. CASE SetupTxPort
  BY <1>11 DEF SetupTxPort, setup_port
<1>12. CASE SetupReturns
  BY <1>12 DEF SetupReturns, dp_runtime_get_info
<1>13. CASE CloseReady
  BY <1>13 DEF CloseReady, AfterStart
<1>14. CASE RunBegins
  BY <1>14 DEF RunBegins
<1>15. CASE RunReturns
  BY <1>15 DEF RunReturns
<1>16. CASE RequestStop
  BY <1>16 DEF RequestStop
<1>17. CASE TeardownBegins
  BY <1>17 DEF TeardownBegins
<1>18. CASE ClosePort
  BY <1>18 DEF ClosePort, CloseTurn
<1>19. CASE TeardownReturns
  BY <1>19 DEF TeardownReturns, PoolReleasable
<1>20. CASE GetStats
  BY <1>20 DEF GetStats, AfterStats, CombinedErrors, combine
<1>21. CASE dp_runtime_cleanup
  BY <1>21 DEF dp_runtime_cleanup, CleanupBusy, freeArguments
<1>22. CASE CloseDone
  BY <1>22 DEF CloseDone
<1>23. QED
  BY <1>1, <1>2, <1>3, <1>4, <1>5, <1>6, <1>7, <1>8, <1>9, <1>10, <1>11, <1>12,
     <1>13, <1>14, <1>15, <1>16, <1>17, <1>18, <1>19, <1>20, <1>21, <1>22
     DEF Next, Owner

LEMMA NextStatsTypeOK ==
  ASSUME LifeInv, Next
  PROVE  StatsTypeOK'
<1> USE DEF LifeInv, StatsTypeOK,
        Admission, Configuration, PortSetup, Running, Ending, Ports,
        Goes, Fails, NoError, eal_vars, rule_vars, port_vars, run_vars, teardown_vars, go_vars
<1>1. CASE Start
  BY <1>1 DEF Start
<1>2. CASE AllocateArguments
  BY <1>2 DEF AllocateArguments
<1>3. CASE dp_runtime_init
  BY <1>3 DEF dp_runtime_init
<1>4. CASE RuntimeInitFails
  BY <1>4 DEF RuntimeInitFails
<1>5. CASE CheckInfo
  BY <1>5 DEF CheckInfo, dp_runtime_get_info
<1>6. CASE dp_configure_rules
  BY <1>6 DEF dp_configure_rules
<1>7. CASE ConfigureRulesFails
  BY <1>7 DEF ConfigureRulesFails
<1>8. CASE SetupChecks
  BY <1>8 DEF SetupChecks
<1>9. CASE CreatePool
  BY <1>9 DEF CreatePool
<1>10. CASE SetupRxPort
  BY <1>10 DEF SetupRxPort, setup_port
<1>11. CASE SetupTxPort
  BY <1>11 DEF SetupTxPort, setup_port
<1>12. CASE SetupReturns
  BY <1>12 DEF SetupReturns, dp_runtime_get_info
<1>13. CASE CloseReady
  BY <1>13 DEF CloseReady, AfterStart
<1>14. CASE RunBegins
  BY <1>14 DEF RunBegins
<1>15. CASE RunReturns
  BY <1>15 DEF RunReturns
<1>16. CASE RequestStop
  BY <1>16 DEF RequestStop
<1>17. CASE TeardownBegins
  BY <1>17 DEF TeardownBegins
<1>18. CASE ClosePort
  BY <1>18 DEF ClosePort, CloseTurn
<1>19. CASE TeardownReturns
  BY <1>19 DEF TeardownReturns, PoolReleasable
<1>20. CASE GetStats
  BY <1>20 DEF GetStats, AfterStats, CombinedErrors, combine
<1>21. CASE dp_runtime_cleanup
  BY <1>21 DEF dp_runtime_cleanup, CleanupBusy, freeArguments
<1>22. CASE CloseDone
  BY <1>22 DEF CloseDone
<1>23. QED
  BY <1>1, <1>2, <1>3, <1>4, <1>5, <1>6, <1>7, <1>8, <1>9, <1>10, <1>11, <1>12,
     <1>13, <1>14, <1>15, <1>16, <1>17, <1>18, <1>19, <1>20, <1>21, <1>22
     DEF Next, Owner

LEMMA NextEalInv ==
  ASSUME LifeInv, Next
  PROVE  EalInv'
<1> USE DEF LifeInv, LifeTypeOK, FlagTypeOK, ErrorTypeOK, EalInv, ArgumentsOutliveEal,
        Admission, Configuration, PortSetup, Running, Ending, Ports,
        Goes, Fails, NoError, eal_vars, rule_vars, port_vars, run_vars, teardown_vars, go_vars
<1>1. CASE Start
  BY <1>1 DEF Start
<1>2. CASE AllocateArguments
  BY <1>2 DEF AllocateArguments
<1>3. CASE dp_runtime_init
  BY <1>3 DEF dp_runtime_init
<1>4. CASE RuntimeInitFails
  BY <1>4 DEF RuntimeInitFails
<1>5. CASE CheckInfo
  BY <1>5 DEF CheckInfo, dp_runtime_get_info
<1>6. CASE dp_configure_rules
  BY <1>6 DEF dp_configure_rules
<1>7. CASE ConfigureRulesFails
  BY <1>7 DEF ConfigureRulesFails
<1>8. CASE SetupChecks
  BY <1>8 DEF SetupChecks
<1>9. CASE CreatePool
  BY <1>9 DEF CreatePool
<1>10. CASE SetupRxPort
  BY <1>10 DEF SetupRxPort, setup_port
<1>11. CASE SetupTxPort
  BY <1>11 DEF SetupTxPort, setup_port
<1>12. CASE SetupReturns
  BY <1>12 DEF SetupReturns, dp_runtime_get_info
<1>13. CASE CloseReady
  BY <1>13 DEF CloseReady, AfterStart
<1>14. CASE RunBegins
  BY <1>14 DEF RunBegins
<1>15. CASE RunReturns
  BY <1>15 DEF RunReturns
<1>16. CASE RequestStop
  BY <1>16 DEF RequestStop
<1>17. CASE TeardownBegins
  BY <1>17 DEF TeardownBegins
<1>18. CASE ClosePort
  BY <1>18 DEF ClosePort, CloseTurn
<1>19. CASE TeardownReturns
  BY <1>19 DEF TeardownReturns, PoolReleasable
<1>20. CASE GetStats
  BY <1>20 DEF GetStats, AfterStats, CombinedErrors, combine
<1>21. CASE dp_runtime_cleanup
  BY <1>21 DEF dp_runtime_cleanup, CleanupBusy, freeArguments
<1>22. CASE CloseDone
  BY <1>22 DEF CloseDone
<1>23. QED
  BY <1>1, <1>2, <1>3, <1>4, <1>5, <1>6, <1>7, <1>8, <1>9, <1>10, <1>11, <1>12,
     <1>13, <1>14, <1>15, <1>16, <1>17, <1>18, <1>19, <1>20, <1>21, <1>22
     DEF Next, Owner

LEMMA NextHeldInv ==
  ASSUME LifeInv, Next
  PROVE  HeldInv'
<1> USE DEF LifeInv, LifeTypeOK, FlagTypeOK, ErrorTypeOK, EalInv, HeldInv, NothingHeld, RulesHeld,
        Admission, Configuration, PortSetup, Running, Ending, Ports,
        Goes, Fails, NoError, eal_vars, rule_vars, port_vars, run_vars, teardown_vars, go_vars
<1>1. CASE Start
  BY <1>1 DEF Start
<1>2. CASE AllocateArguments
  BY <1>2 DEF AllocateArguments
<1>3. CASE dp_runtime_init
  BY <1>3 DEF dp_runtime_init
<1>4. CASE RuntimeInitFails
  BY <1>4 DEF RuntimeInitFails
<1>5. CASE CheckInfo
  BY <1>5 DEF CheckInfo, dp_runtime_get_info
<1>6. CASE dp_configure_rules
  BY <1>6 DEF dp_configure_rules
<1>7. CASE ConfigureRulesFails
  BY <1>7 DEF ConfigureRulesFails
<1>8. CASE SetupChecks
  BY <1>8 DEF SetupChecks
<1>9. CASE CreatePool
  BY <1>9 DEF CreatePool
<1>10. CASE SetupRxPort
  BY <1>10 DEF SetupRxPort, setup_port
<1>11. CASE SetupTxPort
  BY <1>11 DEF SetupTxPort, setup_port
<1>12. CASE SetupReturns
  BY <1>12 DEF SetupReturns, dp_runtime_get_info
<1>13. CASE CloseReady
  BY <1>13 DEF CloseReady, AfterStart, ReleaseInv
<1>14. CASE RunBegins
  BY <1>14 DEF RunBegins
<1>15. CASE RunReturns
  BY <1>15 DEF RunReturns
<1>16. CASE RequestStop
  BY <1>16 DEF RequestStop
<1>17. CASE TeardownBegins
  BY <1>17 DEF TeardownBegins
<1>18. CASE ClosePort
  BY <1>18 DEF ClosePort, CloseTurn
<1>19. CASE TeardownReturns
  BY <1>19 DEF TeardownReturns, PoolReleasable
<1>20. CASE GetStats
  BY <1>20 DEF GetStats, AfterStats, CombinedErrors, combine
<1>21. CASE dp_runtime_cleanup
  BY <1>21 DEF dp_runtime_cleanup, CleanupBusy, freeArguments
<1>22. CASE CloseDone
  BY <1>22 DEF CloseDone
<1>23. QED
  BY <1>1, <1>2, <1>3, <1>4, <1>5, <1>6, <1>7, <1>8, <1>9, <1>10, <1>11, <1>12,
     <1>13, <1>14, <1>15, <1>16, <1>17, <1>18, <1>19, <1>20, <1>21, <1>22
     DEF Next, Owner

LEMMA NextTeardownInv ==
  ASSUME LifeInv, Next
  PROVE  TeardownInv'
<1> USE DEF LifeInv, LifeTypeOK, FlagTypeOK, ErrorTypeOK, HeldInv, NothingHeld, TeardownInv,
        Admission, Configuration, PortSetup, Running, Ending, Ports,
        Goes, Fails, NoError, eal_vars, rule_vars, port_vars, run_vars, teardown_vars, go_vars
<1>1. CASE Start
  BY <1>1 DEF Start
<1>2. CASE AllocateArguments
  BY <1>2 DEF AllocateArguments
<1>3. CASE dp_runtime_init
  BY <1>3 DEF dp_runtime_init
<1>4. CASE RuntimeInitFails
  BY <1>4 DEF RuntimeInitFails
<1>5. CASE CheckInfo
  BY <1>5 DEF CheckInfo, dp_runtime_get_info
<1>6. CASE dp_configure_rules
  BY <1>6 DEF dp_configure_rules
<1>7. CASE ConfigureRulesFails
  BY <1>7 DEF ConfigureRulesFails
<1>8. CASE SetupChecks
  BY <1>8 DEF SetupChecks
<1>9. CASE CreatePool
  BY <1>9 DEF CreatePool
<1>10. CASE SetupRxPort
  BY <1>10 DEF SetupRxPort, setup_port
<1>11. CASE SetupTxPort
  BY <1>11 DEF SetupTxPort, setup_port
<1>12. CASE SetupReturns
  BY <1>12 DEF SetupReturns, dp_runtime_get_info
<1>13. CASE CloseReady
  BY <1>13 DEF CloseReady, AfterStart
<1>14. CASE RunBegins
  BY <1>14 DEF RunBegins
<1>15. CASE RunReturns
  BY <1>15 DEF RunReturns
<1>16. CASE RequestStop
  BY <1>16 DEF RequestStop
<1>17. CASE TeardownBegins
  BY <1>17 DEF TeardownBegins
<1>18. CASE ClosePort
  <2>1. PICK stops \in BOOLEAN, closes \in BOOLEAN : CloseTurn(stops, closes, closes)
    BY <1>18 DEF ClosePort
  <2>2. /\ pc = "closePort" /\ UNCHANGED <<pc, pool, running, active_rules, rules_qsbr,
                                           rules_configured>>
        /\ next_port' = next_port + 1
    BY <2>1 DEF CloseTurn
  <2>3. ASSUME ~ first_error'
        PROVE  started' \subseteq owned' /\ \A i \in owned' : i >= next_port'
    <3>1. /\ ~ first_error
          /\ next_port \in owned => (next_port \in started => stops) /\ closes
      BY <2>1, <2>3 DEF CloseTurn
    <3>2. started \subseteq owned /\ \A i \in owned : i >= next_port
      BY <2>2, <3>1
    <3>3. owned' = owned \ {next_port} /\ started' = started \ {next_port}
      <4>1. CASE next_port \in owned
        BY <2>1, <3>1, <4>1 DEF CloseTurn
      <4>2. CASE next_port \notin owned
        BY <2>1, <3>2, <4>2 DEF CloseTurn
      <4>3. QED
        BY <4>1, <4>2
    <3>4. QED
      BY <2>2, <3>2, <3>3
  <2>4. QED
    BY <2>2, <2>3
<1>19. CASE TeardownReturns
  BY <1>19 DEF TeardownReturns, PoolReleasable
<1>20. CASE GetStats
  BY <1>20 DEF GetStats, AfterStats, CombinedErrors, combine
<1>21. CASE dp_runtime_cleanup
  BY <1>21 DEF dp_runtime_cleanup, CleanupBusy, freeArguments
<1>22. CASE CloseDone
  BY <1>22 DEF CloseDone
<1>23. QED
  BY <1>1, <1>2, <1>3, <1>4, <1>5, <1>6, <1>7, <1>8, <1>9, <1>10, <1>11, <1>12,
     <1>13, <1>14, <1>15, <1>16, <1>17, <1>18, <1>19, <1>20, <1>21, <1>22
     DEF Next, Owner

LEMMA NextErrorInv ==
  ASSUME LifeInv, Next
  PROVE  ErrorInv'
<1> USE DEF LifeInv, LifeTypeOK, FlagTypeOK, ErrorTypeOK, ErrorInv,
        Admission, Configuration, PortSetup, Running, Ending, Ports,
        Goes, Fails, NoError, eal_vars, rule_vars, port_vars, run_vars, teardown_vars, go_vars
<1>1. CASE Start
  BY <1>1 DEF Start
<1>2. CASE AllocateArguments
  BY <1>2 DEF AllocateArguments
<1>3. CASE dp_runtime_init
  BY <1>3 DEF dp_runtime_init
<1>4. CASE RuntimeInitFails
  BY <1>4 DEF RuntimeInitFails
<1>5. CASE CheckInfo
  BY <1>5 DEF CheckInfo, dp_runtime_get_info
<1>6. CASE dp_configure_rules
  BY <1>6 DEF dp_configure_rules
<1>7. CASE ConfigureRulesFails
  BY <1>7 DEF ConfigureRulesFails
<1>8. CASE SetupChecks
  BY <1>8 DEF SetupChecks
<1>9. CASE CreatePool
  BY <1>9 DEF CreatePool
<1>10. CASE SetupRxPort
  BY <1>10 DEF SetupRxPort, setup_port
<1>11. CASE SetupTxPort
  BY <1>11 DEF SetupTxPort, setup_port
<1>12. CASE SetupReturns
  BY <1>12 DEF SetupReturns, dp_runtime_get_info
<1>13. CASE CloseReady
  BY <1>13 DEF CloseReady, AfterStart
<1>14. CASE RunBegins
  BY <1>14 DEF RunBegins
<1>15. CASE RunReturns
  BY <1>15 DEF RunReturns
<1>16. CASE RequestStop
  BY <1>16 DEF RequestStop
<1>17. CASE TeardownBegins
  BY <1>17 DEF TeardownBegins
<1>18. CASE ClosePort
  BY <1>18 DEF ClosePort, CloseTurn
<1>19. CASE TeardownReturns
  BY <1>19 DEF TeardownReturns, PoolReleasable
<1>20. CASE GetStats
  BY <1>20 DEF GetStats, AfterStats, CombinedErrors, combine
<1>21. CASE dp_runtime_cleanup
  BY <1>21 DEF dp_runtime_cleanup, CleanupBusy, freeArguments
<1>22. CASE CloseDone
  BY <1>22 DEF CloseDone
<1>23. QED
  BY <1>1, <1>2, <1>3, <1>4, <1>5, <1>6, <1>7, <1>8, <1>9, <1>10, <1>11, <1>12,
     <1>13, <1>14, <1>15, <1>16, <1>17, <1>18, <1>19, <1>20, <1>21, <1>22
     DEF Next, Owner

LEMMA NextReleaseInv ==
  ASSUME LifeInv, Next
  PROVE  ReleaseInv'
<1> USE DEF LifeInv, LifeTypeOK, FlagTypeOK, ErrorTypeOK, StatsTypeOK, EalInv,
        HeldInv, NothingHeld, RulesHeld, TeardownInv, ErrorInv, ReleaseInv,
        Admission, Configuration, PortSetup, Running, Ending, Ports,
        Goes, Fails, NoError, eal_vars, rule_vars, port_vars, run_vars, teardown_vars, go_vars
<1>1. CASE Start
  BY <1>1 DEF Start
<1>2. CASE AllocateArguments
  BY <1>2 DEF AllocateArguments
<1>3. CASE dp_runtime_init
  BY <1>3 DEF dp_runtime_init
<1>4. CASE RuntimeInitFails
  BY <1>4 DEF RuntimeInitFails
<1>5. CASE CheckInfo
  BY <1>5 DEF CheckInfo, dp_runtime_get_info
<1>6. CASE dp_configure_rules
  BY <1>6 DEF dp_configure_rules
<1>7. CASE ConfigureRulesFails
  BY <1>7 DEF ConfigureRulesFails
<1>8. CASE SetupChecks
  BY <1>8 DEF SetupChecks
<1>9. CASE CreatePool
  BY <1>9 DEF CreatePool
<1>10. CASE SetupRxPort
  BY <1>10 DEF SetupRxPort, setup_port
<1>11. CASE SetupTxPort
  BY <1>11 DEF SetupTxPort, setup_port
<1>12. CASE SetupReturns
  BY <1>12 DEF SetupReturns, dp_runtime_get_info
<1>13. CASE CloseReady
  BY <1>13 DEF CloseReady, AfterStart
<1>14. CASE RunBegins
  BY <1>14 DEF RunBegins
<1>15. CASE RunReturns
  BY <1>15 DEF RunReturns
<1>16. CASE RequestStop
  BY <1>16 DEF RequestStop
<1>17. CASE TeardownBegins
  <2>1. ~ running /\ pc = "teardown"
    BY <1>17 DEF TeardownBegins
  <2>2. /\ pc' = "closePort" /\ next_port' = 0
        /\ stats' = [stats EXCEPT !.snapshot_freed = @ \/ active_rules,
                                  !.qsbr_freed = @ \/ rules_qsbr]
        /\ UNCHANGED <<pool, owned, err, probe>>
    BY <1>17, <2>1 DEF TeardownBegins
  <2>3. QED
    BY <2>1, <2>2
<1>18. CASE ClosePort
  BY <1>18 DEF ClosePort, CloseTurn
<1>19. CASE TeardownReturns
  BY <1>19 DEF TeardownReturns, PoolReleasable
<1>20. CASE GetStats
  BY <1>20 DEF GetStats, AfterStats, CombinedErrors, combine
<1>21. CASE dp_runtime_cleanup
  BY <1>21 DEF dp_runtime_cleanup, CleanupBusy, freeArguments
<1>22. CASE CloseDone
  BY <1>22 DEF CloseDone
<1>23. QED
  BY <1>1, <1>2, <1>3, <1>4, <1>5, <1>6, <1>7, <1>8, <1>9, <1>10, <1>11, <1>12,
     <1>13, <1>14, <1>15, <1>16, <1>17, <1>18, <1>19, <1>20, <1>21, <1>22
     DEF Next, Owner

LEMMA NextLifeInv == LifeInv /\ [Next]_vars => LifeInv'
<1> SUFFICES ASSUME LifeInv, [Next]_vars PROVE LifeInv'
  OBVIOUS
<1>1. CASE Next
  BY <1>1, NextTypeOK, NextFlagTypeOK, NextErrorTypeOK, NextStatsTypeOK, NextEalInv, NextHeldInv,
      NextTeardownInv, NextErrorInv, NextReleaseInv
     DEF LifeInv
<1>2. CASE UNCHANGED vars
  <2> USE <1>2 DEF vars, eal_vars, rule_vars, port_vars, run_vars, teardown_vars, go_vars
  <2>1. LifeTypeOK' /\ FlagTypeOK' /\ ErrorTypeOK' /\ StatsTypeOK'
    BY DEF LifeInv, LifeTypeOK, FlagTypeOK, ErrorTypeOK, StatsTypeOK
  <2>2. EalInv' /\ HeldInv'
    BY DEF LifeInv, EalInv, ArgumentsOutliveEal, HeldInv, NothingHeld, RulesHeld
  <2>3. TeardownInv' /\ ErrorInv' /\ ReleaseInv'
    BY DEF LifeInv, TeardownInv, ErrorInv, ReleaseInv, RulesHeld
  <2>4. QED
    BY <2>1, <2>2, <2>3 DEF LifeInv
<1>3. QED
  BY <1>1, <1>2

-----------------------------------------------------------------------------
(* The theorems *)

(* The strengthened invariant of a process lifetime holds in every          *)
(* reachable state.                                                         *)
THEOREM LifeInvariance == Spec => []LifeInv
BY InitLifeInv, NextLifeInv, PTL DEF Spec

(* The mempool is freed only after every port that holds its mbufs is       *)
(* closed, whatever failed before.                                          *)
THEOREM PoolSafety == Spec => []PoolOutlivesPorts
<1>1. LifeInv => PoolOutlivesPorts
  BY DEF LifeInv, HeldInv, PoolOutlivesPorts
<1>2. QED
  BY <1>1, LifeInvariance, PTL

(* rte_eal_cleanup never runs under anything that lives in the EAL. *)
THEOREM EalSafety == Spec => []EalOutlivesAll
<1>1. LifeInv => EalOutlivesAll
  BY DEF LifeInv, HeldInv, EalOutlivesAll
<1>2. QED
  BY <1>1, LifeInvariance, PTL

(* argv stays allocated as long as the EAL may refer to it. *)
THEOREM ArgumentSafety == Spec => []ArgumentsOutliveEal
<1>1. LifeInv => ArgumentsOutliveEal
  BY DEF LifeInv, EalInv
<1>2. QED
  BY <1>1, LifeInvariance, PTL

(* When finishLifecycle calls Cleanup, dp_runtime_cleanup has nothing to    *)
(* refuse.                                                                  *)
THEOREM CleanupNeverRefused == Spec => []CleanupAccepted
<1>1. LifeInv => CleanupAccepted
  BY DEF LifeInv, EalInv, TeardownInv, CleanupAccepted, CleanupBusy, Admission
<1>2. QED
  BY <1>1, LifeInvariance, PTL

(* Wait returns an error exactly when a call of the lifetime has failed:    *)
(* start-up, run, teardown, statistics or cleanup.                          *)
THEOREM NoErrorLost == Spec => []ErrorsReported
<1>1. LifeInv => ErrorsReported
  BY DEF LifeInv, ErrorInv, ErrorsReported
<1>2. QED
  BY <1>1, LifeInvariance, PTL

(* After a run without error everything is released and counted. *)
THEOREM SuccessIsComplete == Spec => []SuccessMeansReleased
<1>1. LifeInv => SuccessMeansReleased
  BY DEF LifeInv, ErrorInv, ReleaseInv, SuccessMeansReleased, Ending
<1>2. QED
  BY <1>1, LifeInvariance, PTL
=============================================================================
