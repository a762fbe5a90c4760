------------------------------- MODULE MCHost -------------------------------
(* What a host holds in its process: the engine and the simulator, the      *)
(* audited policy store, the quota store.  None of the three modules uses   *)
(* the state of another: a behavior is one of one of them, while the other  *)
(* two rest where they begin.                                               *)
EXTENDS MCSimulator, MCPolicyStore, MCRateLimitStore

VARIABLE machine  \* the one that runs

SimulatorRests ==
  /\ host = "load" /\ runtime = "rust" /\ default = "deny"
  /\ call = [agent |-> "x", tool |-> "x"] /\ SimInit
StoreRests == active = First /\ StoreInit

HostInit ==
  \/ machine = "simulator" /\ StoreRests /\ QuotaInit /\ SimInit
  \/ machine = "policy store" /\ SimulatorRests /\ QuotaInit /\ StoreInit
  \/ machine = "quota store" /\ SimulatorRests /\ StoreRests /\ QuotaInit

HostNext ==
  /\ UNCHANGED machine
  /\ \/ machine = "simulator" /\ SimNext /\ UNCHANGED <<storeVars, quotaVars>>
     \/ machine = "policy store" /\ StoreNext /\ UNCHANGED <<simVars, quotaVars>>
     \/ machine = "quota store" /\ QuotaNext /\ UNCHANGED <<simVars, storeVars>>

HostSpec == HostInit /\ [][HostNext]_<<machine, simVars, storeVars, quotaVars>>
=============================================================================
