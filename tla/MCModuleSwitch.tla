--------------------------- MODULE MCModuleSwitch ---------------------------
(* Every kind of request, whoever serves it: processes and keys are           *)
(* interchangeable.                                                           *)
EXTENDS ModuleSwitch, TLC
CONSTANTS p1, p2, k1, k2, k3

EveryKind == {"wf", "soc", "obs", "ddos", "activate", "deactivate", "obs_activate",
              "restart crowdsec", "restart bouncer"}
SwSymmetry == Permutations(Procs) \cup Permutations(Keys)
=============================================================================
