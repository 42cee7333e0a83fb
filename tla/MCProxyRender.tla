--------------------------- MODULE MCProxyRender ---------------------------
(* Two interchangeable processes, the panel and one site with a certificate   *)
(* and a closed port, one more site to create.                                *)
EXTENDS ProxyRender, TLC
CONSTANTS p1, p2

EveryKind == {"exclusions", "policy", "tls", "create", "upstream",
              "delete", "console", "geo", "certificate", "render", "download", "ports"}
ProcSymmetry == Permutations(Procs)
=============================================================================
