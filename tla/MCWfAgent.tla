----------------------------- MODULE MCWfAgent -----------------------------
(* An instance of WfAgent: two free ports and a reserved one, and requests    *)
(* that use every command the console sends.                                  *)
EXTENDS WfAgent, TLC

CONSTANTS a, b, ssl

Cmd(x, y) == [action |-> x, arg |-> y]
EveryCommand ==
    {Cmd("protect_host_port", p) : p \in {a, b, ssl}} \cup
    {Cmd("unprotect_host_port", a), Cmd("secure_console_port", Console),
     Cmd("init_firewall", "all"), Cmd("delete_rule", 1)} \cup
    {Cmd(x, "ssh") : x \in {"allow_port", "deny_port", "limit_port", "unlimit_port"}}

RequestSymmetry == Permutations(Requests)
=============================================================================
