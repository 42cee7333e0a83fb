----------------------------- MODULE MCAccounts -----------------------------
(* An instance of Accounts.  Users, browsers and tokens are interchangeable.  *)
EXTENDS Accounts, TLC

CONSTANTS u1, u2, b1, b2, t1

Alike == Permutations(Browsers) \cup Permutations(Tokens) \cup Permutations(Users)
=============================================================================
