----------------------------- MODULE MCAccounts -----------------------------
(***************************************************************************)
(* Accounts on small instances.                                            *)
(***************************************************************************)
EXTENDS Accounts, TLC

CONSTANTS a, b, p, q, long, h1, h2, o1

Symmetric == Permutations(Logins) \union Permutations(Handlers)
                                  \union Permutations(Passwords \ Long)
=============================================================================
