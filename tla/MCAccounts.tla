----------------------------- MODULE MCAccounts -----------------------------
(* Logins, requests and actor ids are interchangeable for TLC. *)
EXTENDS Accounts, TLC

Symmetry ==
    Permutations(Logins) \union Permutations(Requests) \union Permutations(Actors)
        \union Permutations(Millis)
=============================================================================
