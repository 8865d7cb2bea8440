----------------------------- MODULE MCAccounts -----------------------------
(***************************************************************************)
(* Instances of Accounts for TLC: four mixes of requests that interact.       *)
(***************************************************************************)
EXTENDS Accounts, TLC

CONSTANTS f, m, n

MCTraffic == {
    {"login", "change", "password_reset"},
    {"login", "telegram", "webapp"},
    {"login", "admin", "team"},
    {"login", "google", "register", "admin"}}

\* Threads and tokens are interchangeable.
Symmetric == Permutations(Thread) \union Permutations(Token)
=============================================================================
