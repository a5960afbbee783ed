------------------------------ MODULE MCAccounts ------------------------------
(* Small instances of Accounts for TLC.                                     *)
EXTENDS Accounts, TLC

(* Ids, requests and phones are drawn or given arbitrarily; the user name of *)
(* the environment is the only distinguished identifier.                     *)
Interchangeable ==
  Permutations(Users) \cup Permutations(Requests) \cup Permutations(Phones)
    \cup Permutations(Idents \ {AdminUser})

=============================================================================
