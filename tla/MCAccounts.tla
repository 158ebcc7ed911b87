----------------------------- MODULE MCAccounts -----------------------------
(* Instances of Accounts: the first administrator and the accounts that are *)
(* created after it.                                                        *)
EXTENDS Accounts, TLC

Interchangeable == Permutations(Users) \cup Permutations(Passwords)

(* Bound: a behaviour ends where a command or a login overlapped a change   *)
(* of what it had looked up.                                                *)
Uncrossed == ~crossed
=============================================================================
