------------------------------ MODULE MCAccounts ------------------------------
(***************************************************************************)
(* Accounts on small instances.  Requests, emails and passwords are        *)
(* interchangeable in every action and safety property, passwords as long  *)
(* as they are both hashable or both too long.                             *)
(***************************************************************************)
EXTENDS Accounts, TLC

Symmetry == Permutations(Requests) \cup Permutations(Emails)
            \cup Permutations(Passwords \ TooLong)
=============================================================================
