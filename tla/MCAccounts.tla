----------------------------- MODULE MCAccounts ------------------------------
(***************************************************************************)
(* Instances of Accounts.                                                  *)
(***************************************************************************)
EXTENDS Accounts, TLC

CONSTANTS r1, r2, o1, o2, s1

\* Slots and OWNERs are interchangeable.
Alike == Permutations({r1, r2}) \cup Permutations({o1, o2})
=============================================================================
