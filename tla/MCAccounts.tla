----------------------------- MODULE MCAccounts -----------------------------
(***************************************************************************)
(* A small instance of Accounts for TLC.                                   *)
(***************************************************************************)
EXTENDS Accounts, TLC

CONSTANT m1

\* A file that names one person in each of its rows.
SameEmail == [r \in Rows |-> m1]

\* Ids, requests and roles are interchangeable.
IdSymmetry ==
    Permutations(Users \ {Admin}) \cup Permutations(Employees) \cup Permutations(Workers)
    \cup Permutations(Roles)
=============================================================================
