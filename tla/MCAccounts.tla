------------------------------ MODULE MCAccounts ------------------------------
(***************************************************************************)
(* Instances of the accounts for TLC: two customers with a name each, or   *)
(* two who want the same name.                                             *)
(***************************************************************************)
EXTENDS Accounts, TLC
CONSTANTS n1, n2, s1

OwnNames == [s \in Sessions |-> IF s = s1 THEN n1 ELSE n2]
SameName == [s \in Sessions |-> n1]

\* Generated ids are interchangeable, and so are addresses.
AccountSymmetry == {p @@ q : p \in Permutations(UserIds), q \in Permutations(Addresses)}
=============================================================================
