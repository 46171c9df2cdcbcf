----------------------------- MODULE MCAccounts -----------------------------
(***************************************************************************)
(* A small instance of Accounts: two admins and a user.                    *)
(***************************************************************************)
EXTENDS Accounts, TLC

Users == 1..3
Start == [u \in Users |-> [admin |-> u # 3, locked |-> FALSE, enrolled |-> TRUE, email |-> "e1"]]

Symmetry == Permutations(Tx)
=============================================================================
