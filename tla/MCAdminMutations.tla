-------------------------- MODULE MCAdminMutations --------------------------
(* Values of the constants of AdminMutations for its runs. *)
EXTENDS AdminMutations, TLC

\* All accounts have had the same name.
MCNameOf == [u \in Accounts |-> CHOOSE n \in Names : TRUE]

RequestSymmetry == Permutations(Requests)
=============================================================================
