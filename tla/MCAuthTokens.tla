---------------------------- MODULE MCAuthTokens ----------------------------
(* Values of the constants of AuthTokens for its runs. *)
EXTENDS AuthTokens, TLC

RequestSymmetry == Permutations(Requests)
=============================================================================
