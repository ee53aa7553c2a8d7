------------------------ MODULE MCYggdrasilSessions ------------------------
(* Two accounts of one name, of which one can be there at a time. *)
EXTENDS YggdrasilSessions, TLC

CONSTANTS a1, a2, steve

SameName == a1 :> steve @@ a2 :> steve

RequestSymmetry == Permutations(Requests)
=============================================================================
