---------------------------- MODULE MCMatchmaking ----------------------------
(* Symmetry of the model values of Matchmaking, for the safety runs.       *)
EXTENDS Matchmaking, TLC

Symmetry ==
  Permutations(Session) \cup Permutations(Ticket) \cup Permutations(Player)
=============================================================================
