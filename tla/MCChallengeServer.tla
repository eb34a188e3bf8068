------------------------- MODULE MCChallengeServer -------------------------
(* Module ChallengeServer for TLC. *)
EXTENDS ChallengeServer
=============================================================================
