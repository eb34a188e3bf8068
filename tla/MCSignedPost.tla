---------------------------- MODULE MCSignedPost ----------------------------
(* Small instances of SignedPost for TLC. *)
EXTENDS SignedPost
=============================================================================
