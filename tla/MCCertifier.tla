----------------------------- MODULE MCCertifier -----------------------------
(* Small instances of Certifier for TLC. *)
EXTENDS Certifier
=============================================================================
