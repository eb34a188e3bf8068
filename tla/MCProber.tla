------------------------------ MODULE MCProber ------------------------------
(* Small instances of Prober for TLC. *)
EXTENDS Prober
=============================================================================
