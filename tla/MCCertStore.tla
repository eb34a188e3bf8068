----------------------------- MODULE MCCertStore -----------------------------
(* Small instances of CertStore for TLC. *)
EXTENDS CertStore, TLC

\* The domains are interchangeable.
Symmetry == Permutations(Domains)
=============================================================================
