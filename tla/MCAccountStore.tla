--------------------------- MODULE MCAccountStore ---------------------------
(* Small instances of AccountStore for TLC. *)
EXTENDS AccountStore
=============================================================================
