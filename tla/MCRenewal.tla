------------------------------ MODULE MCRenewal ------------------------------
(* A small instance of Renewal for TLC: lifetimes on both sides of the ten   *)
(* days below which a certificate is short-lived, and of 30 days.            *)
EXTENDS Renewal

MCLifetimes == {72, 160, 251, 252, 720, 800}
MCDays == {-1, 0, 3, 30}
MCPeriods == {1, 11, 24, 42}
=============================================================================
