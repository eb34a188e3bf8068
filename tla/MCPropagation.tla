---------------------------- MODULE MCPropagation ----------------------------
(* DnsCareful is evaluated along with the run.                              *)
EXTENDS Propagation, DnsCareful
=============================================================================
