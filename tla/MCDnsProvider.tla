---------------------------- MODULE MCDnsProvider ----------------------------
(* The programs of all DNS providers of lego.                               *)
EXTENDS DnsProvider, DnsProviders
=============================================================================
