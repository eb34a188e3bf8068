----------------------------- MODULE DnsCareful -----------------------------
(***************************************************************************)
(* Which programs of the table break the rules of module DnsDiscipline.     *)
(* The theorems of DnsProviderProofs, DnsPresentProofs and DnsCleanUpProofs *)
(* hold for every table whose programs obey the rules, but for the          *)
(* providers named; that the programs of this one do is a finite matter,    *)
(* which TLC decides when it evaluates the assumption.  The sets are exact: *)
(* the rules exclude no provider that keeps the promise, and the lists name *)
(* none that obeys.                                                         *)
(***************************************************************************)
EXTENDS DnsProviders, DnsDiscipline

Breaking(Rule(_)) == {n \in DOMAIN AllProviders : ~Rule(AllProviders[n])}

ASSUME TableObeys ==
  /\ Breaking(KeepsStanding) = TakesOver
  /\ Breaking(KeepsLate) = TakesOver \cup ReadModifyWrite
  /\ Breaking(Publishes) = {"glesys"}
  /\ Breaking(KeepsBoth) = {"gcloud", "glesys", "rcodezero", "ultradns"}
  /\ Breaking(Clears) = LeavesBehind
=============================================================================
