------------------------------ MODULE Solving ------------------------------
(***************************************************************************)
(* What Prober.Solve (challenge/resolver/prober.go) promises to the rest of *)
(* the client, whatever solvers it drives and in whatever order: the CA is  *)
(* asked to check an authorization only when its key authorization is       *)
(* published, nothing is withdrawn before the authorization is decided, and *)
(* Solve returns only when every authorization is valid or reported.        *)
(* Module Prober implements this specification.                             *)
(***************************************************************************)

CONSTANT Authz

VARIABLES
  records,   \* authorizations whose key authorization is published
  status,    \* the authorizations at the CA
  failed,    \* the authorizations reported as failed
  returned

vars == <<records, status, failed, returned>>

Init ==
  /\ records = {} /\ failed = {} /\ returned = FALSE
  /\ status \in [Authz -> {"pending", "valid", "invalid"}]

Decided(a) == status[a] = "valid" \/ a \in failed

Open(a) == ~returned /\ a \notin failed

\* A publication that fails may have been carried out.
Publish(a) ==
  /\ Open(a) /\ status[a] # "valid"
  /\ records' = records \cup {a}
  /\ failed' \in {failed, failed \cup {a}}
  /\ UNCHANGED <<status, returned>>

\* The answer of the CA may be lost, and the check begun nevertheless.
Begin(a) ==
  /\ Open(a) /\ a \in records /\ status[a] = "pending"
  /\ status' = [status EXCEPT ![a] = "processing"]
  /\ failed' \in {failed, failed \cup {a}}
  /\ UNCHANGED <<records, returned>>

\* Several may be given up at once: those without a solver.
GiveUp ==
  /\ ~returned
  /\ \E as \in SUBSET Authz : failed' = failed \cup as
  /\ UNCHANGED <<records, status, returned>>

Withdraw(a) ==
  /\ ~returned /\ Decided(a)
  /\ records' = records \ {a}
  /\ UNCHANGED <<status, failed, returned>>

Return ==
  /\ \A a \in Authz : Decided(a)
  /\ returned' = TRUE
  /\ UNCHANGED <<records, status, failed>>

\* The CA checks in its own time, also what was given up.
Check(a) ==
  /\ status[a] = "processing"
  /\ \/ a \in records /\ status' = [status EXCEPT ![a] = "valid"]
     \/ status' = [status EXCEPT ![a] = "invalid"]
  /\ UNCHANGED <<records, failed, returned>>

Next ==
  \/ \E a \in Authz : Publish(a) \/ Begin(a) \/ Withdraw(a) \/ Check(a)
  \/ GiveUp \/ Return

Spec == Init /\ [][Next]_vars

-----------------------------------------------------------------------------
\* The CA finds what it looks for: while an authorization is under check and not
\* given up, its key authorization is published.
PublishedWhileChecked ==
  \A a \in Authz : status[a] = "processing" /\ a \notin failed => a \in records

\* When Solve has returned, every authorization is valid or reported.
AllDecided == returned => \A a \in Authz : Decided(a)
=============================================================================
