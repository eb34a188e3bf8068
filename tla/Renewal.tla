------------------------------ MODULE Renewal ------------------------------
(***************************************************************************)
(* When renew renews (cmd/cmd_renew.go, certificate/renewal.go): a         *)
(* scheduler runs the command once per period; each time the ARI window of *)
(* the CA, --days or --dynamic decide whether, and when, the certificate   *)
(* is renewed.  The renewal may fail.  Times are in hours, counted from    *)
(* the notBefore of the current certificate.                               *)
(***************************************************************************)
EXTENDS Integers

CONSTANTS
  Lifetimes,      \* lifetimes of certificates
  DaysValues,     \* values of --days
  Periods,        \* intervals between two runs of the command
  MaxFailures     \* bound: renewals in a row that fail

ASSUME RenewalAssumption ==
  /\ Lifetimes \subseteq Nat \ {0} /\ DaysValues \subseteq Int
  /\ Periods \subseteq Nat \ {0} /\ MaxFailures \in Nat

VARIABLES
  lifetime, days, dynamic,
  period,      \* of the scheduler
  ari,         \* ARI is neither disabled nor missing at the CA
  willing,     \* --ari-wait-to-renew-duration
  age,         \* of the certificate, now that renew is run
  failures     \* renewals in a row that failed

renewVars == <<lifetime, days, dynamic, period, ari, willing, age, failures>>
config == <<lifetime, days, dynamic, period, ari, willing>>

-----------------------------------------------------------------------------
(* needRenewal and needRenewalDynamic *)

\* time.Duration.Round(24 * time.Hour), halves up, in days.
RoundedDays(t) == (t + 12) \div 24

Divisor == IF RoundedDays(lifetime) <= 10 THEN 2 ELSE 3

\* The due date is reached a third, or half, of the lifetime before the end.
NeedRenewalDynamicLate(now) == lifetime - (lifetime \div (2 * Divisor)) < now

NeedRenewalDynamic(now) == lifetime - (lifetime \div Divisor) < now

\* The days left are truncated towards zero.
DaysLeft(now) ==
  IF now <= lifetime THEN (lifetime - now) \div 24 ELSE -((now - lifetime) \div 24)

NeedRenewal(now) ==
  IF dynamic THEN NeedRenewalDynamic(now) ELSE days < 0 \/ DaysLeft(now) <= days

-----------------------------------------------------------------------------
(* ShouldRenewAt, with rt the random time within the suggested window *)

NoTime == -1

ShouldRenewAtAnyTime(now, rt) == IF rt < now THEN now ELSE rt

ShouldRenewAt(now, rt) ==
  IF rt < now THEN now ELSE IF rt <= now + willing THEN rt ELSE NoTime

-----------------------------------------------------------------------------
\* How long before its end a certificate is due, and how much of that the
\* scheduler and failing renewals use up.
DueBefore ==
  IF dynamic THEN lifetime \div Divisor
  ELSE IF days < 0 \/ (days + 1) * 24 > lifetime THEN lifetime ELSE (days + 1) * 24

RenewInit ==
  /\ lifetime \in Lifetimes /\ days \in DaysValues /\ dynamic \in BOOLEAN
  /\ period \in Periods /\ ari \in BOOLEAN /\ willing \in {0, period - 1}
  /\ period * (MaxFailures + 1) <= DueBefore
  /\ age = period /\ failures = 0

\* A run that decides to renew at time t and obtains the certificate; the
\* next run comes a period after this one.
Renewed(t) ==
  /\ age' = age + period - t
  /\ failures' = 0

Failed ==
  /\ failures < MaxFailures
  /\ age' = age + period
  /\ failures' = failures + 1

\* renewForDomains and renewForCSR without a renewal time from ARI.
RenewByAge ==
  /\ IF NeedRenewal(age) THEN Renewed(age) \/ Failed
     ELSE age' = age + period /\ UNCHANGED failures
  /\ UNCHANGED config

\* --force-cert-domains: the certificate does not have the domains asked for.
RenewForced ==
  /\ Renewed(age) \/ Failed
  /\ UNCHANGED config

\* With ARI: sleep until the time it gives.  The window of the CA ends with
\* the certificate.
RenewByAri ==
  /\ ari
  /\ \E rt \in 0 .. lifetime :
       /\ ShouldRenewAt(age, rt) # NoTime
       /\ Renewed(ShouldRenewAt(age, rt)) \/ Failed
  /\ UNCHANGED config

RenewNext == RenewByAge \/ RenewForced \/ RenewByAri

RenewSpec == RenewInit /\ [][RenewNext]_renewVars

-----------------------------------------------------------------------------
(* Properties *)

\* Type correctness.
RenewTypeOK ==
  /\ lifetime \in Lifetimes /\ days \in DaysValues /\ dynamic \in BOOLEAN
  /\ period \in Periods /\ ari \in BOOLEAN /\ willing \in Nat
  /\ age \in Nat
  /\ failures \in 0 .. MaxFailures

\* Whenever renew is run the certificate has not expired: if the scheduler's
\* period times one more than the failures in a row fits into the time between
\* the due date and the end, the decision to renew never comes too late,
\* whether --days, --dynamic or ARI takes it.
NeverExpired == age <= lifetime
=============================================================================
