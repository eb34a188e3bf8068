----------------------------- MODULE Certifier -----------------------------
(***************************************************************************)
(* Certifier.Obtain and ObtainForCSR (certificate/certificates.go,         *)
(* certificate/authorization.go) over the order, authorization and         *)
(* certificate services of acme/api: sanitizing the domains, creating the  *)
(* order, fetching its authorizations in parallel goroutines, solving      *)
(* them, finalizing, polling for the certificate, and deactivating the     *)
(* authorizations.  The CA works concurrently.  Prober.Solve does here     *)
(* what module Prober shows it to do: in one step, except where it polls   *)
(* an authorization without limit.                                         *)
(***************************************************************************)
EXTENDS Naturals, FiniteSets

CONSTANT Domains   \* the domains that requests name

None == "none"

ASSUME CertifierAssumption == IsFiniteSet(Domains) /\ None \notin Domains

VARIABLES
  \* the request
  requested,     \* the domains of the request, or the names of its CSR
  inexpressible, \* domains that idna.ToASCII refuses
  csr,           \* ObtainForCSR rather than Obtain
  replaces,      \* the order names a certificate that it replaces
  always,        \* AlwaysDeactivateAuthorizations
  \* Obtain
  pc,
  authzs,        \* order.Authorizations
  worker,        \* the goroutine of each authorization
  received,      \* how many results the loop took from the channels
  responses, failures,
  todo,          \* the authorizations still to deactivate
  cur,           \* the one that is being deactivated, or polled without limit
  res,           \* the returned Resource: none, without or with the certificate
  err,           \* the returned error is not nil
  \* the CA
  names,         \* the identifiers of the order
  order,         \* its status
  status,        \* the status of each authorization
  cert,          \* the names in the certificate it issued
  \* ghost: authorizations about which a request of the deactivation failed
  unreleased

request == <<requested, inexpressible, csr, always>>
fetching == <<worker, received, responses, failures>>
deactivating == <<todo, cur, unreleased>>
result == <<res, err>>
ca == <<names, order, status, cert>>
vars == <<request, replaces, pc, authzs, fetching, deactivating, result, ca>>

Init ==
  /\ requested \in SUBSET Domains \ {{}}
  /\ inexpressible \in SUBSET requested
  /\ csr \in BOOLEAN /\ replaces \in BOOLEAN /\ always \in BOOLEAN
  /\ csr => inexpressible = {}
  /\ pc = "new"
  /\ authzs = {}
  /\ worker = [d \in Domains |-> "idle"]
  /\ received = 0 /\ responses = {} /\ failures = {}
  /\ todo = {} /\ cur = None
  /\ res = None /\ err = FALSE
  /\ names = {} /\ order = None /\ status = [d \in Domains |-> None] /\ cert = {}
  /\ unreleased = {}

-----------------------------------------------------------------------------
(* sanitizeDomain and OrderService.NewWithOptions *)

\* Domains that cannot be written in ASCII are skipped.
Sanitized == requested \ inexpressible

\* A post refused as alreadyReplaced is repeated without Replaces.
AlreadyReplaced ==
  /\ pc = "new"
  /\ replaces /\ replaces' = FALSE
  /\ UNCHANGED <<request, pc, authzs, fetching, deactivating, result, ca>>

\* The CA creates an order, possibly for other names than it was asked for and
\* with other authorizations, of which some may be valid already.
CreateOrder ==
  /\ names' \in SUBSET Domains \ {{}}
  /\ authzs' \in SUBSET Domains
  /\ status' \in [Domains -> {None, "pending", "valid"}]
  /\ \A d \in Domains : status'[d] = None <=> d \notin authzs'
  /\ order' = IF \A d \in authzs' : status'[d] = "valid" THEN "ready" ELSE "pending"

SameIdentifiersAny(identifiers) == TRUE

\* compareIdentifiers with the identifiers that were asked for.
SameIdentifiers(identifiers) == identifiers = Sanitized

NewOrder ==
  /\ pc = "new" /\ Sanitized # {}
  /\ CreateOrder
  /\ IF SameIdentifiers(names') THEN pc' = "spawn" /\ UNCHANGED err
     ELSE pc' = "done" /\ err' = TRUE
  /\ UNCHANGED <<request, replaces, fetching, deactivating, res, cert>>

\* An order for no identifiers is refused, and any post may fail.
NewOrderFails ==
  /\ pc = "new"
  /\ pc' = "done" /\ err' = TRUE
  /\ UNCHANGED <<request, replaces, authzs, fetching, deactivating, res, ca>>

-----------------------------------------------------------------------------
(* getAuthorizations: one goroutine per authorization, two unbuffered channels *)

Spawn ==
  /\ pc = "spawn"
  /\ \/ \E d \in authzs : worker[d] = "idle" /\ worker' = [worker EXCEPT ![d] = "get"] /\ UNCHANGED pc
     \/ (\A d \in authzs : worker[d] # "idle") /\ pc' = "collect" /\ UNCHANGED worker
  /\ UNCHANGED <<request, replaces, authzs, received, responses, failures,
                 deactivating, result, ca>>

WorkerGet(d) ==
  /\ worker[d] = "get"
  /\ \E ok \in BOOLEAN : worker' = [worker EXCEPT ![d] = IF ok THEN "result" ELSE "error"]
  /\ UNCHANGED <<request, replaces, pc, authzs, received, responses, failures,
                 deactivating, result, ca>>

AllReceivedFirstError == received = Cardinality(authzs) \/ failures # {}

AllReceivedOneLess == received + 1 >= Cardinality(authzs)

AllReceived == received = Cardinality(authzs)

\* On an error the Authorization is the zero value: its domain is empty.
Receive ==
  /\ pc = "collect" /\ ~AllReceived
  /\ \E d \in authzs :
       /\ worker[d] \in {"result", "error"}
       /\ worker' = [worker EXCEPT ![d] = "done"]
       /\ IF worker[d] = "result" THEN responses' = responses \cup {d} /\ UNCHANGED failures
          ELSE failures' = failures \cup {None} /\ UNCHANGED responses
  /\ received' = received + 1
  /\ UNCHANGED <<request, replaces, pc, authzs, deactivating, result, ca>>

\* Obtain gives up: the authorizations of the order are deactivated.
Abort ==
  /\ pc' = "deactivate" /\ todo' = authzs
  /\ cur' = None /\ err' = TRUE
  /\ UNCHANGED <<unreleased, res>>

\* The log line of the i-th authorization names the i-th identifier.
IndexOutOfRange == Cardinality(authzs) > Cardinality(names)

\* The authorizations are logged and the channels closed.
Close ==
  /\ pc = "collect" /\ AllReceived
  /\ IF IndexOutOfRange THEN pc' = "panicked" /\ UNCHANGED <<deactivating, result>>
     ELSE IF failures = {} THEN pc' = "solve" /\ UNCHANGED <<deactivating, result>>
     ELSE Abort
  /\ UNCHANGED <<request, replaces, authzs, fetching, ca>>

-----------------------------------------------------------------------------
(* resolver.Solve: Prober!SolvedOrReported and Prober!Returns *)

SolveFails ==
  /\ status' \in [Domains -> {None, "pending", "processing", "valid", "invalid"}]
  /\ \A d \in Domains : status[d] # "pending" => status'[d] = status[d]
  /\ \A d \in Domains : status'[d] = None => status[d] = None
  /\ Abort

\* The order is ready once all its authorizations are valid.
SolveLeaves ==
  /\ order' = IF \A d \in authzs : status'[d] = "valid" THEN "ready" ELSE order
  /\ UNCHANGED <<request, replaces, authzs, fetching, names, cert>>

Solve ==
  /\ pc = "solve"
  /\ \/ /\ \A d \in responses : status[d] # "invalid"
        /\ status' = [d \in Domains |-> IF d \in responses THEN "valid" ELSE status[d]]
        /\ pc' = "finalize"
        /\ UNCHANGED <<deactivating, result>>
     \/ SolveFails
  /\ SolveLeaves

\* The CA gives a Retry-After of 0 with the challenge: validate polls the
\* authorization without a limit of time.
PollWithoutLimit ==
  /\ pc = "solve"
  /\ \E d \in responses :
       /\ status[d] = "pending"
       /\ status' = [status EXCEPT ![d] = "processing"]
       /\ cur' = d
  /\ pc' = "unlimited"
  /\ UNCHANGED <<request, replaces, authzs, fetching, todo, unreleased, result, names, order, cert>>

PollDecided ==
  /\ pc = "unlimited" /\ status[cur] # "processing"
  /\ pc' = "solve" /\ cur' = None
  /\ UNCHANGED <<request, replaces, authzs, fetching, todo, unreleased, result, ca>>

\* A poll that fails is not repeated.
PollFails ==
  /\ pc = "unlimited"
  /\ SolveFails
  /\ SolveLeaves

-----------------------------------------------------------------------------
(* getForOrder, getForCSR, checkResponse *)

\* The common name is the first domain, or none; the other identifiers follow.
CsrNames == IF csr THEN {requested} ELSE {names \cup commonName : commonName \in {{}} \cup {{d} : d \in Sanitized}}

GotWithoutError(resource, failed) ==
  /\ res' = resource
  /\ err' = FALSE
  /\ pc' = IF always THEN "deactivate" ELSE "done"
  /\ todo' = IF always THEN authzs ELSE {}
  /\ UNCHANGED <<cur, unreleased>>

\* The outcome of getForOrder: an error is added to the failures once for
\* each authorization, so it is lost when there is none.
Got(resource, failed) ==
  /\ res' = resource
  /\ err' = (failed /\ responses # {})
  /\ pc' = IF always THEN "deactivate" ELSE "done"
  /\ todo' = IF always THEN authzs ELSE {}
  /\ UNCHANGED <<cur, unreleased>>

\* The CA accepts a CSR for exactly the names of a ready order.
CaFinalize(csrNames) ==
  IF order = "ready" /\ csrNames = names
  THEN /\ order' \in {"processing", "valid", "invalid"}
       /\ cert' = IF order' = "valid" THEN names ELSE cert
       /\ UNCHANGED <<names, status>>
  ELSE UNCHANGED ca

\* UpdateForCSR; a valid order is downloaded at once, without a second try.
Finalize ==
  /\ pc = "finalize"
  /\ \E csrNames \in CsrNames, reached, answered, downloaded \in BOOLEAN :
       /\ IF reached THEN CaFinalize(csrNames) ELSE UNCHANGED ca
       /\ IF ~(reached /\ answered) \/ order' \in {"ready", "invalid"} THEN Got(None, TRUE)
          ELSE IF order' = "valid"
          THEN IF downloaded THEN Got("certificate", FALSE) ELSE Got(None, TRUE)
          ELSE pc' = "poll" /\ UNCHANGED <<deactivating, result>>
  /\ UNCHANGED <<request, replaces, authzs, fetching>>

\* checkOrderStatus: only a valid order has a certificate.
Downloadable == order = "valid"

\* wait.For: after an error, or when the order is not valid, it is asked for
\* again, which changes nothing.
Poll ==
  /\ pc = "poll"
  /\ Downloadable
  /\ Got("certificate", FALSE)
  /\ UNCHANGED <<request, replaces, authzs, fetching, ca>>

TimeUpNever == FALSE /\ UNCHANGED vars

\* The Resource is returned with the error.
TimeUp ==
  /\ pc = "poll"
  /\ Got("partial", TRUE)
  /\ UNCHANGED <<request, replaces, authzs, fetching, ca>>

-----------------------------------------------------------------------------
(* deactivateAuthorizations(order, always) *)

Unreleased(d) == unreleased' = unreleased \cup {d}

SkipPending(s) == s = "pending" /\ ~always

Skip(s) == s = "valid" /\ ~always

DeactivateGet ==
  /\ pc = "deactivate" /\ cur = None
  /\ \E d \in todo :
       /\ todo' = todo \ {d}
       /\ \/ Unreleased(d) /\ UNCHANGED cur
          \/ /\ IF Skip(status[d]) THEN UNCHANGED cur ELSE cur' = d
             /\ UNCHANGED unreleased
  /\ UNCHANGED <<request, replaces, pc, authzs, fetching, result, ca>>

\* The CA may have finished its check since; an invalid authorization stays so.
Deactivate ==
  /\ pc = "deactivate" /\ cur # None
  /\ \/ /\ status' = [status EXCEPT ![cur] = IF @ = "invalid" THEN @ ELSE "deactivated"]
        /\ UNCHANGED unreleased
     \/ Unreleased(cur) /\ UNCHANGED status
  /\ cur' = None
  /\ UNCHANGED <<request, replaces, pc, authzs, fetching, todo, result, names, order, cert>>

DeactivateEnd ==
  /\ pc = "deactivate" /\ cur = None /\ todo = {}
  /\ pc' = "done"
  /\ UNCHANGED <<request, replaces, authzs, fetching, deactivating, result, ca>>

-----------------------------------------------------------------------------
(* The CA ends a check, and issues the certificate. *)

CaCheck(d) ==
  /\ status[d] = "processing"
  /\ \E s \in {"valid", "invalid"} : status' = [status EXCEPT ![d] = s]
  /\ order' = IF order = "pending" /\ (\A e \in authzs : status'[e] = "valid") THEN "ready" ELSE order
  /\ UNCHANGED <<request, replaces, pc, authzs, fetching, deactivating, result, names, cert>>

CaIssue ==
  /\ order = "processing"
  /\ order' \in {"valid", "invalid"}
  /\ cert' = IF order' = "valid" THEN names ELSE cert
  /\ UNCHANGED <<request, replaces, pc, authzs, fetching, deactivating, result, names, status>>

Step ==
  \/ AlreadyReplaced \/ NewOrder \/ NewOrderFails \/ Spawn \/ Receive \/ Close
  \/ Solve \/ PollWithoutLimit \/ PollDecided \/ Finalize \/ Poll \/ TimeUp
  \/ DeactivateGet \/ Deactivate \/ DeactivateEnd

Next ==
  \/ Step
  \/ \E d \in Domains : WorkerGet(d) \/ CaCheck(d)
  \/ PollFails \/ CaIssue

Spec == Init /\ [][Next]_vars

\* The goroutines run on; nothing is assumed of the CA.
FairSpec == Spec /\ WF_vars(Step) /\ \A d \in Domains : WF_vars(WorkerGet(d))

-----------------------------------------------------------------------------
(* Properties *)

\* Type correctness.
TypeOK ==
  /\ requested \subseteq Domains /\ inexpressible \subseteq requested
  /\ csr \in BOOLEAN /\ replaces \in BOOLEAN /\ always \in BOOLEAN
  /\ pc \in {"new", "spawn", "collect", "panicked", "solve", "unlimited", "finalize", "poll",
            "deactivate", "done"}
  /\ authzs \subseteq Domains
  /\ worker \in [Domains -> {"idle", "get", "result", "error", "done"}]
  /\ received \in 0 .. Cardinality(Domains)
  /\ responses \subseteq authzs /\ failures \subseteq {None}
  /\ todo \subseteq authzs /\ cur \in authzs \cup {None}
  /\ res \in {None, "partial", "certificate"} /\ err \in BOOLEAN
  /\ names \subseteq Domains /\ cert \subseteq names
  /\ order \in {None, "pending", "ready", "processing", "valid", "invalid"}
  /\ status \in [Domains -> {None, "pending", "processing", "valid", "invalid", "deactivated"}]
  /\ unreleased \subseteq authzs

\* Obtain returns nil for an error only with a certificate, provided the order
\* had authorizations, and whatever order the CA created, the certificate is
\* for no other domains than those of the request and lacks none of them but
\* those that sanitizeDomain skips: neither a lost answer nor a timeout passes
\* for success.
SuccessHasCertificate ==
  pc = "done" /\ ~err =>
    /\ authzs # {} => res = "certificate"
    /\ res = "certificate" => cert \subseteq requested /\ requested \ cert = inexpressible

\* resolver.Solve is given every authorization of the order, although the
\* goroutines answer in any order and any of them may fail.
SolveSeesAll == pc \in {"solve", "unlimited", "finalize", "poll"} => responses = authzs

\* When getAuthorizations closes its channels no goroutine is left that will
\* send on them.
NoSendOnClosed ==
  pc \notin {"new", "spawn", "collect"} => \A d \in Domains : worker[d] \in {"idle", "done"}

\* When Obtain returns after it worked on an order, it leaves no authorization
\* pending or under check, and with AlwaysDeactivateAuthorizations none valid,
\* except where a request of the deactivation itself failed.
AuthorizationsReleased ==
  pc = "done" /\ worker # [d \in Domains |-> "idle"] =>
    \A d \in authzs \ unreleased :
      status[d] \in {"invalid", "deactivated"} \cup (IF always THEN {} ELSE {"valid"})

\* Obtain returns, unless the CA gives a Retry-After of 0 and then never decides
\* about the authorization, which validate polls for ever, or its order lists
\* more authorizations than identifiers, which getAuthorizations panics on.
Returns ==
  \/ <>(pc = "done" \/ (pc = "panicked" /\ IndexOutOfRange))
  \/ <>[](pc = "unlimited" /\ status[cur] = "processing")

\* Obtain never returns a Resource without certificate, or none, as a success.
ErrorOrCertificate == pc = "done" /\ ~err => res = "certificate"

\* A certificate that Obtain returns without error is for all domains passed
\* into it: one that cannot be sanitized makes the whole request fail.
NoDomainLeftOut == pc = "done" /\ ~err /\ res = "certificate" => cert = requested
=============================================================================
