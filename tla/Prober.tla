------------------------------- MODULE Prober -------------------------------
(***************************************************************************)
(* Prober.Solve (challenge/resolver/prober.go) with what it drives: the    *)
(* choice of a solver, the solvers of the three challenges                 *)
(* (challenge/dns01, http01, tlsalpn01) over their providers, and validate *)
(* (challenge/resolver/solver_manager.go), which tells the CA to check a   *)
(* challenge and polls its authorization.  The CA checks concurrently.     *)
(*                                                                         *)
(* The loops of the code run over lists; getAuthorizations fills them in   *)
(* the order in which answers arrive, so the order is arbitrary here and   *)
(* a loop takes the members of a set one by one.                           *)
(***************************************************************************)
EXTENDS Naturals, FiniteSets

CONSTANT Authz   \* the authorizations of an order, one per (wildcard) domain

Types == {"tls-alpn-01", "http-01", "dns-01"}

VARIABLES
  \* configuration of the client and of the order
  solvers,        \* the challenge types with a solver
  offers,         \* the challenge types offered for each authorization
  dnsSequential,  \* the DNS provider has a Sequential method
  given,          \* the status of each authorization when it was fetched
  \* Prober.Solve
  pc, todo, cur,
  failures,       \* the keys of the failures map
  limited,        \* the elapsed time of the polling is limited
  \* the provider
  records,        \* authorizations whose key authorization is published
  stuck,          \* authorizations whose CleanUp failed
  half,           \* authorizations whose Present failed half way
  \* the CA
  status

config == <<solvers, offers, dnsSequential, given>>
provider == <<records, stuck, half>>
vars == <<config, pc, todo, cur, failures, limited, provider, status>>

None == "none"

ASSUME AuthzAssumption == None \notin Authz

\* chooseSolver: byType sorts the types in descending order.
Priority == [t \in Types |-> CASE t = "tls-alpn-01" -> 3 [] t = "http-01" -> 2 [] OTHER -> 1]

ChooseSolver(a) ==
  LET candidates == offers[a] \cap solvers IN
  IF candidates = {} THEN None
  ELSE CHOOSE t \in candidates : \A u \in candidates : Priority[u] <= Priority[t]

\* Of the solvers only dns-01 has PreSolve, CleanUp and Sequential methods.
Dns(a) == ChooseSolver(a) = "dns-01"

InSequenceNever(a) == Dns(a) /\ FALSE

InSequence(a) == Dns(a) /\ dnsSequential

Pending == {a \in Authz : given[a] # "valid"}

Unsolvable == {a \in Pending : ChooseSolver(a) = None}

Parallel == {a \in Pending \ Unsolvable : ~InSequence(a)}

Sequence == {a \in Pending \ Unsolvable : InSequence(a)}

Init ==
  /\ solvers \in SUBSET Types
  /\ offers \in [Authz -> SUBSET Types]
  /\ dnsSequential \in BOOLEAN
  /\ given \in [Authz -> {"pending", "valid", "invalid"}]
  /\ pc = "start" /\ todo = {} /\ cur = None
  /\ failures = {}
  /\ limited = TRUE
  /\ records = {} /\ stuck = {} /\ half = {}
  /\ status = given

-----------------------------------------------------------------------------
(* The provider *)

\* Present publishes the key authorization; when it fails it may have done so.
Present(a, ok) ==
  \E published \in (IF ok THEN {TRUE} ELSE BOOLEAN) :
    /\ records' = IF published THEN records \cup {a} ELSE records
    /\ half' = IF published /\ ~ok THEN half \cup {a} ELSE half
    /\ UNCHANGED stuck

\* CleanUp takes it back, or fails, which is only logged.
CleanUp(a) ==
  /\ \/ records' = records \ {a} /\ UNCHANGED stuck
     \/ stuck' = stuck \cup {a} /\ UNCHANGED records
  /\ UNCHANGED half

FailUnderNoKey(a, ok) == IF ok THEN failures ELSE failures \cup {None}

Fail(a, ok) == IF ok THEN failures ELSE failures \cup {a}

-----------------------------------------------------------------------------
(* Prober.Solve: selection, then parallelSolve *)

Classify ==
  /\ pc = "start"
  /\ failures' = Unsolvable
  /\ pc' = "preSolve"
  /\ todo' = {a \in Parallel : Dns(a)}
  /\ UNCHANGED <<config, cur, limited, provider, status>>

\* PreSolve may also fail before it calls Present.
PreSolveUnreported(a, ok) ==
  /\ Present(a, ok) \/ (~ok /\ UNCHANGED provider)
  /\ UNCHANGED failures

PreSolve(a, ok) ==
  /\ Present(a, ok) \/ (~ok /\ UNCHANGED provider)
  /\ failures' = Fail(a, ok)

ParallelPreSolve ==
  /\ pc = "preSolve"
  /\ \E a \in todo, ok \in BOOLEAN : PreSolve(a, ok) /\ todo' = todo \ {a}
  /\ UNCHANGED <<config, pc, cur, limited, status>>

PreSolveEnd ==
  /\ pc = "preSolve" /\ todo = {}
  /\ pc' = "solve"
  /\ todo' = Parallel
  /\ UNCHANGED <<config, cur, failures, limited, provider, status>>

\* A domain that failed before is skipped.
ParallelSolve ==
  /\ pc = "solve"
  /\ \E a \in todo :
       /\ todo' = todo \ {a}
       /\ IF a \in failures THEN UNCHANGED <<pc, cur>>
          ELSE cur' = a /\ pc' = IF Dns(a) THEN "propagation" ELSE "present"
  /\ UNCHANGED <<config, failures, limited, provider, status>>

SolveEndSolvedOnly ==
  /\ pc = "solve" /\ todo = {}
  /\ pc' = "cleanUp"
  /\ todo' = {a \in Parallel : Dns(a)} \ failures
  /\ UNCHANGED <<config, cur, failures, limited, provider, status>>

\* The deferred function cleans up for every solver, failed or not.
SolveEnd ==
  /\ pc = "solve" /\ todo = {}
  /\ pc' = "cleanUp"
  /\ todo' = {a \in Parallel : Dns(a)}
  /\ UNCHANGED <<config, cur, failures, limited, provider, status>>

ParallelCleanUp ==
  /\ pc = "cleanUp"
  /\ \E a \in todo : CleanUp(a) /\ todo' = todo \ {a}
  /\ UNCHANGED <<config, pc, cur, failures, limited, status>>

CleanUpEnd ==
  /\ pc = "cleanUp" /\ todo = {}
  /\ pc' = "sequence"
  /\ todo' = Sequence
  /\ UNCHANGED <<config, cur, failures, limited, provider, status>>

-----------------------------------------------------------------------------
(* sequentialSolve *)

SequentialPreSolve ==
  /\ pc = "sequence"
  /\ \E a \in todo, ok \in BOOLEAN :
       /\ PreSolve(a, ok)
       /\ cur' = a
       /\ todo' = todo \ {a}
       /\ pc' = IF ok THEN "propagation" ELSE "sequentialCleanUp"
  /\ UNCHANGED <<config, limited, status>>

\* The sleep follows a successful iteration that is not the last.
SequentialCleanUp ==
  /\ pc = "sequentialCleanUp"
  /\ CleanUp(cur)
  /\ pc' = IF cur \notin failures /\ todo # {} THEN "sleep" ELSE "sequence"
  /\ cur' = None
  /\ UNCHANGED <<config, todo, failures, limited, status>>

Sleep ==
  /\ pc = "sleep"
  /\ pc' = "sequence"
  /\ UNCHANGED <<config, todo, cur, failures, limited, provider, status>>

Return ==
  /\ pc = "sequence" /\ todo = {}
  /\ pc' = "done"
  /\ UNCHANGED <<config, todo, cur, failures, limited, provider, status>>

-----------------------------------------------------------------------------
(* Solve of one solver, for cur *)

AfterSolve ==
  IF ~Dns(cur) THEN "deferred" ELSE IF InSequence(cur) THEN "sequentialCleanUp" ELSE "solve"

\* Solve returns; the deferred CleanUp of http-01 and tls-alpn-01 comes first.
Solved(ok) ==
  /\ failures' = Fail(cur, ok)
  /\ pc' = AfterSolve
  /\ cur' = IF pc' = "solve" THEN None ELSE cur
  /\ limited' = TRUE

\* http-01 and tls-alpn-01 publish inside Solve; there is no CleanUp when
\* Present fails.
SolvePresent ==
  /\ pc = "present"
  /\ \/ /\ Present(cur, TRUE) /\ pc' = "initiate"
        /\ UNCHANGED <<cur, failures>>
     \/ /\ Present(cur, FALSE) \/ UNCHANGED provider
        /\ failures' = failures \cup {cur}
        /\ pc' = "solve" /\ cur' = None
  /\ UNCHANGED <<config, todo, limited, status>>

DeferredCleanUp ==
  /\ pc = "deferred"
  /\ CleanUp(cur)
  /\ pc' = "solve" /\ cur' = None
  /\ UNCHANGED <<config, todo, failures, limited, status>>

\* dns-01 waits for the record to propagate, up to the provider's timeout.
Propagation ==
  /\ pc = "propagation"
  /\ \/ pc' = "initiate" /\ UNCHANGED <<cur, failures, limited>>
     \/ Solved(FALSE)
  /\ UNCHANGED <<config, todo, provider, status>>

\* checkChallengeStatus and checkAuthorizationStatus.
VerdictLenient(s) ==
  CASE s \in {"valid", "processing"} -> "valid"
    [] s = "pending" -> "wait"
    [] OTHER -> "error"

Verdict(s) ==
  CASE s = "valid" -> "valid"
    [] s \in {"pending", "processing"} -> "wait"
    [] OTHER -> "error"

\* Challenges.New: the CA begins to check, its answer may be lost.  A
\* Retry-After of 0 makes the elapsed time of the polling unlimited.
Initiate ==
  /\ pc = "initiate"
  /\ \E reached \in BOOLEAN, answered \in BOOLEAN :
       /\ answered => reached
       /\ status' = IF reached /\ status[cur] = "pending"
                    THEN [status EXCEPT ![cur] = "processing"] ELSE status
       /\ IF answered /\ Verdict(status'[cur]) = "wait"
          THEN /\ pc' = "poll" /\ limited' \in BOOLEAN
               /\ UNCHANGED <<cur, failures>>
          ELSE Solved(answered /\ Verdict(status'[cur]) = "valid")
  /\ UNCHANGED <<config, todo, provider>>

\* Authorizations.Get until the authorization is decided; to find it undecided
\* changes nothing.
PollDecided ==
  /\ pc = "poll" /\ Verdict(status[cur]) # "wait"
  /\ Solved(Verdict(status[cur]) = "valid")
  /\ UNCHANGED <<config, todo, provider, status>>

\* Any error of Authorizations.Get is permanent.
PollFails ==
  /\ pc = "poll"
  /\ Solved(FALSE)
  /\ UNCHANGED <<config, todo, provider, status>>

ElapsedNever == FALSE

Elapsed == limited

TimeUp ==
  /\ pc = "poll"
  /\ Elapsed
  /\ Solved(FALSE)
  /\ UNCHANGED <<config, todo, provider, status>>

-----------------------------------------------------------------------------
\* The CA looks for the published key authorization; its check may fail anyway.
CaCheck(a) ==
  /\ status[a] = "processing"
  /\ \/ a \in records /\ status' = [status EXCEPT ![a] = "valid"]
     \/ status' = [status EXCEPT ![a] = "invalid"]
  /\ UNCHANGED <<config, pc, todo, cur, failures, limited, provider>>

Step ==
  \/ Classify \/ ParallelPreSolve \/ PreSolveEnd \/ ParallelSolve \/ SolveEnd
  \/ ParallelCleanUp \/ CleanUpEnd \/ SequentialPreSolve \/ SequentialCleanUp
  \/ Sleep \/ Return \/ SolvePresent \/ DeferredCleanUp \/ Propagation
  \/ Initiate \/ PollDecided \/ TimeUp

Next == Step \/ PollFails \/ \E a \in Authz : CaCheck(a)

Spec == Init /\ [][Next]_vars

\* The goroutine of Prober.Solve runs on and time passes.  Nothing is assumed of
\* the CA, and no poll needs to fail.
FairSpec == Spec /\ WF_vars(Step)

-----------------------------------------------------------------------------
(* Properties *)

PC == {"start", "preSolve", "solve", "cleanUp", "sequence", "sequentialCleanUp", "sleep",
       "done", "present", "deferred", "propagation", "initiate", "poll"}

\* Type correctness.
TypeOK ==
  /\ solvers \subseteq Types
  /\ offers \in [Authz -> SUBSET Types]
  /\ dnsSequential \in BOOLEAN
  /\ given \in [Authz -> {"pending", "valid", "invalid"}]
  /\ pc \in PC
  /\ todo \subseteq Authz
  /\ cur \in Authz \cup {None}
  /\ failures \subseteq Authz
  /\ limited \in BOOLEAN
  /\ records \subseteq Authz /\ stuck \subseteq Authz /\ half \subseteq Authz
  /\ status \in [Authz -> {"pending", "processing", "valid", "invalid"}]

\* When Prober.Solve returns, every domain without an entry in the failures
\* map is validated at the CA: no early return or skipped loop iteration lets
\* an unvalidated domain through.
SolvedOrReported ==
  pc = "done" => \A a \in Authz : a \in failures \/ status[a] = "valid"

\* When Prober.Solve returns, nothing is left published but what CleanUp
\* failed to remove, and what a failed Present of http-01 or tls-alpn-01 left:
\* after a failed Present only dns-01 is cleaned up.
NothingLeftBehind ==
  pc = "done" => records \subseteq stuck \cup {a \in half : ~Dns(a)}

\* With a sequential DNS provider no two of its records are ever published
\* together, unless a CleanUp failed.
OneSequentialRecord ==
  \A a, b \in {x \in records \ stuck : dnsSequential /\ Dns(x)} : a = b

\* Prober.Solve returns, unless a Retry-After of 0 makes it poll without limit
\* an authorization that the CA never decides.
Returns == <>(pc = "done") \/ <>[](pc = "poll" /\ ~limited /\ Verdict(status[cur]) = "wait")

\* Prober.Solve keeps the promise of module Solving: it asks the CA to check only
\* what it has published and withdraws it only when that is decided, it publishes
\* nothing for an authorization that is valid or has failed, and it returns when
\* all are decided.
Promise == INSTANCE Solving WITH failed <- failures, returned <- (pc = "done")
Implements == Promise!Spec
=============================================================================
