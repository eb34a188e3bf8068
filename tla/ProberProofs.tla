---------------------------- MODULE ProberProofs ----------------------------
(***************************************************************************)
(* Proofs about module Prober: its safety properties, and that it           *)
(* implements module Solving, for every set of authorizations.              *)
(***************************************************************************)
EXTENDS Prober, TLAPS

\* The time the provers have for a step that names none of them.
USE ZenonT(10), SMTT(30)

\* dns-01 authorizations are presented before parallelSolve solves any of them.
Early == {a \in Parallel : Dns(a)}

Waits == {"propagation", "initiate", "poll"}

InParallel == pc \in {"solve", "present", "deferred"} \/ (pc \in Waits /\ cur \in Parallel)

InSequential == pc \in {"sequence", "sequentialCleanUp", "sleep"} \/ (pc \in Waits /\ cur \in Sequence)

Decided(a) == status[a] = "valid" \/ a \in failures

\* What Solve may leave published when it returns.
Left == stuck \cup {a \in half : ~Dns(a)}

\* Who the current authorization is.
CurOK ==
  /\ pc \in {"present", "deferred"} => cur \in Parallel \ Early
  /\ pc \in Waits => cur \in Parallel \cup Sequence
  /\ pc = "propagation" => cur \in Early \cup Sequence
  /\ pc = "sequentialCleanUp" => cur \in Sequence
  /\ pc \notin {"present", "deferred", "sequentialCleanUp"} \cup Waits => cur = None
  /\ cur \notin todo

\* What is still to do in each phase.
TodoOK ==
  /\ pc \in {"preSolve", "cleanUp"} => todo \subseteq Early
  /\ InParallel => todo \subseteq Parallel
  /\ InSequential => todo \subseteq Sequence
  /\ pc = "done" => todo = {}

\* Nothing that is still to be tried has failed.
FailuresOK ==
  /\ pc = "start" => failures = {}
  /\ pc # "start" => Unsolvable \subseteq failures
  /\ pc = "preSolve" => todo \cap failures = {} /\ (Parallel \ Early) \cap failures = {}
  /\ pc = "preSolve" \/ pc = "cleanUp" \/ InParallel => Sequence \cap failures = {}
  /\ InSequential => todo \cap failures = {}
  /\ pc \in {"present"} \cup Waits => cur \notin failures
  /\ InParallel => (todo \ Early) \cap failures = {}

\* What has been worked on is decided.
DecidedOK ==
  /\ \A a \in Authz : given[a] = "valid" => status[a] = "valid"
  /\ InParallel => \A a \in Parallel \ (todo \cup {cur}) : Decided(a)
  /\ pc = "cleanUp" \/ InSequential \/ pc = "done" => \A a \in Parallel : Decided(a)
  /\ InSequential => \A a \in Sequence \ (todo \cup {cur}) : Decided(a)
  /\ pc = "done" => \A a \in Sequence : Decided(a)
  /\ pc \in {"deferred", "sequentialCleanUp"} => Decided(cur)

\* What is to be checked is published.
PublishedOK ==
  /\ pc = "preSolve" => \A a \in Early \ (todo \cup failures) : a \in records
  /\ InParallel => \A a \in (Early \cap todo) \ failures : a \in records
  /\ pc \in Waits => cur \in records

\* The CA has not been asked to check what is still to be tried.
UntouchedOK ==
  /\ pc \in {"start", "preSolve"} => status = given
  /\ pc = "cleanUp" \/ InParallel => \A a \in Sequence : status[a] = given[a]
  /\ InParallel \/ InSequential => \A a \in todo : status[a] = given[a]
  /\ pc \in {"present", "propagation", "initiate"} => status[cur] = given[cur]

\* What is published is still to be withdrawn, or is left for good.
LeftOK ==
  /\ pc = "start" => records = {}
  /\ pc = "preSolve" => records \subseteq Early
  /\ InParallel => records \subseteq Early \cup Left
                     \cup (IF pc \in {"initiate", "poll", "deferred"} THEN {cur} ELSE {})
  /\ pc = "cleanUp" => records \subseteq todo \cup Left
  /\ InSequential => records \subseteq Left \cup {cur}
  /\ pc = "done" => records \subseteq Left

IInv ==
  /\ TypeOK /\ CurOK /\ TodoOK /\ FailuresOK /\ DecidedOK
  /\ PublishedOK /\ UntouchedOK /\ LeftOK

-----------------------------------------------------------------------------
\* How the authorizations are divided between the two loops.
LEMMA Division ==
  /\ Parallel \subseteq Authz /\ Sequence \subseteq Authz /\ Early \subseteq Parallel
  /\ Unsolvable \subseteq Authz
  /\ Parallel \cap Sequence = {} /\ Unsolvable \cap (Parallel \cup Sequence) = {}
  /\ \A a \in Authz : given[a] = "valid" \/ a \in Unsolvable \cup Parallel \cup Sequence
  /\ \A a \in Parallel \cup Sequence : given[a] # "valid"
  /\ \A a \in Sequence : Dns(a) /\ dnsSequential /\ InSequence(a)
  /\ \A a \in Parallel : ~(Dns(a) /\ dnsSequential) /\ ~InSequence(a)
  /\ \A a \in Parallel : Dns(a) <=> a \in Early
BY DEF Parallel, Sequence, Early, Unsolvable, Pending, InSequence

\* The configuration does not change, and so does not the division.
LEMMA DivisionStable ==
  ASSUME UNCHANGED config
  PROVE  /\ Parallel' = Parallel /\ Sequence' = Sequence /\ Early' = Early
         /\ Unsolvable' = Unsolvable /\ given' = given /\ dnsSequential' = dnsSequential
         /\ \A a : Dns(a)' <=> Dns(a)
<1>1. solvers' = solvers /\ offers' = offers /\ given' = given /\ dnsSequential' = dnsSequential
  BY DEF config
<1>2. \A a : ChooseSolver(a)' = ChooseSolver(a)
  BY <1>1 DEF ChooseSolver
<1>3. \A a : Dns(a)' <=> Dns(a)
  BY <1>2 DEF Dns
<1>4. Unsolvable' = Unsolvable
  BY <1>1, <1>2 DEF Unsolvable, Pending
<1>5. Parallel' = Parallel /\ Sequence' = Sequence
  BY <1>1, <1>3, <1>4 DEF Parallel, Sequence, InSequence, Pending
<1> QED BY <1>1, <1>3, <1>4, <1>5 DEF Early

\* What a step of the CA, or no step, leaves as it is.
LEMMA Still ==
  ASSUME UNCHANGED config, UNCHANGED <<pc, todo, cur, failures, records, stuck, half>>,
         CurOK, TodoOK, FailuresOK, PublishedOK, LeftOK
  PROVE  CurOK' /\ TodoOK' /\ FailuresOK' /\ PublishedOK' /\ LeftOK'
<1>1. /\ Parallel' = Parallel /\ Sequence' = Sequence /\ Early' = Early
      /\ Unsolvable' = Unsolvable
  BY DivisionStable
<1>2. (InParallel' <=> InParallel) /\ (InSequential' <=> InSequential)
  BY <1>1 DEF InParallel, InSequential, Waits
<1>3. Left' = Left
  BY DivisionStable DEF Left
<1>4. CurOK'
  BY <1>1 DEF CurOK, Waits
<1>5. TodoOK'
  BY <1>1, <1>2 DEF TodoOK
<1>6. FailuresOK'
  BY <1>1, <1>2 DEF FailuresOK, Waits
<1>7. PublishedOK'
  BY <1>1, <1>2 DEF PublishedOK, Waits
<1>8. LeftOK'
  BY <1>1, <1>2, <1>3 DEF LeftOK
<1> QED BY <1>4, <1>5, <1>6, <1>7, <1>8

\* Every step preserves the invariant.
LEMMA Inductive ==
  ASSUME IInv, [Next]_vars
  PROVE  IInv'
<1> USE AuthzAssumption
<1>0. /\ TypeOK /\ CurOK /\ TodoOK /\ FailuresOK
      /\ DecidedOK /\ PublishedOK /\ UntouchedOK /\ LeftOK
  BY DEF IInv
<1>1. ASSUME Classify PROVE IInv'
  <2>0. UNCHANGED config
    BY <1>1 DEF Classify
  <2> USE <1>0, <1>1, <2>0, Division, DivisionStable
      DEF Classify, provider, InParallel, InSequential, Waits
  <2>1. TypeOK'
    BY DEF TypeOK, CurOK, TodoOK, config, PC
  <2>2. CurOK'
    BY DEF TypeOK, CurOK, TodoOK
  <2>3. TodoOK'
    BY DEF CurOK, TodoOK
  <2>4. FailuresOK'
    BY DEF CurOK, TodoOK, FailuresOK
  <2>5. DecidedOK'
    BY DEF CurOK, TodoOK, DecidedOK, Decided
  <2>6. PublishedOK'
    BY DEF CurOK, TodoOK, FailuresOK, PublishedOK
  <2>7. UntouchedOK'
    BY DEF TypeOK, CurOK, TodoOK, UntouchedOK
  <2>8. LeftOK'
    BY DEF TypeOK, CurOK, TodoOK, LeftOK, Left
  <2> QED BY <2>1, <2>2, <2>3, <2>4, <2>5, <2>6, <2>7, <2>8 DEF IInv
<1>2. ASSUME ParallelPreSolve PROVE IInv'
  <2>0. UNCHANGED config
    BY <1>2 DEF ParallelPreSolve
  <2>a. PICK a \in todo, ok \in BOOLEAN : PreSolve(a, ok) /\ todo' = todo \ {a}
    BY <1>2 DEF ParallelPreSolve
  <2>b. pc = "preSolve" /\ pc' = pc /\ cur' = cur /\ status' = status /\ limited' = limited
    BY <1>2 DEF ParallelPreSolve
  <2>c. /\ records' = records \/ records' = records \cup {a}
        /\ ok => records' = records \cup {a}
        /\ failures' = IF ok THEN failures ELSE failures \cup {a}
        /\ half' = half \/ half' = half \cup {a}
        /\ stuck' = stuck
    BY ZenonT(60), <2>a DEF PreSolve, Present, Fail, provider
  <2> USE <1>0, <2>0, <2>a, <2>b, <2>c, Division, DivisionStable DEF InParallel, InSequential, Waits
  <2>1. TypeOK'
    BY DEF TypeOK, CurOK, TodoOK, config, PC
  <2>2. CurOK'
    BY DEF TypeOK, CurOK, TodoOK
  <2>3. TodoOK'
    BY DEF CurOK, TodoOK
  <2>4. FailuresOK'
    BY DEF CurOK, TodoOK, FailuresOK
  <2>5. DecidedOK'
    BY DEF CurOK, TodoOK, DecidedOK, Decided
  <2>6. PublishedOK'
    BY DEF CurOK, TodoOK, FailuresOK, PublishedOK
  <2>7. UntouchedOK'
    BY DEF TypeOK, CurOK, TodoOK, UntouchedOK
  <2>8. LeftOK'
    BY DEF TypeOK, CurOK, TodoOK, LeftOK, Left
  <2> QED BY <2>1, <2>2, <2>3, <2>4, <2>5, <2>6, <2>7, <2>8 DEF IInv
<1>3. ASSUME PreSolveEnd PROVE IInv'
  <2>0. UNCHANGED config
    BY <1>3 DEF PreSolveEnd
  <2> USE <1>0, <1>3, <2>0, Division, DivisionStable
      DEF PreSolveEnd, provider, InParallel, InSequential, Waits
  <2>1. TypeOK'
    BY DEF TypeOK, CurOK, TodoOK, config, PC
  <2>2. CurOK'
    BY DEF TypeOK, CurOK, TodoOK
  <2>3. TodoOK'
    BY DEF CurOK, TodoOK
  <2>4. FailuresOK'
    BY DEF CurOK, TodoOK, FailuresOK
  <2>5. DecidedOK'
    BY DEF CurOK, TodoOK, DecidedOK, Decided
  <2>6. PublishedOK'
    BY DEF CurOK, TodoOK, FailuresOK, PublishedOK
  <2>7. UntouchedOK'
    BY DEF TypeOK, CurOK, TodoOK, UntouchedOK
  <2>8. LeftOK'
    BY DEF TypeOK, CurOK, TodoOK, LeftOK, Left
  <2> QED BY <2>1, <2>2, <2>3, <2>4, <2>5, <2>6, <2>7, <2>8 DEF IInv
<1>4. ASSUME ParallelSolve PROVE IInv'
  <2>0. UNCHANGED config
    BY <1>4 DEF ParallelSolve
  <2> USE <1>0, <1>4, <2>0, Division, DivisionStable
      DEF ParallelSolve, provider, InParallel, InSequential, Waits
  <2>1. TypeOK'
    BY DEF TypeOK, CurOK, TodoOK, config, PC
  <2>2. CurOK'
    BY DEF TypeOK, CurOK, TodoOK
  <2>3. TodoOK'
    BY DEF CurOK, TodoOK
  <2>4. FailuresOK'
    BY DEF CurOK, TodoOK, FailuresOK
  <2>5. DecidedOK'
    BY DEF CurOK, TodoOK, DecidedOK, Decided
  <2>6. PublishedOK'
    BY DEF CurOK, TodoOK, FailuresOK, PublishedOK
  <2>7. UntouchedOK'
    BY DEF TypeOK, CurOK, TodoOK, UntouchedOK
  <2>8. LeftOK'
    BY DEF TypeOK, CurOK, TodoOK, LeftOK, Left
  <2> QED BY <2>1, <2>2, <2>3, <2>4, <2>5, <2>6, <2>7, <2>8 DEF IInv
<1>5. ASSUME SolveEnd PROVE IInv'
  <2>0. UNCHANGED config
    BY <1>5 DEF SolveEnd
  <2> USE <1>0, <1>5, <2>0, Division, DivisionStable
      DEF SolveEnd, provider, InParallel, InSequential, Waits
  <2>1. TypeOK'
    BY DEF TypeOK, CurOK, TodoOK, config, PC
  <2>2. CurOK'
    BY DEF TypeOK, CurOK, TodoOK
  <2>3. TodoOK'
    BY DEF CurOK, TodoOK
  <2>4. FailuresOK'
    BY DEF CurOK, TodoOK, FailuresOK
  <2>5. DecidedOK'
    BY DEF CurOK, TodoOK, DecidedOK, Decided
  <2>6. PublishedOK'
    BY DEF CurOK, TodoOK, FailuresOK, PublishedOK
  <2>7. UntouchedOK'
    BY DEF TypeOK, CurOK, TodoOK, UntouchedOK
  <2>8. LeftOK'
    BY DEF TypeOK, CurOK, TodoOK, LeftOK, Left
  <2> QED BY <2>1, <2>2, <2>3, <2>4, <2>5, <2>6, <2>7, <2>8 DEF IInv
<1>6. ASSUME ParallelCleanUp PROVE IInv'
  <2>0. UNCHANGED config
    BY <1>6 DEF ParallelCleanUp
  <2> USE <1>0, <1>6, <2>0, Division, DivisionStable
      DEF ParallelCleanUp, CleanUp, provider, InParallel, InSequential, Waits
  <2>1. TypeOK'
    BY DEF TypeOK, CurOK, TodoOK, config, PC
  <2>2. CurOK'
    BY DEF TypeOK, CurOK, TodoOK
  <2>3. TodoOK'
    BY DEF CurOK, TodoOK
  <2>4. FailuresOK'
    BY DEF CurOK, TodoOK, FailuresOK
  <2>5. DecidedOK'
    BY DEF CurOK, TodoOK, DecidedOK, Decided
  <2>6. PublishedOK'
    BY DEF CurOK, TodoOK, FailuresOK, PublishedOK
  <2>7. UntouchedOK'
    BY DEF TypeOK, CurOK, TodoOK, UntouchedOK
  <2>8. LeftOK'
    BY DEF TypeOK, CurOK, TodoOK, LeftOK, Left
  <2> QED BY <2>1, <2>2, <2>3, <2>4, <2>5, <2>6, <2>7, <2>8 DEF IInv
<1>7. ASSUME CleanUpEnd PROVE IInv'
  <2>0. UNCHANGED config
    BY <1>7 DEF CleanUpEnd
  <2> USE <1>0, <1>7, <2>0, Division, DivisionStable
      DEF CleanUpEnd, provider, InParallel, InSequential, Waits
  <2>1. TypeOK'
    BY DEF TypeOK, CurOK, TodoOK, config, PC
  <2>2. CurOK'
    BY DEF TypeOK, CurOK, TodoOK
  <2>3. TodoOK'
    BY DEF CurOK, TodoOK
  <2>4. FailuresOK'
    BY DEF CurOK, TodoOK, FailuresOK
  <2>5. DecidedOK'
    BY DEF CurOK, TodoOK, DecidedOK, Decided
  <2>6. PublishedOK'
    BY DEF CurOK, TodoOK, FailuresOK, PublishedOK
  <2>7. UntouchedOK'
    BY DEF TypeOK, CurOK, TodoOK, UntouchedOK
  <2>8. LeftOK'
    BY DEF TypeOK, CurOK, TodoOK, LeftOK, Left
  <2> QED BY <2>1, <2>2, <2>3, <2>4, <2>5, <2>6, <2>7, <2>8 DEF IInv
<1>8. ASSUME SequentialPreSolve PROVE IInv'
  <2>0. UNCHANGED config
    BY <1>8 DEF SequentialPreSolve
  <2>a. PICK a \in todo, ok \in BOOLEAN : PreSolve(a, ok) /\ todo' = todo \ {a} /\ cur' = a
         /\ pc' = IF ok THEN "propagation" ELSE "sequentialCleanUp"
    BY <1>8 DEF SequentialPreSolve
  <2>b. pc = "sequence" /\ status' = status /\ limited' = limited
    BY <1>8 DEF SequentialPreSolve
  <2>c. /\ records' = records \/ records' = records \cup {a}
        /\ ok => records' = records \cup {a}
        /\ failures' = IF ok THEN failures ELSE failures \cup {a}
        /\ half' = half \/ half' = half \cup {a}
        /\ stuck' = stuck
    BY ZenonT(60), <2>a DEF PreSolve, Present, Fail, provider
  <2> USE <1>0, <2>0, <2>a, <2>b, <2>c, Division, DivisionStable DEF InParallel, InSequential, Waits
  <2>1. TypeOK'
    BY DEF TypeOK, CurOK, TodoOK, config, PC
  <2>2. CurOK'
    BY DEF TypeOK, CurOK, TodoOK
  <2>3. TodoOK'
    BY DEF CurOK, TodoOK
  <2>4. FailuresOK'
    BY DEF CurOK, TodoOK, FailuresOK
  <2>5. DecidedOK'
    BY DEF CurOK, TodoOK, DecidedOK, Decided
  <2>6. PublishedOK'
    BY DEF CurOK, TodoOK, FailuresOK, PublishedOK
  <2>7. UntouchedOK'
    BY DEF TypeOK, CurOK, TodoOK, UntouchedOK
  <2>8. LeftOK'
    BY SMTT(30) DEF TypeOK, CurOK, TodoOK, LeftOK, Left
  <2> QED BY <2>1, <2>2, <2>3, <2>4, <2>5, <2>6, <2>7, <2>8 DEF IInv
<1>9. ASSUME SequentialCleanUp PROVE IInv'
  <2>0. UNCHANGED config
    BY <1>9 DEF SequentialCleanUp
  <2> USE <1>0, <1>9, <2>0, Division, DivisionStable
      DEF SequentialCleanUp, CleanUp, provider, InParallel, InSequential, Waits
  <2>1. TypeOK'
    BY DEF TypeOK, CurOK, TodoOK, config, PC
  <2>2. CurOK'
    BY DEF TypeOK, CurOK, TodoOK
  <2>3. TodoOK'
    BY DEF CurOK, TodoOK
  <2>4. FailuresOK'
    BY DEF CurOK, TodoOK, FailuresOK
  <2>5. DecidedOK'
    BY DEF CurOK, TodoOK, DecidedOK, Decided
  <2>6. PublishedOK'
    BY DEF CurOK, TodoOK, FailuresOK, PublishedOK
  <2>7. UntouchedOK'
    BY DEF TypeOK, CurOK, TodoOK, UntouchedOK
  <2>8. LeftOK'
    BY DEF TypeOK, CurOK, TodoOK, LeftOK, Left
  <2> QED BY <2>1, <2>2, <2>3, <2>4, <2>5, <2>6, <2>7, <2>8 DEF IInv
<1>10. ASSUME Sleep PROVE IInv'
  <2>0. UNCHANGED config
    BY <1>10 DEF Sleep
  <2> USE <1>0, <1>10, <2>0, Division, DivisionStable
      DEF Sleep, provider, InParallel, InSequential, Waits
  <2>1. TypeOK'
    BY DEF TypeOK, CurOK, TodoOK, config, PC
  <2>2. CurOK'
    BY DEF TypeOK, CurOK, TodoOK
  <2>3. TodoOK'
    BY DEF CurOK, TodoOK
  <2>4. FailuresOK'
    BY DEF CurOK, TodoOK, FailuresOK
  <2>5. DecidedOK'
    BY DEF CurOK, TodoOK, DecidedOK, Decided
  <2>6. PublishedOK'
    BY DEF CurOK, TodoOK, FailuresOK, PublishedOK
  <2>7. UntouchedOK'
    BY DEF TypeOK, CurOK, TodoOK, UntouchedOK
  <2>8. LeftOK'
    BY DEF TypeOK, CurOK, TodoOK, LeftOK, Left
  <2> QED BY <2>1, <2>2, <2>3, <2>4, <2>5, <2>6, <2>7, <2>8 DEF IInv
<1>11. ASSUME Return PROVE IInv'
  <2>0. UNCHANGED config
    BY <1>11 DEF Return
  <2> USE <1>0, <1>11, <2>0, Division, DivisionStable
      DEF Return, provider, InParallel, InSequential, Waits
  <2>1. TypeOK'
    BY DEF TypeOK, CurOK, TodoOK, config, PC
  <2>2. CurOK'
    BY DEF TypeOK, CurOK, TodoOK
  <2>3. TodoOK'
    BY DEF CurOK, TodoOK
  <2>4. FailuresOK'
    BY DEF CurOK, TodoOK, FailuresOK
  <2>5. DecidedOK'
    BY DEF CurOK, TodoOK, DecidedOK, Decided
  <2>6. PublishedOK'
    BY DEF CurOK, TodoOK, FailuresOK, PublishedOK
  <2>7. UntouchedOK'
    BY DEF TypeOK, CurOK, TodoOK, UntouchedOK
  <2>8. LeftOK'
    BY DEF TypeOK, CurOK, TodoOK, LeftOK, Left
  <2> QED BY <2>1, <2>2, <2>3, <2>4, <2>5, <2>6, <2>7, <2>8 DEF IInv
<1>12. ASSUME SolvePresent PROVE IInv'
  <2>0. UNCHANGED config
    BY <1>12 DEF SolvePresent
  <2> USE <1>0, <1>12, <2>0, Division, DivisionStable
      DEF SolvePresent, Present, provider, InParallel, InSequential, Waits
  <2>1. TypeOK'
    BY DEF TypeOK, CurOK, TodoOK, config, PC
  <2>2. CurOK'
    BY DEF TypeOK, CurOK, TodoOK
  <2>3. TodoOK'
    BY DEF CurOK, TodoOK
  <2>4. FailuresOK'
    BY SMTT(30) DEF CurOK, TodoOK, FailuresOK
  <2>5. DecidedOK'
    BY DEF CurOK, TodoOK, DecidedOK, Decided
  <2>6. PublishedOK'
    BY DEF CurOK, TodoOK, FailuresOK, PublishedOK
  <2>7. UntouchedOK'
    BY DEF TypeOK, CurOK, TodoOK, UntouchedOK
  <2>8. LeftOK'
    BY SMTT(40) DEF TypeOK, CurOK, TodoOK, LeftOK, Left
  <2> QED BY <2>1, <2>2, <2>3, <2>4, <2>5, <2>6, <2>7, <2>8 DEF IInv
<1>13. ASSUME DeferredCleanUp PROVE IInv'
  <2>0. UNCHANGED config
    BY <1>13 DEF DeferredCleanUp
  <2> USE <1>0, <1>13, <2>0, Division, DivisionStable
      DEF DeferredCleanUp, CleanUp, provider, InParallel, InSequential, Waits
  <2>1. TypeOK'
    BY DEF TypeOK, CurOK, TodoOK, config, PC
  <2>2. CurOK'
    BY ZenonT(30) DEF TypeOK, CurOK, TodoOK
  <2>3. TodoOK'
    BY DEF CurOK, TodoOK
  <2>4. FailuresOK'
    BY ZenonT(30) DEF CurOK, TodoOK, FailuresOK
  <2>5. DecidedOK'
    BY DEF CurOK, TodoOK, DecidedOK, Decided
  <2>6. PublishedOK'
    BY DEF CurOK, TodoOK, FailuresOK, PublishedOK
  <2>7. UntouchedOK'
    BY DEF TypeOK, CurOK, TodoOK, UntouchedOK
  <2>8. LeftOK'
    BY DEF TypeOK, CurOK, TodoOK, LeftOK, Left
  <2> QED BY <2>1, <2>2, <2>3, <2>4, <2>5, <2>6, <2>7, <2>8 DEF IInv
<1>14. ASSUME Propagation PROVE IInv'
  <2>0. UNCHANGED config
    BY <1>14 DEF Propagation
  <2> USE <1>0, <1>14, <2>0, Division, DivisionStable
      DEF Propagation, Solved, AfterSolve, Fail, provider, InParallel, InSequential, Waits
  <2>1. TypeOK'
    BY ZenonT(60) DEF TypeOK, CurOK, TodoOK, config, PC
  <2>2. CurOK'
    BY DEF TypeOK, CurOK, TodoOK
  <2>3. TodoOK'
    BY DEF CurOK, TodoOK
  <2>4. FailuresOK'
    BY SMTT(30) DEF CurOK, TodoOK, FailuresOK
  <2>5. DecidedOK'
    BY DEF CurOK, TodoOK, DecidedOK, Decided
  <2>6. PublishedOK'
    BY DEF CurOK, TodoOK, FailuresOK, PublishedOK
  <2>7. UntouchedOK'
    BY DEF TypeOK, CurOK, TodoOK, UntouchedOK
  <2>8. LeftOK'
    BY DEF TypeOK, CurOK, TodoOK, LeftOK, Left
  <2> QED BY <2>1, <2>2, <2>3, <2>4, <2>5, <2>6, <2>7, <2>8 DEF IInv
<1>15. ASSUME Initiate PROVE IInv'
  <2>0. UNCHANGED config
    BY <1>15 DEF Initiate
  <2> USE <1>0, <1>15, <2>0, Division, DivisionStable
      DEF Initiate, Solved, AfterSolve, Fail, Verdict, provider, InParallel, InSequential, Waits
  <2>1. TypeOK'
    BY ZenonT(60) DEF TypeOK, CurOK, TodoOK, config, PC
  <2>2. CurOK'
    BY DEF TypeOK, CurOK, TodoOK
  <2>3. TodoOK'
    BY DEF CurOK, TodoOK
  <2>4. FailuresOK'
    BY SMTT(30) DEF CurOK, TodoOK, FailuresOK
  <2>5. DecidedOK'
    BY SMTT(30) DEF CurOK, TodoOK, DecidedOK, Decided
  <2>6. PublishedOK'
    BY DEF CurOK, TodoOK, FailuresOK, PublishedOK
  <2>7. UntouchedOK'
    BY SMTT(30) DEF TypeOK, CurOK, TodoOK, UntouchedOK
  <2>8. LeftOK'
    BY DEF TypeOK, CurOK, TodoOK, LeftOK, Left
  <2> QED BY <2>1, <2>2, <2>3, <2>4, <2>5, <2>6, <2>7, <2>8 DEF IInv
<1>16. ASSUME PollDecided PROVE IInv'
  <2>0. UNCHANGED config
    BY <1>16 DEF PollDecided
  <2> USE <1>0, <1>16, <2>0, Division, DivisionStable
      DEF PollDecided, Solved, AfterSolve, Fail, Verdict, provider, InParallel, InSequential, Waits
  <2>1. TypeOK'
    BY DEF TypeOK, CurOK, TodoOK, config, PC
  <2>2. CurOK'
    BY DEF TypeOK, CurOK, TodoOK
  <2>3. TodoOK'
    BY DEF CurOK, TodoOK
  <2>4. FailuresOK'
    BY SMTT(30) DEF CurOK, TodoOK, FailuresOK
  <2>5. DecidedOK'
    BY DEF CurOK, TodoOK, DecidedOK, Decided
  <2>6. PublishedOK'
    BY DEF CurOK, TodoOK, FailuresOK, PublishedOK
  <2>7. UntouchedOK'
    BY DEF TypeOK, CurOK, TodoOK, UntouchedOK
  <2>8. LeftOK'
    BY DEF TypeOK, CurOK, TodoOK, LeftOK, Left
  <2> QED BY <2>1, <2>2, <2>3, <2>4, <2>5, <2>6, <2>7, <2>8 DEF IInv
<1>17. ASSUME TimeUp PROVE IInv'
  <2>0. UNCHANGED config
    BY <1>17 DEF TimeUp
  <2> USE <1>0, <1>17, <2>0, Division, DivisionStable
      DEF TimeUp, Solved, AfterSolve, Fail, provider, InParallel, InSequential, Waits
  <2>1. TypeOK'
    BY DEF TypeOK, CurOK, TodoOK, config, PC
  <2>2. CurOK'
    BY DEF TypeOK, CurOK, TodoOK
  <2>3. TodoOK'
    BY DEF CurOK, TodoOK
  <2>4. FailuresOK'
    BY SMTT(30) DEF CurOK, TodoOK, FailuresOK
  <2>5. DecidedOK'
    BY DEF CurOK, TodoOK, DecidedOK, Decided
  <2>6. PublishedOK'
    BY DEF CurOK, TodoOK, FailuresOK, PublishedOK
  <2>7. UntouchedOK'
    BY DEF TypeOK, CurOK, TodoOK, UntouchedOK
  <2>8. LeftOK'
    BY DEF TypeOK, CurOK, TodoOK, LeftOK, Left
  <2> QED BY <2>1, <2>2, <2>3, <2>4, <2>5, <2>6, <2>7, <2>8 DEF IInv
<1>18. ASSUME PollFails PROVE IInv'
  <2>0. UNCHANGED config
    BY <1>18 DEF PollFails
  <2> USE <1>0, <1>18, <2>0, Division, DivisionStable
      DEF PollFails, Solved, AfterSolve, Fail, provider, InParallel, InSequential, Waits
  <2>1. TypeOK'
    BY DEF TypeOK, CurOK, TodoOK, config, PC
  <2>2. CurOK'
    BY ZenonT(30) DEF TypeOK, CurOK, TodoOK
  <2>3. TodoOK'
    BY DEF CurOK, TodoOK
  <2>4. FailuresOK'
    BY SMTT(40) DEF CurOK, TodoOK, FailuresOK
  <2>5. DecidedOK'
    BY DEF CurOK, TodoOK, DecidedOK, Decided
  <2>6. PublishedOK'
    BY DEF CurOK, TodoOK, FailuresOK, PublishedOK
  <2>7. UntouchedOK'
    BY ZenonT(30) DEF TypeOK, CurOK, TodoOK, UntouchedOK
  <2>8. LeftOK'
    BY DEF TypeOK, CurOK, TodoOK, LeftOK, Left
  <2> QED BY <2>1, <2>2, <2>3, <2>4, <2>5, <2>6, <2>7, <2>8 DEF IInv
<1>19. ASSUME NEW a \in Authz, CaCheck(a) PROVE IInv'
  <2>0. UNCHANGED config
    BY <1>19 DEF CaCheck
  <2>a. \A b \in Authz : status[b] = given[b] => status'[b] = status[b]
    BY <1>0, <1>19 DEF CaCheck, TypeOK
  <2>b. \A b \in Authz : status[b] = "valid" => status'[b] = "valid"
    BY <1>0, <1>19 DEF CaCheck, TypeOK
  <2>c. UNCHANGED <<pc, todo, cur, failures, limited, records, stuck, half>>
    BY <1>19 DEF CaCheck, provider
  <2>d. status' \in [Authz -> {"pending", "processing", "valid", "invalid"}]
    BY <1>0, <1>19 DEF CaCheck, TypeOK
  <2>1. TypeOK'
    BY <1>0, <2>0, <2>c, <2>d DEF TypeOK, config, PC
  <2>2. CurOK' /\ TodoOK' /\ FailuresOK' /\ PublishedOK' /\ LeftOK'
    BY <1>0, <2>0, <2>c, Still
  <2>3. /\ Parallel' = Parallel /\ Sequence' = Sequence /\ given' = given
        /\ (InParallel' <=> InParallel) /\ (InSequential' <=> InSequential)
    BY ZenonT(30), <2>0, <2>c, DivisionStable DEF InParallel, InSequential, Waits
  <2>4. \A b \in Authz : Decided(b) => Decided(b)'
    BY ZenonT(30), <2>b, <2>c DEF Decided
  <2>5. todo \subseteq Authz /\ (pc \in {"deferred", "sequentialCleanUp", "present", "propagation", "initiate"} => cur \in Authz)
    BY ZenonT(30), <1>0, Division DEF TypeOK, CurOK, Waits
  <2>6. DecidedOK'
    BY ZenonT(30), <1>0, <2>b, <2>c, <2>3, <2>4, <2>5, Division DEF DecidedOK
  <2>7. UntouchedOK'
    <3>1. pc \in {"start", "preSolve"} => status' = status
      BY SMTT(30), <1>0, <2>a, <2>d DEF UntouchedOK, TypeOK
    <3> QED BY <1>0, <2>a, <2>c, <2>3, <2>5, <3>1, Division DEF UntouchedOK
  <2> QED BY <2>1, <2>2, <2>6, <2>7 DEF IInv
<1>20. ASSUME UNCHANGED vars PROVE IInv'
  <2>0. UNCHANGED config /\ UNCHANGED <<pc, todo, cur, failures, limited, records, stuck, half, status>>
    BY <1>20 DEF vars, provider
  <2>1. TypeOK'
    BY <1>0, <2>0 DEF TypeOK, config, PC
  <2>2. CurOK' /\ TodoOK' /\ FailuresOK' /\ PublishedOK' /\ LeftOK'
    BY <1>0, <2>0, Still
  <2>3. /\ Parallel' = Parallel /\ Sequence' = Sequence /\ given' = given
        /\ (InParallel' <=> InParallel) /\ (InSequential' <=> InSequential)
    BY <2>0, DivisionStable DEF InParallel, InSequential, Waits
  <2>4. DecidedOK'
    BY <1>0, <2>0, <2>3 DEF DecidedOK, Decided
  <2>5. UntouchedOK'
    BY <1>0, <2>0, <2>3 DEF UntouchedOK
  <2> QED BY <2>1, <2>2, <2>4, <2>5 DEF IInv
<1> QED BY <1>1, <1>2, <1>3, <1>4, <1>5, <1>6, <1>7, <1>8, <1>9, <1>10, <1>11, <1>12, <1>13, <1>14, <1>15, <1>16, <1>17, <1>18, <1>19, <1>20 DEF Next, Step

\* The first states satisfy the invariant.
LEMMA Initial ==
  ASSUME Init
  PROVE  IInv
<1> USE Division, AuthzAssumption DEF Init, InParallel, InSequential, Waits
<1>1. TypeOK
  BY DEF TypeOK, PC
<1>2. CurOK /\ TodoOK /\ FailuresOK
  BY DEF CurOK, TodoOK, FailuresOK
<1>3. DecidedOK /\ PublishedOK /\ UntouchedOK /\ LeftOK
  BY DEF DecidedOK, PublishedOK, UntouchedOK, LeftOK
<1> QED BY <1>1, <1>2, <1>3 DEF IInv

\* What the invariant says of Prober.Solve.
LEMMA Consequences ==
  ASSUME IInv
  PROVE  TypeOK /\ SolvedOrReported /\ NothingLeftBehind /\ OneSequentialRecord
<1>0. /\ TypeOK /\ CurOK /\ TodoOK /\ FailuresOK /\ DecidedOK /\ LeftOK
  BY ZenonT(30) DEF IInv
<1>1. SolvedOrReported
  BY ZenonT(30), <1>0, Division DEF SolvedOrReported, DecidedOK, FailuresOK, Decided
<1>2. NothingLeftBehind
  BY <1>0 DEF NothingLeftBehind, LeftOK, Left
<1>3. OneSequentialRecord
  <2> SUFFICES ASSUME dnsSequential,
                      NEW a \in records \ stuck, NEW b \in records \ stuck, Dns(a), Dns(b)
               PROVE  a = b
    BY DEF OneSequentialRecord
  <2>1. a \notin Early /\ b \notin Early /\ a \notin Left /\ b \notin Left
    BY Division DEF Left
  <2>2. CASE pc \in {"start", "preSolve", "cleanUp", "done"}
    BY <1>0, <2>1, <2>2 DEF LeftOK, TodoOK
  <2>3. CASE InParallel
    BY <1>0, <2>1, <2>3, Division DEF LeftOK, CurOK, InParallel, Waits
  <2>4. CASE InSequential
    BY <1>0, <2>1, <2>4 DEF LeftOK
  <2> QED BY <1>0, <2>2, <2>3, <2>4 DEF TypeOK, PC, CurOK, InParallel, InSequential, Waits
<1> QED BY <1>0, <1>1, <1>2, <1>3

\* The invariant holds in every state.
THEOREM Invariance == Spec => []IInv
<1>1. Init => IInv
  BY Initial
<1>2. IInv /\ [Next]_vars => IInv'
  BY Inductive
<1> QED BY <1>1, <1>2, PTL DEF Spec

\* Prober.Solve: every value stays in its type.
THEOREM TypeCorrect == Spec => []TypeOK
BY Invariance, Consequences, PTL

\* When Prober.Solve returns, every authorization that it has not reported is
\* valid at the CA, for any number of authorizations.
THEOREM Reported == Spec => []SolvedOrReported
BY Invariance, Consequences, PTL

\* When Prober.Solve returns, only what could not be removed is left published.
THEOREM CleanedUp == Spec => []NothingLeftBehind
BY Invariance, Consequences, PTL

\* A sequential provider never holds two records of the order.
THEOREM OneAtATime == Spec => []OneSequentialRecord
BY Invariance, Consequences, PTL

-----------------------------------------------------------------------------
(* Prober implements Solving.                                               *)

\* Every step of Prober is a step of Solving, or changes nothing there.
LEMMA StepImplements ==
  ASSUME IInv, [Next]_vars
  PROVE  [Promise!Next]_(Promise!vars)
<1>0. /\ TypeOK /\ CurOK /\ TodoOK /\ FailuresOK
      /\ DecidedOK /\ PublishedOK /\ UntouchedOK /\ LeftOK
  BY DEF IInv
<1>1. ASSUME Classify PROVE [Promise!Next]_(Promise!vars)
  <2>1. failures' = failures \cup Unsolvable /\ Unsolvable \in SUBSET Authz
    BY <1>0, <1>1, Division DEF Classify, FailuresOK
  <2> QED BY <1>1, <2>1 DEF Classify, provider, Promise!Next, Promise!GiveUp
<1>2. ASSUME PreSolveEnd PROVE [Promise!Next]_(Promise!vars)
  BY <1>2 DEF PreSolveEnd, provider, Promise!vars
<1>3. ASSUME ParallelSolve PROVE [Promise!Next]_(Promise!vars)
  BY <1>3 DEF ParallelSolve, provider, Promise!vars
<1>4. ASSUME SolveEnd PROVE [Promise!Next]_(Promise!vars)
  BY <1>4 DEF SolveEnd, provider, Promise!vars
<1>5. ASSUME CleanUpEnd PROVE [Promise!Next]_(Promise!vars)
  BY <1>5 DEF CleanUpEnd, provider, Promise!vars
<1>6. ASSUME Sleep PROVE [Promise!Next]_(Promise!vars)
  BY <1>6 DEF Sleep, provider, Promise!vars
<1>7. ASSUME ParallelPreSolve PROVE [Promise!Next]_(Promise!vars)
  <2>1. PICK a \in todo, ok \in BOOLEAN : PreSolve(a, ok)
    BY <1>7 DEF ParallelPreSolve
  <2>2. pc = "preSolve" /\ pc' # "done" /\ status' = status
    BY <1>7 DEF ParallelPreSolve
  <2>3. a \in Authz /\ a \notin failures /\ status[a] # "valid"
    BY <1>0, <2>1, <2>2, Division DEF TodoOK, FailuresOK, UntouchedOK, InSequential
  <2>4. failures' \in {failures, failures \cup {a}}
    BY <2>1 DEF PreSolve, Fail
  <2>5. CASE records' = records \cup {a}
    BY <2>2, <2>3, <2>4, <2>5 DEF Promise!Next, Promise!Publish, Promise!Open
  <2>6. CASE records' = records
    <3>1. failures' = failures \cup {x \in {a} : x \in failures'}
      BY <2>4
    <3> QED BY ZenonT(40), <2>2, <2>3, <2>6, <3>1 DEF Promise!Next, Promise!GiveUp
  <2> QED BY ZenonT(60), <2>1, <2>5, <2>6 DEF PreSolve, Present, provider
<1>8. ASSUME SequentialPreSolve PROVE [Promise!Next]_(Promise!vars)
  <2>1. PICK a \in todo, ok \in BOOLEAN : PreSolve(a, ok)
    BY <1>8 DEF SequentialPreSolve
  <2>2. pc = "sequence" /\ pc' # "done" /\ status' = status
    BY <1>8 DEF SequentialPreSolve
  <2>3. a \in Authz /\ a \notin failures /\ status[a] # "valid"
    BY ZenonT(30), <1>0, <2>1, <2>2, Division DEF TodoOK, FailuresOK, UntouchedOK, InSequential
  <2>4. failures' \in {failures, failures \cup {a}}
    BY <2>1 DEF PreSolve, Fail
  <2>5. CASE records' = records \cup {a}
    BY ZenonT(30), <2>2, <2>3, <2>4, <2>5 DEF Promise!Next, Promise!Publish, Promise!Open
  <2>6. CASE records' = records
    <3>1. failures' = failures \cup {x \in {a} : x \in failures'}
      BY <2>4
    <3> QED BY ZenonT(60), <2>2, <2>3, <2>6, <3>1 DEF Promise!Next, Promise!GiveUp
  <2> QED BY ZenonT(60), <2>1, <2>5, <2>6 DEF PreSolve, Present, provider
<1>9. ASSUME SolvePresent PROVE [Promise!Next]_(Promise!vars)
  <2>1. cur \in Authz /\ cur \notin failures /\ status[cur] # "valid"
    BY <1>0, <1>9, Division DEF SolvePresent, CurOK, FailuresOK, UntouchedOK
  <2>2. pc # "done" /\ pc' # "done" /\ status' = status /\ failures' \in {failures, failures \cup {cur}}
    BY ZenonT(30), <1>9 DEF SolvePresent
  <2>3. CASE records' = records \cup {cur}
    BY <2>1, <2>2, <2>3 DEF Promise!Next, Promise!Publish, Promise!Open
  <2>4. CASE records' = records
    <3>1. failures' = failures \cup {x \in {cur} : x \in failures'}
      BY <2>2
    <3> QED BY ZenonT(60), <2>1, <2>2, <2>4, <3>1 DEF Promise!Next, Promise!GiveUp
  <2> QED BY <1>9, <2>3, <2>4 DEF SolvePresent, Present, provider
<1>10. ASSUME ParallelCleanUp PROVE [Promise!Next]_(Promise!vars)
  <2>1. PICK a \in todo : CleanUp(a)
    BY <1>10 DEF ParallelCleanUp
  <2>2. pc = "cleanUp" /\ pc' = pc /\ status' = status /\ failures' = failures
    BY <1>10 DEF ParallelCleanUp
  <2>3. a \in Authz /\ Decided(a)
    BY ZenonT(30), <1>0, <2>1, <2>2, Division DEF TodoOK, DecidedOK
  <2>4. records' = records \/ records' = records \ {a}
    BY <2>1 DEF CleanUp
  <2> QED BY <2>2, <2>3, <2>4
      DEF Decided, Promise!Next, Promise!Withdraw, Promise!Decided, Promise!vars
<1>11. ASSUME SequentialCleanUp PROVE [Promise!Next]_(Promise!vars)
  <2>1. cur \in Authz /\ Decided(cur)
    BY ZenonT(30), <1>0, <1>11, Division DEF SequentialCleanUp, CurOK, DecidedOK
  <2>2. pc # "done" /\ pc' # "done" /\ status' = status /\ failures' = failures
    BY <1>11 DEF SequentialCleanUp
  <2>3. records' = records \/ records' = records \ {cur}
    BY ZenonT(30), <1>11 DEF SequentialCleanUp, CleanUp
  <2> QED BY ZenonT(30), <2>1, <2>2, <2>3
      DEF Decided, Promise!Next, Promise!Withdraw, Promise!Decided, Promise!vars
<1>12. ASSUME DeferredCleanUp PROVE [Promise!Next]_(Promise!vars)
  <2>1. cur \in Authz /\ Decided(cur)
    BY ZenonT(30), <1>0, <1>12, Division DEF DeferredCleanUp, CurOK, DecidedOK
  <2>2. pc # "done" /\ pc' # "done" /\ status' = status /\ failures' = failures
    BY <1>12 DEF DeferredCleanUp
  <2>3. records' = records \/ records' = records \ {cur}
    BY <1>12 DEF DeferredCleanUp, CleanUp
  <2> QED BY SMTT(40), <2>1, <2>2, <2>3
      DEF Decided, Promise!Next, Promise!Withdraw, Promise!Decided, Promise!vars
<1>13. ASSUME Return PROVE [Promise!Next]_(Promise!vars)
  <2>1. pc = "sequence" /\ todo = {} /\ cur = None /\ pc' = "done"
    BY ZenonT(30), <1>0, <1>13 DEF Return, CurOK, Waits
  <2>2. \A a \in Authz : Decided(a)
    BY ZenonT(30), <1>0, <2>1, Division, AuthzAssumption DEF DecidedOK, FailuresOK, InSequential, Decided
  <2> QED BY <1>13, <2>1, <2>2
      DEF Return, provider, Decided, Promise!Next, Promise!Return, Promise!Decided
<1>14. ASSUME Initiate PROVE [Promise!Next]_(Promise!vars)
  <2>1. cur \in Authz /\ cur \notin failures /\ cur \in records /\ pc # "done" /\ pc' # "done"
    BY <1>0, <1>14, Division
    DEF Initiate, Solved, AfterSolve, CurOK, FailuresOK, PublishedOK, Waits
  <2>2. records' = records /\ failures' \in {failures, failures \cup {cur}}
    BY <1>14 DEF Initiate, Solved, Fail, provider
  <2>3. CASE status' = status
    <3>1. failures' = failures \cup {x \in {cur} : x \in failures'}
      BY <2>2
    <3> QED BY ZenonT(60), <2>1, <2>2, <2>3, <3>1 DEF Promise!Next, Promise!GiveUp
  <2>4. CASE status[cur] = "pending" /\ status' = [status EXCEPT ![cur] = "processing"]
    BY ZenonT(60), <2>1, <2>2, <2>4 DEF Promise!Next, Promise!Begin, Promise!Open
  <2> QED BY ZenonT(30), <1>14, <2>3, <2>4 DEF Initiate
<1>15. ASSUME Propagation PROVE [Promise!Next]_(Promise!vars)
  <2>1. cur \in Authz /\ pc # "done" /\ pc' # "done"
    BY ZenonT(30), <1>0, <1>15, Division DEF Propagation, Solved, AfterSolve, CurOK, Waits
  <2>2. records' = records /\ status' = status /\ failures' \in {failures, failures \cup {cur}}
    BY <1>15 DEF Propagation, Solved, Fail, provider
  <2>3. failures' = failures \cup {x \in {cur} : x \in failures'}
    BY <2>2
  <2> QED BY ZenonT(30), <2>1, <2>2, <2>3 DEF Promise!Next, Promise!GiveUp
<1>16. ASSUME PollDecided PROVE [Promise!Next]_(Promise!vars)
  <2>1. cur \in Authz /\ pc # "done" /\ pc' # "done"
    BY <1>0, <1>16, Division DEF PollDecided, Solved, AfterSolve, CurOK, Waits
  <2>2. records' = records /\ status' = status /\ failures' \in {failures, failures \cup {cur}}
    BY ZenonT(30), <1>16 DEF PollDecided, Solved, Fail, provider
  <2>3. failures' = failures \cup {x \in {cur} : x \in failures'}
    BY <2>2
  <2> QED BY <2>1, <2>2, <2>3 DEF Promise!Next, Promise!GiveUp
<1>17. ASSUME TimeUp PROVE [Promise!Next]_(Promise!vars)
  <2>1. cur \in Authz /\ pc # "done" /\ pc' # "done"
    BY <1>0, <1>17, Division DEF TimeUp, Solved, AfterSolve, CurOK, Waits
  <2>2. records' = records /\ status' = status /\ failures' \in {failures, failures \cup {cur}}
    BY ZenonT(30), <1>17 DEF TimeUp, Solved, Fail, provider
  <2>3. failures' = failures \cup {x \in {cur} : x \in failures'}
    BY <2>2
  <2> QED BY <2>1, <2>2, <2>3 DEF Promise!Next, Promise!GiveUp
<1>18. ASSUME PollFails PROVE [Promise!Next]_(Promise!vars)
  <2>1. cur \in Authz /\ pc # "done" /\ pc' # "done"
    BY <1>0, <1>18, Division DEF PollFails, Solved, AfterSolve, CurOK, Waits
  <2>2. records' = records /\ status' = status /\ failures' \in {failures, failures \cup {cur}}
    BY <1>18 DEF PollFails, Solved, Fail, provider
  <2>3. failures' = failures \cup {x \in {cur} : x \in failures'}
    BY <2>2
  <2> QED BY <2>1, <2>2, <2>3 DEF Promise!Next, Promise!GiveUp
<1>19. ASSUME NEW a \in Authz, CaCheck(a) PROVE [Promise!Next]_(Promise!vars)
  BY <1>19 DEF CaCheck, provider, Promise!Next, Promise!Check
<1>20. ASSUME UNCHANGED vars PROVE [Promise!Next]_(Promise!vars)
  BY <1>20 DEF vars, provider, Promise!vars
<1> QED BY <1>1, <1>2, <1>3, <1>4, <1>5, <1>6, <1>7, <1>8, <1>9, <1>10, <1>11, <1>12, <1>13, <1>14, <1>15, <1>16, <1>17, <1>18, <1>19, <1>20 DEF Next, Step

\* Prober.Solve keeps the promise of module Solving, for every set of
\* authorizations: Spec implements Promise!Spec.
THEOREM Refinement == Spec => Implements
<1>1. Init => Promise!Init
  BY DEF Init, Promise!Init
<1>2. IInv /\ [Next]_vars => [Promise!Next]_(Promise!vars)
  BY StepImplements
<1> QED BY <1>1, <1>2, Invariance, PTL DEF Spec, Implements, Promise!Spec

PromiseTyped ==
  /\ status \in [Authz -> {"pending", "processing", "valid", "invalid"}]
  /\ (pc = "done") \in BOOLEAN

PromiseInv == PromiseTyped /\ Promise!PublishedWhileChecked /\ Promise!AllDecided

\* Every step that the promise allows preserves what it is for.
LEMMA PromiseInductive ==
  ASSUME PromiseInv, [Promise!Next]_(Promise!vars)
  PROVE  PromiseInv'
<1> USE DEF PromiseInv, PromiseTyped, Promise!PublishedWhileChecked, Promise!AllDecided, Promise!Decided
<1>1. ASSUME NEW a \in Authz, Promise!Publish(a) PROVE PromiseInv'
  BY <1>1 DEF Promise!Publish, Promise!Open
<1>2. ASSUME NEW a \in Authz, Promise!Begin(a) PROVE PromiseInv'
  BY <1>2 DEF Promise!Begin, Promise!Open
<1>3. ASSUME NEW a \in Authz, Promise!Withdraw(a) PROVE PromiseInv'
  BY <1>3 DEF Promise!Withdraw
<1>4. ASSUME NEW a \in Authz, Promise!Check(a) PROVE PromiseInv'
  BY <1>4 DEF Promise!Check
<1>5. ASSUME Promise!GiveUp PROVE PromiseInv'
  BY ZenonT(60), <1>5 DEF Promise!GiveUp
<1>6. ASSUME Promise!Return PROVE PromiseInv'
  BY <1>6 DEF Promise!Return
<1>7. ASSUME UNCHANGED Promise!vars PROVE PromiseInv'
  BY <1>7 DEF Promise!vars
<1> QED BY <1>1, <1>2, <1>3, <1>4, <1>5, <1>6, <1>7 DEF Promise!Next

\* What the promise gives the CA and the caller: the key authorization is there
\* as long as the CA may look for it, and Solve returns only when every
\* authorization is valid or reported.
THEOREM Promised == Spec => [](Promise!PublishedWhileChecked /\ Promise!AllDecided)
<1>1. Promise!Init => PromiseInv
  BY ZenonT(60) DEF Promise!Init, PromiseInv, PromiseTyped, Promise!PublishedWhileChecked, Promise!AllDecided
<1>2. PromiseInv /\ [Promise!Next]_(Promise!vars) => PromiseInv'
  BY PromiseInductive
<1>3. PromiseInv => Promise!PublishedWhileChecked /\ Promise!AllDecided
  BY DEF PromiseInv
<1> QED BY <1>1, <1>2, <1>3, Refinement, PTL DEF Implements, Promise!Spec
=============================================================================
