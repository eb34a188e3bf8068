-------------------------- MODULE ChallengeProofs --------------------------
(***************************************************************************)
(* The code that makes a challenge ready for the CA: the propagation check  *)
(* of dns-01 (module Propagation) for any number of resolvers, any set of   *)
(* name servers, and any number of failed queries and changes of the        *)
(* operator, and the servers of http-01 and tls-alpn-01 (module             *)
(* ChallengeServer) for any number of challenges.                           *)
(***************************************************************************)
EXTENDS Propagation, ChallengeServer, FiniteSetTheorems, TLAPS

\* The time the provers have for a step that names none of them.
USE ZenonT(10), SMTT(30)

Zones == {"w", "e", "z"}
Hosts == {"c", "t"}
Checking == {"recursive", "zone", "walk", "ns", "servers"}

Typed ==
  /\ TypeOK /\ misled \in BOOLEAN /\ apexes \in {{"e", "z"}, {"w", "e", "z"}}
  /\ serves \in [Zones \X Servers -> SUBSET Hosts]
  /\ cache \in [Hosts -> Zones \cup {None}]
  /\ pc \in {"ns", "servers"} => zone \in Zones

\* The client knows a name wherever it uses one.
Named ==
  /\ pc = "present" => published = None
  /\ pc \notin {"present", "done"} => published \in Hosts
  /\ pc \notin {"present", "solve"} => goal \in Hosts
  /\ pc \in Checking => name \in Hosts

\* While the operator leaves the zones alone, a name comes from the CNAME that
\* is there, and only a query that failed makes Present miss it.
Aliased ==
  moves = 0 =>
    /\ "t" \in {published, goal, name} => alias
    /\ ~misled /\ pc \notin {"present", "done"} => published = Final

\* A server answers only for the published name, and only in its zone.
Held ==
  moves = 0 /\ pc # "done" =>
    \A s \in Zones \X Servers : \A n \in serves[s] : n = published /\ s[1] = ZoneOf(n)

\* A server that was asked had the value, in the zone that the walk has found.
Checked ==
  /\ pc \in {"zone", "walk", "ns", "servers"} => mode # "recursive"
  /\ moves = 0 /\ pc = "servers" => \A s \in Servers \ todo : Answers(<<zone, s>>, name)

\* A resolver that was asked had the value from a server of the zone.
Heard ==
  pc = "recursive" =>
    /\ mode \in {"both", "recursive"} /\ todo \subseteq 1..R
    /\ moves = 0 /\ todo # 1..R => \E s \in Servers : Answers(<<ZoneOf(Final), s>>, Final)

IInv == Typed /\ Named /\ Aliased /\ Held /\ Checked /\ Heard /\ ReadyMeansServed /\ CleanUpReachesRecord

-----------------------------------------------------------------------------
\* What a query of the resolvers can say: without a record there is no answer,
\* and every failed attempt is counted.
LEMMA Querying ==
  ASSUME faults \in 0..MaxFaults, NEW truth \in {"answer", "empty"}, NEW res, Asked(truth, res)
  PROVE  faults' \in 0..MaxFaults /\ (truth = "empty" => res # "answer")
<1>1. PICK outs \in [1..R -> {truth, "servfail", "fail"}] :
        /\ res = DnsQuery(outs)
        /\ faults' = faults + Cardinality({i \in 1..R : outs[i] # truth})
        /\ faults' <= MaxFaults
  BY ZenonT(30) DEF Asked
<1>2. Cardinality({i \in 1..R : outs[i] # truth}) \in Nat
  <2>1. IsFiniteSet(1..R)
    BY SMTT(30), Resolvers, FS_Interval
  <2>2. IsFiniteSet({i \in 1..R : outs[i] # truth})
    BY ZenonT(30), <2>1, FS_Subset
  <2> QED BY <2>2, FS_CardinalityType
<1>3. truth = "empty" => res # "answer"
  <2>1. outs \in Seq({truth, "servfail", "fail"}) /\ Len(outs) = R
    BY SMTT(30), Resolvers, <1>1
  <2>2. outs[Len(outs)] \in {truth, "servfail", "fail"}
    BY SMTT(30), Resolvers, <1>1, <2>1
  <2> QED BY <1>1, <2>2 DEF DnsQuery
<1> QED BY SMTT(30), <1>1, <1>2, <1>3, Resolvers

\* getChallengeFQDN gives the alias only where there is one, and misses it only
\* when the query failed.
LEMMA Following ==
  ASSUME Typed, NEW n, Followed(n)
  PROVE  /\ n \in Hosts /\ (n = "t" => alias)
         /\ faults' \in 0..MaxFaults /\ misled' \in BOOLEAN
         /\ ~misled' => ~misled /\ (pc = "solve" \/ n = Final)
<1>1. PICK res \in Results :
        /\ Asked(IF alias THEN "answer" ELSE "empty", res)
        /\ n = IF res = "answer" THEN "t" ELSE "c"
        /\ misled' = (misled \/ (pc # "solve" /\ alias /\ res # "answer"))
  BY DEF Followed
<1>2. (IF alias THEN "answer" ELSE "empty") \in {"answer", "empty"} /\ faults \in 0..MaxFaults
  BY DEF Typed, TypeOK
<1>3. faults' \in 0..MaxFaults /\ (~alias => res # "answer")
  BY <1>1, <1>2, Querying
<1> QED BY <1>1, <1>3 DEF Typed, TypeOK, Hosts, Final

\* What the name servers say depends on the world alone.
LEMMA SameWorld ==
  ASSUME UNCHANGED <<alias, apexes, serves>>
  PROVE  /\ Final' = Final
         /\ \A n : ZoneOf(n)' = ZoneOf(n)
         /\ \A s, n : Answers(s, n)' = Answers(s, n)
BY DEF Final, ZoneOf, Answers

\* A check that failed leaves nothing behind that a later one could mistake.
LEMMA Retried ==
  ASSUME IInv, pc \in Checking \cup {"poll"}, Retry, UNCHANGED <<mode, world, misled, goal>>,
         faults' \in 0..MaxFaults
  PROVE  IInv'
<1> USE DEF IInv, Retry, world
<1>0. UNCHANGED <<alias, apexes, serves>>
  OBVIOUS
<1>1. Typed'
  BY DEF Typed, TypeOK
<1>2. Named'
  BY DEF Named, Checking
<1>3. Aliased'
  BY <1>0, SameWorld DEF Aliased, Checking
<1>4. Held'
  BY <1>0, SameWorld DEF Held, Checking
<1>5. Checked' /\ Heard' /\ ReadyMeansServed' /\ CleanUpReachesRecord'
  BY DEF Checked, Heard, ReadyMeansServed, CleanUpReachesRecord
<1> QED BY <1>1, <1>2, <1>3, <1>4, <1>5

\* Present publishes at the name that GetChallengeInfo computed.
LEMMA PresentOK ==
  ASSUME IInv, Present
  PROVE  IInv'
<1> USE DEF IInv
<1>1. PICK n \in {"c", "t"} : Followed(n) /\ published' = n
  BY DEF Present
<1>2. /\ n \in Hosts /\ (n = "t" => alias)
      /\ faults' \in 0..MaxFaults /\ misled' \in BOOLEAN
      /\ ~misled' => ~misled /\ (pc = "solve" \/ n = Final)
  BY <1>1, Following
<1>3. /\ pc = "present" /\ pc' = "solve"
      /\ UNCHANGED <<mode, alias, apexes, serves, moves, goal, name, zone, label, todo, cache>>
  BY DEF Present
<1>4. Typed'
  BY <1>1, <1>2, <1>3 DEF Typed, TypeOK
<1>5. Named'
  BY <1>1, <1>2, <1>3 DEF Named, Checking
<1>6. Aliased'
  BY <1>1, <1>2, <1>3, SameWorld DEF Aliased, Named, None
<1>7. Held'
  <2>1. moves = 0 => \A s \in Zones \X Servers : serves[s] = {}
    BY <1>3 DEF Held, Named, Typed, Hosts, None
  <2> QED BY <2>1, <1>3 DEF Held
<1>8. Checked' /\ Heard' /\ ReadyMeansServed' /\ CleanUpReachesRecord'
  BY <1>3 DEF Checked, Heard, ReadyMeansServed, CleanUpReachesRecord
<1> QED BY <1>4, <1>5, <1>6, <1>7, <1>8

\* Solve computes the name again.
LEMMA SolveOK ==
  ASSUME IInv, Solve
  PROVE  IInv'
<1> USE DEF IInv
<1>1. PICK n \in {"c", "t"} : Followed(n) /\ goal' = n
  BY DEF Solve
<1>2. /\ n \in Hosts /\ (n = "t" => alias)
      /\ faults' \in 0..MaxFaults /\ misled' \in BOOLEAN
      /\ ~misled' => ~misled
  BY <1>1, Following
<1>3. /\ pc = "solve" /\ pc' = IF mode = "skip" THEN "ready" ELSE "poll"
      /\ UNCHANGED <<mode, world, name, zone, label, todo, cache>>
  BY DEF Solve
<1>0. UNCHANGED <<alias, apexes, serves>>
  BY <1>3 DEF world
<1>4. Typed'
  BY <1>1, <1>2, <1>3 DEF Typed, TypeOK, world
<1>5. Named'
  BY <1>1, <1>2, <1>3 DEF Named, Checking, world
<1>6. Aliased'
  BY <1>0, <1>1, <1>2, <1>3, SameWorld DEF Aliased, world
<1>7. Held'
  BY <1>0, <1>3, SameWorld DEF Held, world
<1>8. Checked' /\ Heard' /\ ReadyMeansServed' /\ CleanUpReachesRecord'
  BY <1>3 DEF Checked, Heard, ReadyMeansServed, CleanUpReachesRecord, world
<1> QED BY <1>4, <1>5, <1>6, <1>7, <1>8

\* A step of the check changes what the client knows and nothing else.
LEMMA Onward ==
  ASSUME IInv, pc \in Checking \cup {"poll"}, pc' \in Checking \cup {"ready", "timeout"},
         UNCHANGED <<mode, world, misled, goal>>, faults' \in 0..MaxFaults,
         pc' \in Checking => name' \in Hosts, moves = 0 /\ name' = "t" => alias,
         Typed', Checked', Heard', ReadyMeansServed'
  PROVE  IInv'
<1> USE DEF IInv, world
<1>0. UNCHANGED <<alias, apexes, serves>>
  OBVIOUS
<1>1. Named'
  BY DEF Named, Checking
<1>2. Aliased'
  BY <1>0, SameWorld DEF Aliased, Checking
<1>3. Held'
  BY <1>0, SameWorld DEF Held, Checking
<1>4. CleanUpReachesRecord'
  BY DEF CleanUpReachesRecord, Checking
<1> QED BY <1>1, <1>2, <1>3, <1>4

\* The first query of checkDNSPropagation takes over the target of a CNAME only
\* when there is one.
LEMMA PollOK ==
  ASSUME IInv, Poll
  PROVE  IInv'
<1> USE DEF IInv
<1> DEFINE truth == IF (goal = "c" /\ alias) \/ \E s \in DOMAIN serves : goal \in serves[s]
                    THEN "answer" ELSE "empty"
<1>1. PICK res \in Results :
        /\ Asked(truth, res)
        /\ IF res = "error" THEN Retry
           ELSE /\ name' = IF res = "answer" /\ goal = "c" /\ alias THEN "t" ELSE goal
                /\ pc' = IF mode \in {"both", "recursive"} THEN "recursive"
                         ELSE IF mode = "neither" THEN "ready" ELSE "zone"
                /\ todo' = 1..R
                /\ UNCHANGED <<zone, label, cache>>
  BY DEF Poll
<1>2. pc = "poll" /\ UNCHANGED <<mode, world, misled, goal>>
  BY DEF Poll
<1>3. faults' \in 0..MaxFaults
  BY <1>1, Querying DEF Typed, TypeOK
<1>4. CASE res = "error"
  BY <1>1, <1>2, <1>3, <1>4, Retried
<1>5. CASE res # "error"
  <2>1. /\ name' = IF res = "answer" /\ goal = "c" /\ alias THEN "t" ELSE goal
        /\ pc' = IF mode \in {"both", "recursive"} THEN "recursive"
                  ELSE IF mode = "neither" THEN "ready" ELSE "zone"
        /\ todo' = 1..R
        /\ UNCHANGED <<zone, label, cache>>
    BY <1>1, <1>5
  <2>2. name' \in Hosts /\ (moves = 0 /\ name' = "t" => alias)
    BY <1>2, <2>1 DEF Named, Aliased, Hosts
  <2>3. /\ pc' \in {"recursive", "ready", "zone"} /\ (pc' = "ready" => mode = "neither")
        /\ pc' = "zone" => mode # "recursive"
    BY <2>1
  <2>4. Typed'
    BY <1>2, <1>3, <2>1, <2>2, <2>3 DEF Typed, TypeOK, world, Hosts
  <2>5. Checked' /\ ReadyMeansServed'
    BY <1>2, <2>3 DEF Checked, ReadyMeansServed
  <2>6. Heard'
    BY <1>2, <2>1 DEF Heard
  <2> QED BY <1>2, <1>3, <2>2, <2>3, <2>4, <2>5, <2>6, Onward DEF Checking
<1> QED BY <1>4, <1>5

\* A resolver has a value only from a server of the zone of the name.
LEMMA RecursiveOK ==
  ASSUME IInv, Recursive
  PROVE  IInv'
<1> USE DEF IInv
<1>1. pc = "recursive" /\ UNCHANGED <<mode, world, misled, goal>>
  BY DEF Recursive
<1>2. name \in Hosts /\ faults \in 0..MaxFaults /\ (moves = 0 /\ name = "t" => alias)
  BY <1>1 DEF Named, Checking, Typed, TypeOK, Aliased
<1>0. UNCHANGED <<alias, apexes, serves, moves>>
  BY <1>1 DEF world
<1>3. CASE /\ todo = {} /\ faults' = faults
           /\ pc' = IF mode = "both" THEN "zone" ELSE "ready"
           /\ UNCHANGED <<name, zone, label, todo, cache>>
  <2>0. todo # 1..R
    BY <1>3, Resolvers
  <2>1. moves = 0 => \E s \in Servers : Answers(<<ZoneOf(Final), s>>, Final)
    BY ZenonT(30), <1>1, <2>0 DEF Heard
  <2>2. mode' = mode /\ pc' \in {"zone", "ready"} /\ (pc' = "ready" <=> mode = "recursive")
    BY <1>1, <1>3 DEF Heard
  <2>3. Typed'
    BY <1>1, <1>2, <1>3, <2>2 DEF Typed, TypeOK, world
  <2>4. Checked' /\ Heard'
    BY <2>2 DEF Checked, Heard
  <2>5. ReadyMeansServed'
    BY <1>0, <1>3, <2>1, <2>2, SameWorld DEF ReadyMeansServed
  <2> QED BY <1>1, <1>2, <1>3, <2>2, <2>3, <2>4, <2>5, Onward DEF Checking
<1>4. ASSUME NEW r \in todo, Resolved(TRUE), todo' = todo \ {r}, faults' = faults,
             UNCHANGED <<pc, name, zone, label, cache>>
      PROVE  IInv'
  <2>1. moves = 0 => \E s \in Servers : Answers(<<ZoneOf(Final), s>>, Final)
    BY <1>2, <1>4 DEF Resolved, Hosts, Final
  <2>2. Typed'
    BY <1>1, <1>2, <1>4 DEF Typed, TypeOK, world
  <2>3. Checked' /\ ReadyMeansServed'
    BY <1>1, <1>4 DEF Checked, ReadyMeansServed
  <2>4. Heard'
    BY <1>0, <1>1, <1>4, <2>1, SameWorld DEF Heard
  <2> QED BY <1>1, <1>2, <1>4, <2>2, <2>3, <2>4, Onward DEF Checking
<1>5. ASSUME Retry, faults' = faults \/ (faults < MaxFaults /\ faults' = faults + 1)
      PROVE  IInv'
  <2>1. faults' \in 0..MaxFaults
    BY <1>2, <1>5, Resolvers
  <2> QED BY <1>1, <1>5, <2>1, Retried DEF Checking
<1> QED BY ZenonT(30), <1>3, <1>4, <1>5 DEF Recursive

\* lookupSoaByFqdn, from the cache.
LEMMA LookupSoaOK ==
  ASSUME IInv, LookupSoa
  PROVE  IInv'
<1> USE DEF IInv
<1>1. /\ pc = "zone" /\ zone' = cache[name] /\ label' = 1
      /\ pc' = IF cache[name] # None THEN "ns" ELSE "walk"
      /\ UNCHANGED <<mode, world, faults, misled, goal, name, todo, cache>>
  BY DEF LookupSoa
<1>2. name \in Hosts /\ faults' \in 0..MaxFaults /\ (moves = 0 /\ name = "t" => alias)
  BY <1>1 DEF Named, Checking, Typed, TypeOK, Aliased
<1>3. Typed'
  BY SMTT(30), <1>1, <1>2 DEF Typed, TypeOK, world
<1>4. Checked' /\ Heard' /\ ReadyMeansServed'
  BY <1>1 DEF Checked, Heard, ReadyMeansServed
<1> QED BY <1>1, <1>2, <1>3, <1>4, Onward DEF Checking

\* One label of fetchSoaByFqdn: what goes into the cache is an ancestor of the
\* name that is a zone, though perhaps not the nearest one.
LEMMA FetchSoaOK ==
  ASSUME IInv, FetchSoa
  PROVE  IInv'
<1> USE DEF IInv
<1>1. pc = "walk" /\ UNCHANGED <<mode, world, misled, goal>>
  BY DEF FetchSoa
<1>2. name \in Hosts /\ faults \in 0..MaxFaults /\ (moves = 0 /\ name = "t" => alias)
  BY <1>1 DEF Named, Checking, Typed, TypeOK, Aliased
<1>3. CASE label > Len(Labels(name))
  BY <1>1, <1>2, <1>3, Retried DEF FetchSoa, Checking
<1>4. CASE ~(label > Len(Labels(name)))
  <2> DEFINE n == Labels(name)[label]
  <2>1. PICK res \in Results :
          /\ Asked(IF n \in apexes \/ (n = "c" /\ alias) THEN "answer" ELSE "empty", res)
          /\ CASE res = "servfail" -> Retry
               [] res = "answer" /\ n \in apexes ->
                    /\ zone' = n /\ Store(n) /\ pc' = "ns"
                    /\ UNCHANGED <<name, label, todo>>
               [] OTHER -> label' = label + 1 /\ UNCHANGED <<pc, name, zone, todo, cache>>
    BY <1>4 DEF FetchSoa
  <2>2. faults' \in 0..MaxFaults
    BY <1>2, <2>1, Querying
  <2>3. label \in DOMAIN Labels(name) /\ label + 1 \in 1..4
    BY SMTT(30), <1>2, <1>4 DEF Labels, Hosts, Typed, TypeOK
  <2>4. CASE res = "servfail"
    BY <1>1, <2>1, <2>2, <2>4, Retried DEF Checking
  <2>5. CASE res = "answer" /\ n \in apexes
    <3>1. zone' = n /\ cache' = [cache EXCEPT ![name] = n] /\ pc' = "ns" /\ UNCHANGED <<name, label, todo>>
      BY <2>1, <2>5 DEF Store
    <3>2. n \in Zones
      BY <2>5 DEF Typed, TypeOK, Zones
    <3>3. Typed'
      <4>1. TypeOK'
        BY <1>1, <1>2, <2>2, <2>3, <3>1, <3>2 DEF Typed, TypeOK, world, Hosts
      <4> QED BY <1>1, <1>2, <3>1, <3>2, <4>1 DEF Typed, world
    <3>4. Checked' /\ Heard' /\ ReadyMeansServed'
      BY <1>1, <3>1 DEF Checked, Heard, ReadyMeansServed
    <3> QED BY <1>1, <1>2, <2>2, <3>1, <3>3, <3>4, Onward DEF Checking
  <2>6. CASE res # "servfail" /\ ~(res = "answer" /\ n \in apexes)
    <3>1. label' = label + 1 /\ UNCHANGED <<pc, name, zone, todo, cache>>
      BY <2>1, <2>6
    <3>2. Typed'
      BY <1>1, <2>2, <2>3, <3>1 DEF Typed, TypeOK, world
    <3>3. Checked' /\ Heard' /\ ReadyMeansServed'
      BY <1>1, <3>1 DEF Checked, Heard, ReadyMeansServed
    <3> QED BY <1>1, <1>2, <2>2, <3>1, <3>2, <3>3, Onward DEF Checking
  <2> QED BY <2>4, <2>5, <2>6
<1> QED BY <1>3, <1>4

\* lookupNameservers.
LEMMA LookupNsOK ==
  ASSUME IInv, LookupNs
  PROVE  IInv'
<1> USE DEF IInv
<1>1. pc = "ns" /\ UNCHANGED <<mode, world, misled, goal>>
  BY DEF LookupNs
<1>2. name \in Hosts /\ faults \in 0..MaxFaults /\ (moves = 0 /\ name = "t" => alias)
  BY <1>1 DEF Named, Checking, Typed, TypeOK, Aliased
<1>3. PICK res \in Results :
        /\ Asked(IF zone \in apexes THEN "answer" ELSE "empty", res)
        /\ IF res # "answer" THEN Retry
           ELSE /\ todo' = Servers /\ pc' = "servers"
                /\ UNCHANGED <<name, zone, label, cache>>
  BY DEF LookupNs
<1>4. faults' \in 0..MaxFaults
  BY <1>2, <1>3, Querying
<1>5. CASE res # "answer"
  BY <1>1, <1>3, <1>4, <1>5, Retried DEF Checking
<1>6. CASE res = "answer"
  <2>1. todo' = Servers /\ pc' = "servers" /\ UNCHANGED <<name, zone, label, cache>>
    BY <1>3, <1>6
  <2>2. Typed'
    BY <1>1, <1>4, <2>1 DEF Typed, TypeOK, world
  <2>3. Checked' /\ Heard' /\ ReadyMeansServed'
    BY <1>1, <2>1 DEF Checked, Heard, ReadyMeansServed
  <2> QED BY <1>1, <1>2, <1>4, <2>1, <2>2, <2>3, Onward DEF Checking
<1> QED BY <1>5, <1>6

\* A server that answers is one of the right zone, whatever the cache says; so
\* when the last one has answered, all of the right zone have.
LEMMA AskServerOK ==
  ASSUME IInv, AskServer
  PROVE  IInv'
<1> USE DEF IInv
<1>1. pc = "servers" /\ UNCHANGED <<mode, world, misled, goal>>
  BY DEF AskServer
<1>2. /\ name \in Hosts /\ zone \in Zones /\ faults \in 0..MaxFaults
      /\ moves = 0 /\ name = "t" => alias
  BY <1>1 DEF Named, Checking, Typed, TypeOK, Aliased
<1>0. UNCHANGED <<alias, apexes, serves, moves>>
  BY <1>1 DEF world
<1>3. CASE /\ todo = {} /\ pc' = "ready" /\ faults' = faults
           /\ UNCHANGED <<name, zone, label, todo, cache>>
  <2>1. ASSUME moves = 0, NEW s \in Servers
        PROVE  Answers(<<ZoneOf(Final), s>>, Final)
    <3>1. Answers(<<zone, s>>, name)
      BY <1>1, <1>3, <2>1 DEF Checked
    <3>2. name = Final
      BY <1>2, <2>1, <3>1 DEF Answers, Hosts, Final
    <3>3. zone = ZoneOf(name)
      BY <1>1, <1>2, <2>1, <3>1 DEF Answers, Held
    <3> QED BY <3>1, <3>2, <3>3
  <2>2. mode' = mode /\ pc' = "ready" /\ mode # "recursive"
    BY <1>1, <1>3 DEF Checked
  <2>3. Typed'
    BY <1>1, <1>2, <1>3 DEF Typed, TypeOK, world
  <2>4. Checked' /\ Heard'
    BY <1>3 DEF Checked, Heard
  <2>5. ReadyMeansServed'
    BY <1>0, <2>1, <2>2, SameWorld DEF ReadyMeansServed
  <2> QED BY <1>1, <1>2, <1>3, <2>3, <2>4, <2>5, Onward DEF Checking
<1>4. ASSUME NEW s \in todo, Answers(<<zone, s>>, name), todo' = todo \ {s}, faults' = faults,
             UNCHANGED <<pc, name, zone, label, cache>>
      PROVE  IInv'
  <2>1. Typed'
    BY <1>1, <1>2, <1>4 DEF Typed, TypeOK, world
  <2>2. Checked'
    BY <1>0, <1>1, <1>4, SameWorld DEF Checked
  <2>3. Heard' /\ ReadyMeansServed'
    BY <1>1, <1>4 DEF Heard, ReadyMeansServed
  <2> QED BY <1>1, <1>2, <1>4, <2>1, <2>2, <2>3, Onward DEF Checking
<1>5. ASSUME Retry, faults' = faults \/ (faults < MaxFaults /\ faults' = faults + 1)
      PROVE  IInv'
  <2>1. faults' \in 0..MaxFaults
    BY <1>2, <1>5, Resolvers
  <2> QED BY <1>1, <1>5, <2>1, Retried DEF Checking
<1> QED BY ZenonT(30), <1>3, <1>4, <1>5 DEF AskServer

\* CleanUp computes the name as Present has, or a query has failed.
LEMMA CleanUpOK ==
  ASSUME IInv, CleanUp
  PROVE  IInv'
<1> USE DEF IInv
<1>1. PICK n \in {"c", "t"} : Followed(n) /\ published' = IF published = n THEN None ELSE published
  BY DEF CleanUp
<1>2. /\ faults' \in 0..MaxFaults /\ misled' \in BOOLEAN
      /\ ~misled' => ~misled /\ (pc = "solve" \/ n = Final)
  BY <1>1, Following
<1>3. /\ pc \in {"ready", "timeout"} /\ pc' = "done"
      /\ UNCHANGED <<mode, alias, apexes, serves, moves, goal, name, zone, label, todo, cache>>
  BY DEF CleanUp
<1>4. Typed'
  BY <1>1, <1>2, <1>3 DEF Typed, TypeOK
<1>5. Named'
  BY <1>1, <1>3 DEF Named, Checking
<1>6. Aliased'
  BY <1>1, <1>3 DEF Aliased, None
<1>7. Held' /\ Checked' /\ Heard' /\ ReadyMeansServed'
  BY <1>3 DEF Held, Checked, Heard, ReadyMeansServed
<1>8. CleanUpReachesRecord'
  BY <1>1, <1>2, <1>3 DEF CleanUpReachesRecord, Aliased
<1> QED BY <1>4, <1>5, <1>6, <1>7, <1>8

\* wait.For gives up before a new attempt.
LEMMA TimeoutOK ==
  ASSUME IInv, Timeout
  PROVE  IInv'
<1> USE DEF IInv
<1>1. /\ pc = "poll" /\ pc' = "timeout"
      /\ UNCHANGED <<mode, world, faults, misled, goal, name, zone, label, todo, cache>>
  BY DEF Timeout
<1>2. faults' \in 0..MaxFaults /\ (moves = 0 /\ name = "t" => alias)
  BY <1>1 DEF Typed, TypeOK, Aliased
<1>3. Typed'
  BY <1>1, <1>2 DEF Typed, TypeOK, world
<1>4. Checked' /\ Heard' /\ ReadyMeansServed'
  BY <1>1 DEF Checked, Heard, ReadyMeansServed
<1> QED BY <1>1, <1>2, <1>3, <1>4, Onward DEF Checking

\* Nothing but the cache changes, and the cache is no part of the argument.
LEMMA ExpireOK ==
  ASSUME IInv, NEW n \in Hosts, Expire(n)
  PROVE  IInv'
<1> USE DEF IInv
<1>1. /\ cache' = [cache EXCEPT ![n] = None]
      /\ UNCHANGED <<mode, world, faults, misled, pc, goal, name, zone, label, todo>>
  BY DEF Expire
<1>0. UNCHANGED <<alias, apexes, serves, moves, published>>
  BY <1>1 DEF world
<1>2. Typed'
  BY SMTT(30), <1>1 DEF Typed, TypeOK, world
<1>3. Named'
  BY <1>0, <1>1 DEF Named
<1>4. Aliased' /\ CleanUpReachesRecord'
  BY <1>0, <1>1, SameWorld DEF Aliased, CleanUpReachesRecord
<1>5. Held'
  BY <1>0, <1>1, SameWorld DEF Held
<1>6. Checked' /\ Heard'
  BY <1>0, <1>1, SameWorld DEF Checked, Heard
<1>7. ReadyMeansServed'
  BY <1>0, <1>1, SameWorld DEF ReadyMeansServed
<1> QED BY <1>2, <1>3, <1>4, <1>5, <1>6, <1>7

\* A zone transfer gives a server the published value or takes an old one away;
\* a server that answers with the published value goes on doing so.
LEMMA TransferOK ==
  ASSUME IInv, NEW s \in Zones \X Servers, Transfer(s)
  PROVE  IInv'
<1> USE DEF IInv
<1> DEFINE now == IF published # None /\ s[1] = ZoneOf(published) THEN {published} ELSE {}
<1>1. /\ serves' = [serves EXCEPT ![s] = now]
      /\ UNCHANGED <<mode, alias, apexes, published, moves, faults, misled, pc, goal, name, zone,
                     label, todo, cache>>
  BY DEF Transfer
<1>2. now \subseteq Hosts
  BY DEF Typed, TypeOK, Hosts
<1>3. Final' = Final /\ \A n : ZoneOf(n)' = ZoneOf(n)
  BY <1>1 DEF Final, ZoneOf
<1>4. serves' \in [Zones \X Servers -> SUBSET Hosts]
  BY <1>1, <1>2 DEF Typed
<1>5. ASSUME moves = 0, pc # "done", NEW q \in Zones \X Servers
      PROVE  serves[q] \subseteq serves'[q]
  <2>1. CASE q = s
    <3>1. serves[s] \subseteq now
      BY SMTT(30), <1>5, <2>1 DEF Held, Typed, Hosts, None
    <3> QED BY <1>1, <2>1, <3>1 DEF Typed
  <2>2. CASE q # s
    BY <1>1, <2>2 DEF Typed
  <2> QED BY <2>1, <2>2
<1>6. ASSUME moves = 0, pc # "done", NEW z \in Zones, NEW v \in Servers, NEW n,
             Answers(<<z, v>>, n)
      PROVE  Answers(<<z, v>>, n)'
  BY <1>1, <1>5, <1>6 DEF Answers
<1>7. ASSUME moves = 0, pc # "done", NEW v \in Servers, Answers(<<ZoneOf(Final), v>>, Final)
      PROVE  Answers(<<ZoneOf(Final), v>>, Final)'
  <2>1. ZoneOf(Final) \in Zones
    BY SMTT(30) DEF Typed, TypeOK, Final, ZoneOf, Labels, Zones
  <2> QED BY <1>3, <1>6, <1>7, <2>1
<1>8. Typed'
  BY <1>1, <1>4 DEF Typed, TypeOK
<1>9. Named'
  BY <1>1 DEF Named
<1>10. Aliased' /\ CleanUpReachesRecord'
  BY <1>1, <1>3 DEF Aliased, CleanUpReachesRecord
<1>11. Held'
  <2> SUFFICES ASSUME moves = 0, pc # "done", NEW q \in Zones \X Servers, NEW n \in serves'[q]
               PROVE  n = published /\ q[1] = ZoneOf(n)
    BY <1>1, <1>3 DEF Held
  <2>1. CASE q = s
    <3>1. n \in now
      BY <1>1, <2>1 DEF Typed
    <3> QED BY <2>1, <3>1
  <2>2. CASE q # s
    BY <1>1, <2>2 DEF Held, Typed
  <2> QED BY <2>1, <2>2
<1>12. Checked'
  <2>1. pc = "servers" => zone \in Zones
    BY DEF Typed
  <2> QED BY <1>1, <1>6, <2>1 DEF Checked
<1>13. Heard'
  BY ZenonT(30), <1>1, <1>7 DEF Heard
<1>14. ReadyMeansServed'
  BY ZenonT(30), <1>1, <1>7 DEF ReadyMeansServed
<1> QED BY <1>8, <1>9, <1>10, <1>11, <1>12, <1>13, <1>14

\* After a change of the zones nothing is promised but types.
LEMMA MoveOK ==
  ASSUME IInv, Move
  PROVE  IInv'
<1> USE DEF IInv
<1>1. /\ moves' = moves + 1 /\ moves < MaxMoves /\ moves \in Nat
      /\ UNCHANGED <<mode, published, serves, faults, misled, pc, goal, name, zone, label, todo, cache>>
  BY SMTT(30), Resolvers DEF Move, Typed, TypeOK
<1>2. moves' # 0
  BY <1>1
<1>3. alias' \in BOOLEAN /\ apexes' \in {{"e", "z"}, {"w", "e", "z"}}
  <2>1. CASE alias' = ~alias /\ UNCHANGED apexes
    BY <2>1 DEF Typed, TypeOK
  <2>2. CASE /\ apexes' = IF "w" \in apexes THEN apexes \ {"w"} ELSE apexes \cup {"w"}
             /\ UNCHANGED alias
    BY <2>2 DEF Typed, TypeOK
  <2> QED BY <2>1, <2>2 DEF Move
<1>4. Typed'
  <2>1. TypeOK'
    BY SMTT(30), <1>1, <1>3, Resolvers DEF Typed, TypeOK
  <2> QED BY <1>1, <1>3, <2>1 DEF Typed
<1>5. Named'
  BY ZenonT(30), <1>1 DEF Named
<1>6. Aliased' /\ Held' /\ Checked' /\ Heard' /\ ReadyMeansServed' /\ CleanUpReachesRecord'
  BY <1>1, <1>2 DEF Aliased, Held, Checked, Heard, ReadyMeansServed, CleanUpReachesRecord
<1> QED BY <1>4, <1>5, <1>6

\* A step that changes nothing.
LEMMA Still ==
  ASSUME IInv, UNCHANGED vars
  PROVE  IInv'
<1> USE DEF IInv
<1>1. /\ UNCHANGED <<mode, alias, apexes, published, serves, moves>>
      /\ UNCHANGED <<faults, misled, pc, goal, name, zone, label, todo, cache>>
  BY DEF vars, world
<1>2. Typed' /\ Named'
  BY SMTT(30), <1>1 DEF Typed, TypeOK, Named
<1>3. Aliased' /\ CleanUpReachesRecord'
  BY <1>1, SameWorld DEF Aliased, CleanUpReachesRecord
<1>4. Held'
  BY <1>1, SameWorld DEF Held
<1>5. Checked' /\ Heard'
  BY <1>1, SameWorld DEF Checked, Heard
<1>6. ReadyMeansServed'
  BY <1>1, SameWorld DEF ReadyMeansServed
<1> QED BY <1>2, <1>3, <1>4, <1>5, <1>6

\* Every step preserves the invariant.
LEMMA Inductive ==
  ASSUME IInv, [Next]_vars
  PROVE  IInv'
<1>1. serves \in [Zones \X Servers -> SUBSET Hosts]
  BY DEF IInv, Typed
<1>2. ASSUME Client PROVE IInv'
  BY <1>2, PresentOK, SolveOK, PollOK, RecursiveOK, LookupSoaOK, FetchSoaOK, LookupNsOK, AskServerOK
    DEF Client
<1>3. ASSUME NEW n \in {"c", "t"}, Expire(n) PROVE IInv'
  BY <1>3, ExpireOK DEF Hosts
<1>4. ASSUME NEW s \in DOMAIN serves, Transfer(s) PROVE IInv'
  BY <1>1, <1>4, TransferOK
<1> QED BY <1>2, <1>3, <1>4, CleanUpOK, TimeoutOK, MoveOK, Still DEF Next

\* The invariant holds before the challenge is presented.
LEMMA Initial == Init => IInv
<1> SUFFICES ASSUME Init PROVE IInv
  OBVIOUS
<1> USE DEF Init
<1>1. Typed
  <2>1. TypeOK
    BY SMTT(30), Resolvers DEF TypeOK
  <2>2. serves \in [Zones \X Servers -> SUBSET Hosts] /\ cache \in [Hosts -> Zones \cup {None}]
    BY DEF Zones, Hosts
  <2> QED BY ZenonT(30), <2>1, <2>2 DEF Typed
<1>2. Named /\ Aliased
  BY DEF Named, Aliased, Checking, None
<1>3. Held
  BY DEF Held, Zones
<1>4. Checked /\ Heard /\ ReadyMeansServed /\ CleanUpReachesRecord
  BY DEF Checked, Heard, ReadyMeansServed, CleanUpReachesRecord
<1> QED BY <1>1, <1>2, <1>3, <1>4 DEF IInv
-----------------------------------------------------------------------------
\* The invariant holds in every state of a challenge.
THEOREM Invariance == Spec => []IInv
BY Initial, Inductive, PTL DEF Spec

\* Types; and the cache holds for a name only zones that the name lies in, also
\* after queries that failed and while the delegation changes.
THEOREM TypeCorrect == Spec => []TypeOK
<1>1. IInv => TypeOK
  BY DEF IInv, Typed
<1> QED BY <1>1, Invariance, PTL

\* The CA is told only when the servers it will ask have the value, however many
\* resolvers and servers there are and however many queries failed on the way.
THEOREM Propagated == Spec => []ReadyMeansServed
<1>1. IInv => ReadyMeansServed
  BY DEF IInv
<1> QED BY <1>1, Invariance, PTL

\* CleanUp withdraws what Present has published, unless a CNAME query failed.
THEOREM Withdrawn == Spec => []CleanUpReachesRecord
<1>1. IInv => CleanUpReachesRecord
  BY DEF IInv
<1> QED BY <1>1, Invariance, PTL

-----------------------------------------------------------------------------
(* The servers of http-01 and tls-alpn-01.                                  *)

Working == at \in {"validate", "wait"}

\* Goroutines are started in turn; the one of http-01 has ended before the next
\* challenge is presented, and finds the listener of its own challenge.
GoroutinesOK ==
  /\ \A g \in Chal : g > cur \/ (g = cur /\ at = "present") => gor[g] = "none"
  /\ Working => listener = cur
  /\ kind # "tls" =>
       \A g \in Chal : gor[g] \in {"none", "ended"} \/ (g = cur /\ Working)
  /\ kind # "tls" => \A g \in Chal : served[g] \in {Nil, g}

\* A request was accepted by a goroutine that serves the listener it came in by.
RequestsOK ==
  \A c \in Chal :
    /\ req[c] \in {"accepted", "right", "wrong"} =>
         by[c] \in Chal /\ served[by[c]] = via[c] /\ gor[by[c]] \notin {"none", "started"}
    /\ via[c] = Nil => req[c] = "none"

\* Unless a chmod has failed, the address is taken by the current challenge only.
AddressOK == ~leaked /\ open # Nil => at = "validate" /\ open = listener

ServerInv == ServerTypeOK /\ GoroutinesOK /\ RequestsOK /\ AddressOK /\ RightAnswer

\* Every step preserves the invariant.
LEMMA ServerInductive ==
  ASSUME ServerInv, [ServerNext]_serverVars
  PROVE  ServerInv'
<1>0. ServerTypeOK /\ GoroutinesOK /\ RequestsOK /\ AddressOK /\ RightAnswer
  BY DEF ServerInv
<1> USE <1>0, NAssumption DEF Chal, Nil, Working, requests
<1>1. ASSUME ListenFails PROVE ServerInv'
  <2> USE <1>1 DEF ListenFails, NextChallenge
  <2>1. ServerTypeOK'
    BY SMTT(30) DEF ServerTypeOK
  <2>2. GoroutinesOK'
    BY SMTT(30) DEF ServerTypeOK, GoroutinesOK
  <2>3. RequestsOK'
    BY DEF ServerTypeOK, GoroutinesOK, RequestsOK
  <2>4. AddressOK'
    BY DEF ServerTypeOK, GoroutinesOK, AddressOK
  <2>5. RightAnswer'
    BY DEF ServerTypeOK, GoroutinesOK, RequestsOK, RightAnswer
  <2> QED BY ZenonT(30), <2>1, <2>2, <2>3, <2>4, <2>5 DEF ServerInv
<1>2. ASSUME ChmodFails PROVE ServerInv'
  <2> USE <1>2 DEF ChmodFails, Listen, NextChallenge
  <2>1. ServerTypeOK'
    BY SMTT(30) DEF ServerTypeOK
  <2>2. GoroutinesOK'
    BY SMTT(30) DEF ServerTypeOK, GoroutinesOK
  <2>3. RequestsOK'
    BY DEF ServerTypeOK, GoroutinesOK, RequestsOK
  <2>4. AddressOK'
    BY DEF ServerTypeOK, GoroutinesOK, AddressOK
  <2>5. RightAnswer'
    BY DEF ServerTypeOK, GoroutinesOK, RequestsOK, RightAnswer
  <2> QED BY ZenonT(30), <2>1, <2>2, <2>3, <2>4, <2>5 DEF ServerInv
<1>3. ASSUME ServerPresent PROVE ServerInv'
  <2> USE <1>3 DEF ServerPresent, Listen
  <2>1. ServerTypeOK'
    BY DEF ServerTypeOK
  <2>2. GoroutinesOK'
    BY SMTT(30) DEF ServerTypeOK, GoroutinesOK
  <2>3. RequestsOK'
    BY SMTT(30) DEF ServerTypeOK, GoroutinesOK, RequestsOK
  <2>4. AddressOK'
    BY DEF ServerTypeOK, GoroutinesOK, AddressOK
  <2>5. RightAnswer'
    BY DEF ServerTypeOK, GoroutinesOK, RequestsOK, RightAnswer
  <2> QED BY ZenonT(30), <2>1, <2>2, <2>3, <2>4, <2>5 DEF ServerInv
<1>4. ASSUME ServerCleanUp PROVE ServerInv'
  <2> USE <1>4 DEF ServerCleanUp, CloseListener, NextChallenge
  <2>1. ServerTypeOK'
    BY SMTT(30) DEF ServerTypeOK
  <2>2. GoroutinesOK'
    BY SMTT(30) DEF ServerTypeOK, GoroutinesOK
  <2>3. RequestsOK'
    BY DEF ServerTypeOK, GoroutinesOK, RequestsOK
  <2>4. AddressOK'
    BY DEF ServerTypeOK, GoroutinesOK, AddressOK
  <2>5. RightAnswer'
    BY DEF ServerTypeOK, GoroutinesOK, RequestsOK, RightAnswer
  <2> QED BY ZenonT(30), <2>1, <2>2, <2>3, <2>4, <2>5 DEF ServerInv
<1>5. ASSUME DoneReceived PROVE ServerInv'
  <2> USE <1>5 DEF DoneReceived, NextChallenge
  <2>1. ServerTypeOK'
    BY SMTT(30) DEF ServerTypeOK
  <2>2. GoroutinesOK'
    BY SMTT(30) DEF ServerTypeOK, GoroutinesOK
  <2>3. RequestsOK'
    BY SMTT(30) DEF ServerTypeOK, GoroutinesOK, RequestsOK
  <2>4. AddressOK'
    BY DEF ServerTypeOK, GoroutinesOK, AddressOK
  <2>5. RightAnswer'
    BY DEF ServerTypeOK, GoroutinesOK, RequestsOK, RightAnswer
  <2> QED BY ZenonT(30), <2>1, <2>2, <2>3, <2>4, <2>5 DEF ServerInv
<1>6. ASSUME NEW g \in Chal, Serve(g) PROVE ServerInv'
  <2> USE <1>6 DEF Serve
  <2>1. ServerTypeOK'
    BY DEF ServerTypeOK
  <2>2. GoroutinesOK'
    BY DEF ServerTypeOK, GoroutinesOK
  <2>3. RequestsOK'
    BY SMTT(30) DEF ServerTypeOK, GoroutinesOK, RequestsOK
  <2>4. AddressOK'
    BY DEF ServerTypeOK, GoroutinesOK, AddressOK
  <2>5. RightAnswer'
    BY DEF ServerTypeOK, GoroutinesOK, RequestsOK, RightAnswer
  <2> QED BY ZenonT(30), <2>1, <2>2, <2>3, <2>4, <2>5 DEF ServerInv
<1>7. ASSUME NEW g \in Chal, Accept(g) PROVE ServerInv'
  <2> USE <1>7 DEF Accept
  <2>1. ServerTypeOK'
    BY SMTT(30) DEF ServerTypeOK
  <2>2. GoroutinesOK'
    BY DEF ServerTypeOK, GoroutinesOK
  <2>3. RequestsOK'
    BY SMTT(30) DEF ServerTypeOK, GoroutinesOK, RequestsOK
  <2>4. AddressOK'
    BY DEF ServerTypeOK, GoroutinesOK, AddressOK
  <2>5. RightAnswer'
    BY SMTT(30) DEF ServerTypeOK, GoroutinesOK, RequestsOK, RightAnswer
  <2> QED BY ZenonT(30), <2>1, <2>2, <2>3, <2>4, <2>5 DEF ServerInv
<1>8. ASSUME NEW g \in Chal, ServeReturns(g) PROVE ServerInv'
  <2> USE <1>8 DEF ServeReturns, Returned
  <2>1. ServerTypeOK'
    BY DEF ServerTypeOK
  <2>2. GoroutinesOK'
    BY DEF ServerTypeOK, GoroutinesOK
  <2>3. RequestsOK'
    BY SMTT(30) DEF ServerTypeOK, GoroutinesOK, RequestsOK
  <2>4. AddressOK'
    BY DEF ServerTypeOK, GoroutinesOK, AddressOK
  <2>5. RightAnswer'
    BY DEF ServerTypeOK, GoroutinesOK, RequestsOK, RightAnswer
  <2> QED BY ZenonT(30), <2>1, <2>2, <2>3, <2>4, <2>5 DEF ServerInv
<1>9. ASSUME NEW g \in Chal, Answer(g) PROVE ServerInv'
  <2> USE <1>9 DEF Answer, AnswersFor
  <2>1. ServerTypeOK'
    BY DEF ServerTypeOK
  <2>2. GoroutinesOK'
    BY DEF ServerTypeOK, GoroutinesOK
  <2>3. RequestsOK'
    BY SMTT(30) DEF ServerTypeOK, GoroutinesOK, RequestsOK
  <2>4. AddressOK'
    BY DEF ServerTypeOK, GoroutinesOK, AddressOK
  <2>5. RightAnswer'
    BY SMTT(30) DEF ServerTypeOK, GoroutinesOK, RequestsOK, RightAnswer
  <2> QED BY ZenonT(30), <2>1, <2>2, <2>3, <2>4, <2>5 DEF ServerInv
<1>10. ASSUME NEW g \in Chal, ServeFails(g) PROVE ServerInv'
  <2> USE <1>10 DEF ServeFails, CloseListener, Returned
  <2>1. ServerTypeOK'
    BY DEF ServerTypeOK
  <2>2. GoroutinesOK'
    BY DEF ServerTypeOK, GoroutinesOK
  <2>3. RequestsOK'
    BY SMTT(30) DEF ServerTypeOK, GoroutinesOK, RequestsOK
  <2>4. AddressOK'
    BY DEF ServerTypeOK, GoroutinesOK, AddressOK
  <2>5. RightAnswer'
    BY DEF ServerTypeOK, GoroutinesOK, RequestsOK, RightAnswer
  <2> QED BY ZenonT(30), <2>1, <2>2, <2>3, <2>4, <2>5 DEF ServerInv
<1>11. ASSUME NEW g \in Chal, Connect(g) PROVE ServerInv'
  <2> USE <1>11 DEF Connect
  <2>1. ServerTypeOK'
    BY DEF ServerTypeOK
  <2>2. GoroutinesOK'
    BY DEF ServerTypeOK, GoroutinesOK
  <2>3. RequestsOK'
    BY SMTT(30) DEF ServerTypeOK, GoroutinesOK, RequestsOK
  <2>4. AddressOK'
    BY DEF ServerTypeOK, GoroutinesOK, AddressOK
  <2>5. RightAnswer'
    BY SMTT(30) DEF ServerTypeOK, GoroutinesOK, RequestsOK, RightAnswer
  <2> QED BY ZenonT(30), <2>1, <2>2, <2>3, <2>4, <2>5 DEF ServerInv
<1>12. ASSUME UNCHANGED serverVars PROVE ServerInv'
  <2> USE <1>12 DEF serverVars
  <2>1. ServerTypeOK'
    BY DEF ServerTypeOK
  <2>2. GoroutinesOK'
    BY DEF ServerTypeOK, GoroutinesOK
  <2>3. RequestsOK'
    BY DEF ServerTypeOK, GoroutinesOK, RequestsOK
  <2>4. AddressOK'
    BY DEF ServerTypeOK, GoroutinesOK, AddressOK
  <2>5. RightAnswer'
    BY DEF ServerTypeOK, GoroutinesOK, RequestsOK, RightAnswer
  <2> QED BY ZenonT(30), <2>1, <2>2, <2>3, <2>4, <2>5 DEF ServerInv
<1> QED BY <1>1, <1>2, <1>3, <1>4, <1>5, <1>6, <1>7, <1>8, <1>9, <1>10, <1>11, <1>12 DEF ServerNext, ServerSolve, Goroutine, Stopped

\* The invariant holds in every state.
THEOREM ServerInvariance == ServerSpec => []ServerInv
<1>1. ServerInit => ServerInv
  <2> SUFFICES ASSUME ServerInit PROVE ServerInv
    OBVIOUS
  <2> USE NAssumption DEF ServerInit, Chal, Nil, Working
  <2>1. ServerTypeOK
    <3>1. 1 \in Chal
      OBVIOUS
    <3> HIDE DEF Chal
    <3> QED BY ZenonT(60), <3>1 DEF ServerTypeOK
  <2>2. GoroutinesOK
    BY DEF GoroutinesOK
  <2>3. RequestsOK /\ AddressOK /\ RightAnswer
    BY DEF RequestsOK, AddressOK, RightAnswer
  <2> QED BY <2>1, <2>2, <2>3 DEF ServerInv
<1>2. ServerInv /\ [ServerNext]_serverVars => ServerInv'
  BY ServerInductive
<1> QED BY <1>1, <1>2, PTL DEF ServerSpec

\* A request that came in for the challenge that was presented is answered for
\* that challenge, however late the handler or the goroutine is and however
\* many challenges follow.
THEOREM AnsweredRight == ServerSpec => []RightAnswer
<1>1. ServerInv => RightAnswer
  BY DEF ServerInv
<1> QED BY <1>1, ServerInvariance, PTL

\* Between two challenges the address is free, unless a chmod has failed.
THEOREM AddressFree == ServerSpec => []AddressReleased
<1>1. ServerInv => AddressReleased
  BY DEF ServerInv, AddressOK, AddressReleased
<1> QED BY <1>1, ServerInvariance, PTL
=============================================================================
