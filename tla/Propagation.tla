----------------------------- MODULE Propagation -----------------------------
(***************************************************************************)
(* Where a dns-01 record goes and when it is there: GetChallengeInfo        *)
(* follows a CNAME (challenge/dns01/dns_challenge.go), the pre-check polls  *)
(* the name servers (precheck.go), and the zone of a name comes from a walk *)
(* up its labels, or from a cache (nameserver.go).                          *)
(*                                                                          *)
(* The record of the challenge is at "c", _acme-challenge.www.example.org,  *)
(* under "w", www.example.org, and "e", example.org; or "c" is an alias of  *)
(* "t" under "z" in another zone.  "e" and "z" are zones and "w" may be.    *)
(***************************************************************************)
EXTENDS Naturals, Sequences, FiniteSets

CONSTANTS
  R,          \* the number of recursive resolvers
  Servers,    \* the name servers of each zone
  MaxFaults,  \* how many answers of resolvers fail
  MaxMoves    \* how often the operator of the domain changes the zones

ASSUME Resolvers == R \in Nat \ {0} /\ MaxFaults \in Nat /\ MaxMoves \in Nat

Labels(n) == IF n = "c" THEN <<"c", "w", "e">> ELSE <<"t", "z">>

VARIABLES
  mode,       \* the options: what the pre-check requires
  \* the world
  alias,      \* "c" is a CNAME for "t"
  apexes,     \* the names that are zones
  published,  \* the name at which the provider has the value
  serves,     \* the names for which a server of a zone answers with the value
  faults, moves,
  misled,     \* a CNAME query of Present or CleanUp has failed
  \* the client
  pc,
  goal,       \* the EffectiveFQDN of Solve
  name,       \* the name of the current check
  zone,       \* its zone
  label,      \* where the walk up the labels is
  todo,       \* the servers still to ask
  cache       \* fqdnSoaCache

world == <<alias, apexes, published, serves, moves>>
vars == <<mode, world, faults, misled, pc, goal, name, zone, label, todo, cache>>

None == "none"
Modes == {"authoritative", "both", "recursive", "neither", "skip"}
ZoneOf(n) == LET ls == Labels(n) IN
  ls[CHOOSE i \in DOMAIN ls : ls[i] \in apexes /\ \A j \in 1..(i - 1) : ls[j] \notin apexes]
\* Where the CA will look.
Final == IF alias THEN "t" ELSE "c"

Init ==
  /\ mode \in Modes /\ alias \in BOOLEAN
  /\ apexes \in {{"e", "z"}, {"w", "e", "z"}}
  /\ published = None /\ serves = [s \in {"w", "e", "z"} \X Servers |-> {}]
  /\ faults = 0 /\ moves = 0 /\ misled = FALSE
  /\ pc = "present" /\ goal = None /\ name = None /\ zone = None /\ label = 1 /\ todo = {}
  /\ cache = [n \in {"c", "t"} |-> None]

-----------------------------------------------------------------------------
(* Queries.  "answer" and "empty" are what the resolver should say; it may  *)
(* instead say "servfail", or not answer at all ("fail").                   *)
\* The first answer with records in it; else what became of the last attempt.
DnsQuery(outs) ==
  IF \E i \in DOMAIN outs : outs[i] = "answer" THEN "answer"
  ELSE IF outs[Len(outs)] = "fail" THEN "error" ELSE outs[Len(outs)]

\* A query of the resolvers, when the truth is given, has the result res.
Asked(truth, res) ==
  \E outs \in [1..R -> {truth, "servfail", "fail"}] :
    /\ res = DnsQuery(outs)
    /\ \A i \in 1..R : outs[i] = "answer" => \A j \in (i + 1)..R : outs[j] = "answer"
    /\ faults' = faults + Cardinality({i \in 1..R : outs[i] # truth})
    /\ faults' <= MaxFaults

Results == {"answer", "empty", "servfail", "error"}

\* getChallengeFQDN: any failure ends the chain of CNAMEs where it is.
Followed(n) ==
  \E res \in Results :
    /\ Asked(IF alias THEN "answer" ELSE "empty", res)
    /\ n = IF res = "answer" THEN "t" ELSE "c"
    /\ misled' = (misled \/ (pc # "solve" /\ alias /\ res # "answer"))

\* PreSolve: the provider publishes the value.
Present ==
  /\ pc = "present"
  /\ \E n \in {"c", "t"} : Followed(n) /\ published' = n
  /\ pc' = "solve"
  /\ UNCHANGED <<mode, alias, apexes, serves, moves, goal, name, zone, label, todo, cache>>

\* Solve computes the name again, and waits.
Solve ==
  /\ pc = "solve"
  /\ \E n \in {"c", "t"} : Followed(n) /\ goal' = n
  /\ pc' = IF mode = "skip" THEN "ready" ELSE "poll"
  /\ UNCHANGED <<mode, world, name, zone, label, todo, cache>>

Retry == pc' = "poll" /\ UNCHANGED <<name, zone, label, todo, cache>>

\* The first query of checkDNSPropagation; its CNAME is followed once more.
Poll ==
  /\ pc = "poll"
  /\ \E res \in Results :
       /\ Asked(IF (goal = "c" /\ alias) \/ \E s \in DOMAIN serves : goal \in serves[s]
                THEN "answer" ELSE "empty", res)
       /\ IF res = "error" THEN Retry
          ELSE /\ name' = IF res = "answer" /\ goal = "c" /\ alias THEN "t" ELSE goal
               /\ pc' = IF mode \in {"both", "recursive"} THEN "recursive"
                        ELSE IF mode = "neither" THEN "ready" ELSE "zone"
               /\ todo' = 1..R
               /\ UNCHANGED <<zone, label, cache>>
  /\ UNCHANGED <<mode, world, misled, goal>>

\* A server of a zone answers a question for a TXT record with the value.
Answers(s, n) == n \in serves[s] /\ (n = "c" => ~alias)

\* A resolver follows a CNAME and has what some server of the zone answers.
Resolved(said) ==
  LET n == IF name = "c" THEN Final ELSE name IN
  \E s \in Servers : Answers(<<ZoneOf(n), s>>, n) = said

\* checkNameserversPropagation over the resolvers.
Recursive ==
  /\ pc = "recursive" /\ UNCHANGED <<mode, world, misled, goal>>
  /\ \/ /\ todo = {} /\ faults' = faults
        /\ pc' = IF mode = "both" THEN "zone" ELSE "ready"
        /\ UNCHANGED <<name, zone, label, todo, cache>>
     \/ \E r \in todo :
          \/ /\ Resolved(TRUE)
             /\ todo' = todo \ {r} /\ faults' = faults
             /\ UNCHANGED <<pc, name, zone, label, cache>>
          \/ /\ Resolved(FALSE)
             /\ Retry /\ faults' = faults
          \/ faults < MaxFaults /\ faults' = faults + 1 /\ Retry

\* lookupSoaByFqdn: the cache, or the walk.
LookupSoa ==
  /\ pc = "zone"
  /\ zone' = cache[name] /\ label' = 1
  /\ pc' = IF cache[name] # None THEN "ns" ELSE "walk"
  /\ UNCHANGED <<mode, world, faults, misled, goal, name, todo, cache>>

\* The entry is filed under the name that was asked for.
Store(n) == cache' = [cache EXCEPT ![name] = n]

\* One label of fetchSoaByFqdn.  A query that failed counts as "no zone here".
FetchSoa ==
  /\ pc = "walk"
  /\ IF label > Len(Labels(name)) THEN Retry /\ faults' = faults
     ELSE LET n == Labels(name)[label] IN
       \E res \in Results :
         /\ Asked(IF n \in apexes \/ (n = "c" /\ alias) THEN "answer" ELSE "empty", res)
         /\ CASE res = "servfail" -> Retry
              [] res = "answer" /\ n \in apexes ->
                   /\ zone' = n /\ Store(n) /\ pc' = "ns"
                   /\ UNCHANGED <<name, label, todo>>
              [] OTHER -> label' = label + 1 /\ UNCHANGED <<pc, name, zone, todo, cache>>
  /\ UNCHANGED <<mode, world, misled, goal>>

\* lookupNameservers.
LookupNs ==
  /\ pc = "ns"
  /\ \E res \in Results :
       /\ Asked(IF zone \in apexes THEN "answer" ELSE "empty", res)
       /\ IF res # "answer" THEN Retry
          ELSE /\ todo' = Servers /\ pc' = "servers"
               /\ UNCHANGED <<name, zone, label, cache>>
  /\ UNCHANGED <<mode, world, misled, goal>>

\* checkNameserversPropagation stops at the first server without the value.
AskServerAny ==
  /\ pc = "servers" /\ UNCHANGED <<mode, world, misled, goal, faults>>
  /\ \E s \in todo :
       IF Answers(<<zone, s>>, name) THEN pc' = "ready" /\ UNCHANGED <<name, zone, label, todo, cache>>
       ELSE Retry

AskServer ==
  /\ pc = "servers" /\ UNCHANGED <<mode, world, misled, goal>>
  /\ \/ /\ todo = {} /\ pc' = "ready" /\ faults' = faults
        /\ UNCHANGED <<name, zone, label, todo, cache>>
     \/ \E s \in todo :
          \/ /\ Answers(<<zone, s>>, name) /\ todo' = todo \ {s} /\ faults' = faults
             /\ UNCHANGED <<pc, name, zone, label, cache>>
          \/ ~Answers(<<zone, s>>, name) /\ Retry /\ faults' = faults
          \/ faults < MaxFaults /\ faults' = faults + 1 /\ Retry

\* The CA has been told and has looked, or the time is over.
CleanUpAtHome ==
  /\ pc \in {"ready", "timeout"}
  /\ published' = IF published = "c" THEN None ELSE published
  /\ pc' = "done" /\ UNCHANGED <<misled, faults>>
  /\ UNCHANGED <<mode, alias, apexes, serves, moves, goal, name, zone, label, todo, cache>>

\* CleanUp computes the name a third time.
CleanUp ==
  /\ pc \in {"ready", "timeout"}
  /\ \E n \in {"c", "t"} : Followed(n) /\ published' = IF published = n THEN None ELSE published
  /\ pc' = "done"
  /\ UNCHANGED <<mode, alias, apexes, serves, moves, goal, name, zone, label, todo, cache>>

\* wait.For gives up.
Timeout ==
  /\ pc = "poll" /\ pc' = "timeout"
  /\ UNCHANGED <<mode, world, faults, misled, goal, name, zone, label, todo, cache>>

ExpireNever(n) == FALSE /\ n = name /\ UNCHANGED vars

\* The refresh time of the SOA record is over.
Expire(n) ==
  /\ cache[n] # None /\ cache' = [cache EXCEPT ![n] = None]
  /\ UNCHANGED <<mode, world, faults, misled, pc, goal, name, zone, label, todo>>

-----------------------------------------------------------------------------
(* The name servers.                                                        *)
Transfer(s) ==
  /\ LET now == IF published # None /\ s[1] = ZoneOf(published) THEN {published} ELSE {} IN
     serves[s] # now /\ serves' = [serves EXCEPT ![s] = now]
  /\ UNCHANGED <<mode, alias, apexes, published, moves, faults, misled, pc, goal, name, zone,
                 label, todo, cache>>

Move ==
  /\ moves < MaxMoves /\ moves' = moves + 1
  /\ \/ alias' = ~alias /\ UNCHANGED apexes
     \/ /\ apexes' = IF "w" \in apexes THEN apexes \ {"w"} ELSE apexes \cup {"w"}
        /\ UNCHANGED alias
  /\ UNCHANGED <<mode, published, serves, faults, misled, pc, goal, name, zone, label, todo, cache>>

Client == Present \/ Solve \/ Poll \/ Recursive \/ LookupSoa \/ FetchSoa \/ LookupNs \/ AskServer

Next ==
  \/ Client \/ CleanUp \/ Timeout \/ Move
  \/ \E n \in {"c", "t"} : Expire(n)
  \/ \E s \in DOMAIN serves : Transfer(s)
  \/ pc = "done" /\ UNCHANGED vars

Spec == Init /\ [][Next]_vars

\* The client goes on, the servers of a zone transfer it, cache entries expire.
FairSpec ==
  /\ Spec /\ WF_vars(Client)
  /\ \A n \in {"c", "t"} : WF_vars(Expire(n))
  /\ \A s \in {"w", "e", "z"} \X Servers : WF_vars(Transfer(s))

-----------------------------------------------------------------------------
\* Types; the cache has for every name a zone that the name is in.
TypeOK ==
  /\ mode \in Modes /\ alias \in BOOLEAN /\ apexes \subseteq {"w", "e", "z"}
  /\ published \in {None, "c", "t"} /\ faults \in 0..MaxFaults /\ moves \in 0..MaxMoves
  /\ pc \in {"present", "solve", "poll", "recursive", "zone", "walk", "ns", "servers", "ready",
             "timeout", "done"}
  /\ {goal, name} \subseteq {None, "c", "t"} /\ label \in 1..4 /\ todo \subseteq 1..R \cup Servers
  /\ \A n \in {"c", "t"} : cache[n] # None => \E i \in DOMAIN Labels(n) : Labels(n)[i] = cache[n]

\* When the CA is told that the challenge is ready, every name server of the zone
\* that holds the record answers the CA with the value, whatever queries failed
\* on the way and whatever zone they left in the cache.
ReadyMeansServed ==
  pc = "ready" /\ moves = 0 =>
    /\ mode \in {"authoritative", "both"} =>
         \A s \in Servers : Answers(<<ZoneOf(Final), s>>, Final)
    /\ mode = "recursive" => \E s \in Servers : Answers(<<ZoneOf(Final), s>>, Final)

\* CleanUp reaches the record that Present has published, unless the CNAME was
\* changed, or could not be read, in between.
CleanUpReachesRecord == pc = "done" /\ moves = 0 /\ ~misled => published = None

\* A failed check is repeated until it passes: with the record at the right name,
\* and whatever becomes of the delegation of the zone, the CA is told unless the
\* time is over first.  A zone that is wrong in the cache does not stay there.
ReadyAfterFaults ==
  (pc = "solve" /\ published = Final) ~> (pc \in {"ready", "timeout", "done"} \/ published # Final)
=============================================================================
