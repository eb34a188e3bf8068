----------------------------- MODULE DnsProvider -----------------------------
(***************************************************************************)
(* What a run of the programs of the DNS providers does to the zone.  One   *)
(* command asks for example.com and *.example.com: the two challenges, "a"  *)
(* and "b", have their TXT records at the same name.  The resolver          *)
(* (challenge/resolver/prober.go) calls Present and CleanUp of the provider *)
(* for both, a second writer adds a record of its own to the name at any    *)
(* moment, and a request may be refused, or it or its answer may be lost.   *)
(***************************************************************************)
EXTENDS DnsDiscipline

CONSTANTS
  Providers,  \* the programs of the providers, by name
  MaxFaults   \* how many requests are refused or lost

\* Every program is a sequence of steps.
ASSUME Table ==
  /\ MaxFaults \in Nat
  /\ \A n \in DOMAIN Providers : Programs(Providers[n]) \subseteq Seq(Steps)

Challenges == {"a", "b"}
\* The records of others: "f" is there from the start, "g" is added on the way.
Foreign == {"f", "g"}
NoId == 0

VARIABLES
  provider,   \* the name of the provider in use
  code,       \* its programs
  calls,      \* the calls the resolver still has to make, the current one first
  pc,         \* the step of the current call
  live,       \* the TXT records of the name that the name servers answer with
  draft,      \* the records of the copy that is edited, where changes are staged
  found,      \* the records the current call has read
  seen,       \* the version of the records it has read or written last
  id,         \* the identifier it has got hold of
  bad,        \* an error it will return at the end
  mem,        \* the identifiers the provider remembers
  known,      \* what the client has cached
  others,     \* the records of others that have been at the name
  result,     \* what Present and CleanUp returned
  faults,
  next        \* the next record identifier of the service

service == <<live, draft, next>>
local == <<found, seen, id, bad>>
vars == <<provider, code, calls, pc, service, local, mem, known, others, result, faults>>

Record(i, v) == [id |-> i, val |-> v]

\* The order of parallelSolve, and of sequentialSolve: CleanUp follows Present
\* whether or not Present succeeded.
Schedule(sequential) ==
  LET call(f, c) == [fn |-> f, ch |-> c] IN
  IF sequential
  THEN <<call("present", "a"), call("cleanup", "a"), call("present", "b"), call("cleanup", "b")>>
  ELSE <<call("present", "a"), call("present", "b"), call("cleanup", "a"), call("cleanup", "b")>>

Init ==
  /\ provider \in DOMAIN Providers /\ code = Providers[provider]
  /\ calls = <<[fn |-> "setup", ch |-> "a"]>> \o Schedule(code.sequential)
  /\ pc = 1
  /\ others \in {{}, {"f"}}
  /\ live = {Record(1, v) : v \in others} /\ draft = live /\ next = 3
  /\ found = {} /\ seen = {} /\ id = NoId /\ bad = FALSE
  /\ mem = [k \in {"a", "b", "name"} |-> NoId] /\ known = {}
  /\ result = [f \in {"setup", "present", "cleanup"} |-> [c \in Challenges |-> "none"]]
  /\ faults = 0

Running == calls # <<>>
Fn == Head(calls).fn
Ch == Head(calls).ch
Program == IF Fn = "setup" THEN code.setup ELSE IF Fn = "present" THEN code.present ELSE code.cleanup
At == Running /\ pc <= Len(Program)
Now == Program[pc]
JudgeOf(m) == IF m \in DOMAIN code.client THEN code.client[m] ELSE Status

Staged == StagesIn(code)
\* The records that requests read and change.
Work == IF Staged THEN draft ELSE live
SetWork(w) == IF Staged THEN draft' = w /\ live' = live ELSE live' = w /\ draft' = w

Key(k) == IF k \in {"token", "value"} THEN Ch ELSE "name"

\* The call returns r, and the next one begins.
Return(r) ==
  /\ result' = [result EXCEPT ![Fn][Ch] = r]
  /\ calls' = IF r = "panic" \/ (Fn = "setup" /\ r = "error") THEN <<>> ELSE Tail(calls)
  /\ pc' = 1 /\ found' = {} /\ seen' = {} /\ id' = NoId /\ bad' = FALSE
  /\ UNCHANGED <<provider, code, others>>

Advance == pc' = pc + 1 /\ UNCHANGED <<provider, code, calls, result, others>>
\* Another round of a loop.
Stay == UNCHANGED <<provider, code, calls, pc, result, others>>

\* The last step is done.
End ==
  /\ Running /\ pc > Len(Program)
  /\ Return(IF bad THEN "error" ELSE "ok")
  /\ UNCHANGED <<service, mem, known, faults>>

-----------------------------------------------------------------------------
(* Steps that make no request.                                              *)
Holds(cond) ==
  LET rest == \E r \in found : r.val # Ch IN
  CASE cond = "always" -> TRUE
    [] cond = "some" -> found # {}
    [] cond = "none" -> found = {}
    [] cond = "rest" -> rest
    [] cond = "noRest" -> ~rest
    [] cond = "one" -> \E r \in found : found = {r}
    [] cond = "many" -> \E r, q \in found : r # q
    [] cond = "unknown" -> "account" \notin known

Due(ops) == At /\ Now.op \in ops /\ Holds(Now.cond)

Skip ==
  /\ At /\ ~Holds(Now.cond)
  /\ Advance /\ UNCHANGED <<service, local, mem, known, faults>>

Own == {r \in found : r.val = Ch}

\* The outcome of a test: the value to return, or "" to go on.
Verdict(op, k) ==
  CASE op = "need" -> IF found = {} THEN "error" ELSE ""
    [] op = "needOwn" -> IF Own = {} THEN "error" ELSE ""
    [] op = "failIfOwn" -> IF Own # {} THEN "error" ELSE ""
    [] op = "deref" -> IF found = {} THEN "panic" ELSE ""
    [] op = "doneIfNone" -> IF found = {} THEN "ok" ELSE ""
    [] op = "doneIfSome" -> IF found # {} THEN "ok" ELSE ""
    [] op = "doneIfOwn" -> IF Own # {} THEN "ok" ELSE ""
    [] op = "doneUnlessOwn" -> IF Own = {} THEN "ok" ELSE ""
    [] op = "failIfKnown" -> IF mem[Key(k)] # NoId THEN "error" ELSE ""
    [] op = "done" -> "ok"
    [] op = "fail" -> "error"

Test ==
  /\ Due({"need", "needOwn", "failIfOwn", "deref", "doneIfNone", "doneIfSome", "doneIfOwn",
          "doneUnlessOwn", "failIfKnown", "done", "fail"})
  /\ LET v == Verdict(Now.op, Now.m) IN
     IF v = "" THEN Advance /\ UNCHANGED local ELSE Return(v)
  /\ UNCHANGED <<service, mem, known, faults>>

\* The service may list the records in any order.
Choose ==
  /\ Due({"pick", "ownOnly"})
  /\ IF Now.op = "ownOnly" THEN found' = Own /\ id' = id
     ELSE IF found = {} THEN found' = {} /\ id' = NoId
     ELSE \E r \in found : found' = {r} /\ id' = r.id
  /\ Advance /\ UNCHANGED <<service, seen, bad, mem, known, faults>>

\* The provider's map of identifiers.  An entry whose identifier is not one of a
\* record (a zone, a domain) is the entry 99.
Lookup ==
  /\ Due({"remember", "forget", "recall", "recallOrDone", "recallOrZero"})
  /\ LET k == Key(Now.m) IN
     CASE Now.op = "remember" ->
            /\ mem' = [mem EXCEPT ![k] = IF id = NoId THEN 99 ELSE id]
            /\ Advance /\ UNCHANGED local
       [] Now.op = "forget" ->
            mem' = [mem EXCEPT ![k] = NoId] /\ Advance /\ UNCHANGED local
       [] OTHER ->
            /\ mem' = mem
            /\ IF mem[k] # NoId \/ Now.op = "recallOrZero"
               THEN id' = mem[k] /\ Advance /\ UNCHANGED <<found, seen, bad>>
               ELSE Return(IF Now.op = "recall" THEN "error" ELSE "ok")
  /\ UNCHANGED <<service, known, faults>>

\* A cached answer; a token may have expired.
Cached ==
  /\ Due({"once", "token"}) /\ Now.m \in known
  /\ Advance /\ UNCHANGED <<service, local, mem, known, faults>>

-----------------------------------------------------------------------------
(* Steps that make a request.                                               *)
Remote == Writes \cup Reads \cup {"publish", "clone", "swap"}

\* A loop without a record left makes no request.
LoopOver ==
  /\ Due(Loops) /\ found = {}
  /\ Advance /\ UNCHANGED <<service, local, mem, known, faults>>

\* The record whose turn it is: the order is the service's.
First(rs) == CHOOSE r \in rs : TRUE
Newest(rs) == {r \in rs : \A q \in rs : q.id <= r.id}

\* The records a delete is aimed at.
Target(op) ==
  CASE op \in Loops -> {r \in Work : r.id = First(found).id}
    [] op = "deleteOwn" -> {r \in Work : r.val = Ch}
    [] op = "deleteSet" -> Work
    [] OTHER -> {r \in Work : r.id = id}

Mine == Record(next, Ch)
Written(op) ==
  CASE op = "create" -> Work \cup {Mine}
    [] op = "replace" -> {Mine}
    [] op = "putMore" -> IF Own = {} THEN found \cup {Mine} ELSE found
    [] op = "putRest" -> found \ Own
    [] op = "roll" -> Newest(Work) \cup {Mine}
    [] OTHER -> Work \ Target(op)

\* What the service does when it carries the request out.
Serve(op) ==
  /\ CASE op \in Writes -> SetWork(Written(op))
       [] op = "publish" -> live' = draft /\ draft' = draft
       [] op = "clone" -> draft' = live /\ live' = live
       [] op = "swap" -> live' = draft /\ draft' = live
       [] OTHER -> UNCHANGED <<live, draft>>
  /\ next' = IF op \in Creates THEN next + 1 ELSE next

\* What the code takes from a good answer.
Take(op) ==
  /\ found' = CASE op = "list" -> Work
                [] op = "listOwn" -> {r \in Work : r.val = Ch}
                [] op \in Loops -> found \ {First(found)}
                [] OTHER -> found
  /\ id' = IF op \in Creates THEN next ELSE id
  /\ seen' = CASE op \in {"list", "listOwn"} -> Work [] op \in Writes -> Written(op) [] OTHER -> seen
  /\ known' = IF op \in {"once", "token"} THEN known \cup {Now.m} ELSE known
  /\ bad' = bad

\* What it makes of an error: the error is returned, kept or only logged.
Error ==
  IF Now.op = "deleteAll" \/ (Now.op = "deleteEach" /\ Now.tolerated)
  THEN /\ found' = found \ {First(found)} /\ bad' = (bad \/ Now.op = "deleteAll")
       /\ Stay /\ UNCHANGED <<seen, id>>
  ELSE IF Now.tolerated
  THEN /\ found' = IF Now.op \in {"list", "listOwn"} THEN {} ELSE found
       /\ Advance /\ UNCHANGED <<seen, id, bad>>
  ELSE Return("error")

Request ==
  /\ Due(Remote) /\ (Now.op \in Loops => found # {})
  /\ Now.op = "once" => Now.m \notin known

\* The version that goes with the request is out of date.
Outdated == Now.cas /\ Work # seen
\* A delete without a target is accepted by some services and refused by others,
\* as "notFound" where the client tells that answer from the other refusals.
Missing == Now.op \in Deletes /\ Target(Now.op) = {}

Answered ==
  /\ Request /\ ~Outdated
  /\ Serve(Now.op) /\ Take(Now.op)
  /\ IF Now.op \in Loops THEN Stay ELSE Advance
  /\ UNCHANGED <<mem, faults>>

\* A refusal, for a reason of the service's own unless the request itself is at
\* fault.  A refusal the code does not notice passes for a good answer.
Refused ==
  /\ Request
  /\ \E kind \in JudgeOf(Now.m).speaks :
       /\ kind = "notFound" => Missing
       /\ IF Outdated \/ (Missing /\ ("notFound" \in JudgeOf(Now.m).speaks => kind = "notFound"))
          THEN faults' = faults
          ELSE faults < MaxFaults /\ faults' = faults + 1
       /\ IF kind \in JudgeOf(Now.m).sees THEN Error
          ELSE /\ found' = IF Now.op \in {"list", "listOwn"} THEN {}
                           ELSE IF Now.op \in Loops THEN found \ {First(found)} ELSE found
               /\ IF Now.op \in Loops THEN Stay ELSE Advance
               /\ UNCHANGED <<seen, id, bad>>
  /\ UNCHANGED <<service, mem, known>>

\* The request is lost on the way.
Lost ==
  /\ Request /\ faults < MaxFaults /\ faults' = faults + 1
  /\ Error /\ UNCHANGED <<service, mem, known>>

\* The answer is lost: the service has carried the request out.
AnswerLost ==
  /\ Request /\ ~Outdated /\ Now.op \notin Reads
  /\ faults < MaxFaults /\ faults' = faults + 1
  /\ Serve(Now.op)
  /\ IF Now.retried THEN Stay /\ UNCHANGED local ELSE Error
  /\ UNCHANGED <<mem, known>>

\* acmedns: the account is in the storage, but unless the storage service has
\* set up the CNAME, Present returns ErrCNAMERequired.
Enroll ==
  /\ Due({"enroll"})
  /\ (Advance /\ UNCHANGED local) \/ Return("error")
  /\ known' = known \cup {"account"}
  /\ UNCHANGED <<service, mem, faults>>

\* Another program adds its record; a zone that was copied does not get it.
ForeignWrite ==
  /\ Running /\ Fn # "setup" /\ "g" \notin others /\ others' = others \cup {"g"}
  /\ live' = live \cup {Record(2, "g")}
  /\ draft' = IF UsesIn(code, {"clone"}) THEN draft ELSE draft \cup {Record(2, "g")}
  /\ UNCHANGED <<provider, code, calls, pc, next, local, mem, known, result, faults>>

Next ==
  \/ End \/ Skip \/ Test \/ Choose \/ Lookup \/ Cached \/ LoopOver
  \/ Answered \/ Refused \/ Lost \/ AnswerLost \/ Enroll \/ ForeignWrite
  \/ calls = <<>> /\ UNCHANGED vars

Spec == Init /\ [][Next]_vars
-----------------------------------------------------------------------------
(* Properties.  Each holds for every provider but the named ones, and each  *)
(* name was put on a list because the property fails for it.                *)
Up(v) == \E r \in live : r.val = v
But(exceptions) == provider \notin exceptions

\* When Present returns nil, the value is in the zone: a request that was
\* refused or lost never passes for one that was carried out.  glesys does not
\* look at the status in the body of the answer.
PresentPublishes ==
  [][But({"glesys"}) =>
     \A c \in Challenges : result.present[c] = "none" /\ result'.present[c] = "ok" => Up(c)']_vars

\* The values of example.com and *.example.com are in the zone together: from
\* the return of its Present until the first CleanUp, no step for the other
\* challenge takes a value out of the zone, not even for a moment.  rcodezero
\* and ultradns write the record set anew without being Sequential, and gcloud
\* takes the set down before it puts the longer one up.
BothStayUp ==
  But({"gcloud", "glesys", "rcodezero", "ultradns"}) =>
    \A c \in Challenges :
      /\ result.present[c] = "ok" /\ ~(Running /\ Fn = "cleanup")
      /\ \A x \in Challenges : result.cleanup[x] = "none"
      => Up(c)

\* A TXT record that was at the name before the command is still there: the
\* command removes its own records and no other.
StandingStays == But(TakesOver) /\ "f" \in others => Up("f")

\* So is a record that another program adds while the command runs: no list that
\* was read before is written back over it.
LateStays == But(TakesOver \cup ReadModifyWrite) /\ "g" \in others => Up("g")

\* When CleanUp returns nil, nothing of the challenge is left in the zone, also
\* when the answer to the request that created it was lost, or Present failed.
CleanUpOkMeansGone ==
  But(LeavesBehind) => \A c \in Challenges : result.cleanup[c] = "ok" => ~Up(c)

\* With every request carried out and no second writer, both CleanUps succeed,
\* also the one that finds the set of the name gone or cut down by the other.
\* nicmanager always returns an error, rackspace does when the name has several
\* records, and the others delete the set of the name twice.
CleanUpWorks ==
  /\ But({"nicmanager", "rackspace", "azure_private", "azure_public", "azuredns_private",
          "azuredns_public", "bindman", "dyn", "f5xc", "huaweicloud", "loopia", "ns1",
          "rcodezero", "stackpath", "ultradns", "versio"})
  /\ faults = 0 /\ "g" \notin others /\ \A c \in Challenges : result.present[c] = "ok"
  => \A c \in Challenges : result.cleanup[c] \in {"none", "ok"}

\* Types; identifiers of records are unique, and CleanUp comes after Present.
TypeOK ==
  /\ provider \in DOMAIN Providers
  /\ calls \in Seq([fn : {"setup", "present", "cleanup"}, ch : Challenges]) /\ pc \in 1..30
  /\ \A rs \in {live, draft, found, seen} :
       rs \subseteq [id : 1..next, val : Challenges \cup Foreign]
  /\ \A r, q \in live : r.id = q.id => r = q
  /\ result \in [{"setup", "present", "cleanup"} -> [Challenges -> {"none", "ok", "error", "panic"}]]
  /\ \A c \in Challenges : result.cleanup[c] # "none" => result.present[c] # "none"
  /\ mem \in [{"a", "b", "name"} -> Nat] /\ faults \in 0..MaxFaults /\ others \subseteq Foreign
=============================================================================
