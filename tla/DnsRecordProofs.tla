-------------------------- MODULE DnsRecordProofs --------------------------
(***************************************************************************)
(* The records of a challenge (module DnsProvider), for every table of      *)
(* programs and any number of refused or lost requests: which steps add and *)
(* remove them, how many there can be, and what the identifier that Present *)
(* remembers stands for.                                                    *)
(***************************************************************************)
EXTENDS DnsProviderProofs

\* The time the provers have for a step that names none of them.
USE ZenonT(20), SMTT(30)

-----------------------------------------------------------------------------
(* A rule step by step.                                                     *)

\* A rule of the form "some step of J, and since then only steps of K".
LEMMA Since ==
  ASSUME NEW J, NEW K, NEW i \in Nat \ {0}, NEW j \in 1..i, j \in J, \A k \in (j + 1)..i : k \in K
  PROVE  \/ i \in J
         \/ i \in K /\ \E h \in 1..(i - 1) : h \in J /\ \A k \in (h + 1)..(i - 1) : k \in K
OBVIOUS

\* Where it is that of the record just written.
LEMMA NamedStep ==
  ASSUME NEW p, NEW prog, NEW i \in Nat \ {0}, Named(p, prog, i + 1)
  PROVE  \/ prog[i].op \in Creates /\ prog[i].cond = "always" /\ Heeded(p, prog[i])
         \/ Named(p, prog, i) /\ prog[i].op \notin Gets
<1> DEFINE J == {j \in Nat : prog[j].op \in Creates /\ prog[j].cond = "always" /\ Heeded(p, prog[j])}
           K == {k \in Nat : prog[k].op \notin Gets}
<1>1. PICK j \in 1..i : j \in J /\ \A k \in (j + 1)..i : k \in K
  BY DEF Named
<1>2. i \in J \/ (i \in K /\ \E h \in 1..(i - 1) : h \in J /\ \A k \in (h + 1)..(i - 1) : k \in K)
  BY <1>1, Since
<1> QED BY <1>2 DEF Named

-----------------------------------------------------------------------------
(* What a step does to the records with the value.                          *)

\* What a step that is passed, carried out or left out takes in hand,
Taken ==
  /\ Now.op \notin Alters => found' = found
  /\ Now.op \in {"list", "listOwn"} /\ Heeded(code, Now) =>
       (\A r \in Work : r.val = Ch => r \in found') \/ (Now.cond # "always" /\ found' = found)
  /\ Now.op = "ownOnly" => Own \subseteq found'
  /\ Now.op = "pick" =>
       \/ Now.cond # "always" /\ UNCHANGED <<found, id>>
       \/ found = {} /\ found' = {}
       \/ \E r \in found : found' = {r} /\ id' = r.id
  /\ Now.op \in Loops => found' = found /\ (Now.cond = "always" => found = {})
  /\ Now.op \in {"done", "fail"} => ~Holds(Now.cond)
  /\ found' \subseteq found \cup Work

\* takes out of the copy that is edited, or puts into service,
Erased ==
  /\ Minded(code, Now) /\ Holds(Now.cond) =>
       /\ Now.op \in Deletes \ Loops => Work' = Work \ Target(Now.op)
       /\ Now.op = "putRest" => Work' = found \ Own
  /\ Now.op = "publish" /\ Now.cond = "always" /\ Heeded(code, Now) => live' = draft /\ draft' = draft

\* and keeps of identifiers.
Noted ==
  /\ Now.op \notin Gets => id' = id
  /\ Now.op \in Creates /\ Now.cond = "always" /\ Heeded(code, Now) => id' = next
  /\ Now.op = "recall" /\ Now.cond = "always" => id' = mem[Key(Now.m)] /\ id' # NoId
  /\ \/ mem' = mem
     \/ Now.op = "forget" /\ mem' = [mem EXCEPT ![Key(Now.m)] = NoId]
     \/ Now.op = "remember" /\ mem' = [mem EXCEPT ![Key(Now.m)] = IF id = NoId THEN 99 ELSE id]

\* Where a call may return nil.
Finished ==
  /\ UNCHANGED <<live, draft>>
  /\ ~At => ~bad
  /\ At => /\ Now.op \in EarlyOk /\ Holds(Now.cond)
           /\ Now.op = "doneIfNone" => found = {}
           /\ Now.op = "doneUnlessOwn" => Own = {}

\* A request of a loop is for a record in hand.
Acted == Served /\ (Now.op \in Loops /\ found = {} => UNCHANGED <<live, draft>>)

\* The program goes on; it goes round in a loop, or a request is sent again; the
\* call returns.
Passed == At /\ Advance /\ Acted /\ Taken /\ Erased /\ Noted /\ UNCHANGED bad
Again ==
  /\ At /\ Stay /\ Acted /\ UNCHANGED <<id, mem>> /\ found' \subseteq found
  /\ Now.op \in Loops \/ (Now.retried /\ UNCHANGED <<found, bad>>)
  /\ (bad => bad') /\ (bad' => bad \/ Now.op = "deleteAll")
  /\ Now.op \in Loops /\ Minded(code, Now) => bad' \/ found \cap Work' \subseteq found'
Over ==
  /\ Running /\ mem' = mem /\ (UNCHANGED <<live, draft>> \/ (At /\ Acted))
  /\ \E r \in {"ok", "error", "panic"} : Return(r) /\ (r = "ok" => Finished)

Change == Passed \/ Again \/ Over \/ ForeignWrite \/ UNCHANGED vars

\* What is deleted is taken out.
LEMMA Deleting ==
  ASSUME SetWork(Written(Now.op)), UNCHANGED code
  PROVE  /\ Now.op \in Deletes => Work' = Work \ Target(Now.op)
         /\ Now.op = "putRest" => Work' = found \ Own
BY DEF SetWork, Work, Staged, Written, Deletes, Loops

\* A round of a loop is for the first record.
LEMMA LoopTarget ==
  ASSUME Now.op \in Loops
  PROVE  Target(Now.op) = {r \in Work : r.id = First(found).id}
BY DEF Target, Loops

\* A write that is carried out.
LEMMA Carrying ==
  ASSUME Now.op \in Writes, Serve(Now.op)
  PROVE  SetWork(Written(Now.op))
BY DEF Serve, Writes, Deletes, Creates, Loops

\* The last step is done.
LEMMA EndChanges ==
  ASSUME IInv, End
  PROVE  Over
BY SMTT(30), Programmed DEF End, service, IInv, Typed, At, Over, Finished

\* A step is left out.
LEMMA SkipChanges ==
  ASSUME IInv, Skip
  PROVE  Passed
<1>1. UNCHANGED <<code, live, draft, found, id, bad, mem>> /\ At /\ Advance /\ ~Holds(Now.cond)
  BY DEF Skip, Advance, service, local
<1>2. Now.cond # "always"
  BY ZenonT(30), <1>1 DEF Holds
<1>3. Taken
  BY <1>1, <1>2 DEF Taken, Own
<1>4. Erased /\ Noted
  BY <1>1, <1>2 DEF Erased, Noted
<1> QED BY <1>1, <1>3, <1>4 DEF Passed, Acted, Served

\* A test is passed, or the call returns.
LEMMA TestChanges ==
  ASSUME IInv, Test
  PROVE  Change
<1>1. UNCHANGED <<live, draft, mem>> /\ At /\ Running /\ Holds(Now.cond)
  BY DEF Test, Due, service, At
<1>2. CASE Verdict(Now.op, Now.m) = ""
  <2>1. Advance /\ UNCHANGED <<found, id, bad>>
    BY <1>2 DEF Test, local
  <2>2. Now.op \notin {"done", "fail"}
    BY <1>2 DEF Verdict
  <2>3. Now.op \notin Alters \cup Gets \cup Deletes \cup {"putRest", "publish"}
    BY DEF Test, Due, Alters, Gets, Creates, Deletes, Loops
  <2>4. Taken
    BY <2>1, <2>2, <2>3 DEF Taken, Alters
  <2>5. Erased /\ Noted
    BY <1>1, <2>1, <2>3 DEF Erased, Noted, Gets
  <2> QED BY <1>1, <2>1, <2>4, <2>5 DEF Passed, Acted, Served, Change
<1>3. CASE Verdict(Now.op, Now.m) # ""
  BY <1>3, <1>1 DEF Test, Verdict, Due, EarlyOk, Over, Finished, Change
<1> QED BY <1>2, <1>3

\* One record is picked, or those with the value.
LEMMA ChooseChanges ==
  ASSUME IInv, Choose
  PROVE  Passed
<1>1. /\ UNCHANGED <<live, draft, bad, mem>> /\ At /\ Advance /\ Now.op \in {"pick", "ownOnly"}
  BY DEF Choose, Due, service
<1>2. Taken
  BY <1>1 DEF Choose, Taken, Alters, Own, Loops
<1>3. Erased /\ Noted
  BY <1>1 DEF Choose, Erased, Noted, Deletes, Gets, Creates, Loops
<1> QED BY <1>1, <1>2, <1>3 DEF Passed, Acted, Served

\* The map of identifiers is asked.
LEMMA LookupChanges ==
  ASSUME IInv, Lookup
  PROVE  Change
<1>1. /\ UNCHANGED <<live, draft>> /\ At /\ Running /\ Holds(Now.cond)
      /\ Now.op \in {"remember", "forget", "recall", "recallOrDone", "recallOrZero"}
  BY DEF Lookup, Due, service, At
<1>2. Erased
  BY <1>1 DEF Erased, Deletes, Loops
<1>3. found' = found => Taken
  BY <1>1 DEF Taken, Alters, Loops
<1>4. CASE Now.op \in {"remember", "forget"}
  BY <1>4, <1>1, <1>2, <1>3 DEF Lookup, local, Noted, Creates, Passed, Acted, Served,
     Change
<1>5. CASE Now.op \notin {"remember", "forget"}
  BY <1>5, <1>1, <1>2, <1>3 DEF Lookup, Noted, Gets, Creates, Passed, Acted, Served,
     Change, Finished, EarlyOk, Over
<1> QED BY <1>4, <1>5

\* A cached answer, and the end of a loop.
LEMMA CachedChanges ==
  ASSUME IInv, Cached \/ LoopOver
  PROVE  Passed
<1>1. /\ UNCHANGED <<live, draft, found, id, bad, mem>> /\ At /\ Advance
      /\ Now.op \in {"once", "token"} \/ (Now.op \in Loops /\ found = {})
  BY DEF Cached, LoopOver, Due, service, local
<1>2. Taken
  BY <1>1 DEF Taken, Alters, Loops
<1>3. Erased /\ Noted
  BY <1>1 DEF Erased, Noted, Deletes, Loops, Creates
<1> QED BY <1>1, <1>2, <1>3 DEF Passed, Acted, Served

\* An error ends the call, a round of a loop, or a step whose error is dropped.
LEMMA ErrorChanges ==
  ASSUME IInv, Request, Error, Acted, UNCHANGED mem
  PROVE  Change
<1>1. At /\ Running /\ Now.op \in Remote
  BY DEF Request, Due, At
<1>2. CASE Now.op = "deleteAll" \/ (Now.op = "deleteEach" /\ Now.tolerated)
  <2>1. found' \subseteq found /\ Stay /\ UNCHANGED id /\ Now.op \in Loops /\ bad' = (bad \/ Now.op = "deleteAll")
    BY <1>2 DEF Error, Loops
  <2>2. Minded(code, Now) => bad'
    BY ZenonT(30), <1>2, <2>1 DEF Minded
  <2>3. (bad => bad') /\ (bad' => bad \/ Now.op = "deleteAll")
    BY ZenonT(30), <2>1
  <2> QED BY <1>1, <2>1, <2>2, <2>3 DEF Again, Change
<1>3. CASE ~(Now.op = "deleteAll" \/ (Now.op = "deleteEach" /\ Now.tolerated)) /\ Now.tolerated
  <2>1. /\ Advance /\ UNCHANGED <<id, bad>>
        /\ found' = IF Now.op \in {"list", "listOwn"} THEN {} ELSE found
    BY <1>3 DEF Error
  <2>2. Now.op \notin Loops /\ ~Heeded(code, Now) /\ ~Minded(code, Now)
    BY <1>3 DEF Loops, Heeded, Minded
  <2>3. Now.op \notin {"pick", "ownOnly", "done", "fail", "recall"}
    BY <1>1 DEF Remote, Writes, Deletes, Creates, Reads, Loops
  <2>4. Taken
    BY <2>1, <2>2, <2>3 DEF Taken, Alters
  <2>5. Erased /\ Noted
    BY <2>1, <2>2, <2>3 DEF Erased, Noted
  <2> QED BY <1>1, <2>1, <2>4, <2>5 DEF Passed, Change
<1>4. CASE ~(Now.op = "deleteAll" \/ (Now.op = "deleteEach" /\ Now.tolerated)) /\ ~Now.tolerated
  BY <1>4, <1>1 DEF Error, Over, Change
<1> QED BY <1>2, <1>3, <1>4

\* A good answer.
LEMMA AnsweredChanges ==
  ASSUME IInv, Answered
  PROVE  Change
<1>1. /\ At /\ Running /\ Now.op \in Remote /\ Request /\ Serve(Now.op) /\ Take(Now.op)
      /\ mem' = mem /\ code' = code /\ Holds(Now.cond) /\ bad' = bad
  BY DEF Answered, Request, Due, At, Stay, Advance, Take
<1>2. Acted
  BY <1>1 DEF Acted, Served, Request
<1>3. Now.op \in Writes => SetWork(Written(Now.op))
  BY ZenonT(30), <1>1, Carrying
<1>4. CASE Now.op \in Loops
  BY SMTT(30), <1>1, <1>4, FirstIn, <1>3, Deleting, LoopTarget, <1>2 DEF Answered, Take, Loops,
     Creates, Request, IInv, Typed, Writes, Deletes, Again, Change
<1>5. CASE Now.op \notin Loops
  <2>1. Advance
    BY <1>5 DEF Answered
  <2>2. /\ Now.op = "list" => found' = Work
        /\ Now.op = "listOwn" => found' = {r \in Work : r.val = Ch}
        /\ Now.op \notin {"list", "listOwn"} => found' = found
    BY <1>1, <1>5 DEF Take
  <2>3. Now.op \notin {"pick", "ownOnly", "done", "fail", "recall", "recallOrDone", "recallOrZero"}
    BY <1>1 DEF Remote, Writes, Deletes, Creates, Reads, Loops
  <2>4. Taken
    BY <1>5, <2>2, <2>3 DEF Taken, Alters
  <2>5. Erased
    BY <1>1, <1>3, Deleting DEF Serve, Writes, Deletes, Creates, Loops, Erased
  <2>6. Noted
    BY <1>1, <2>3 DEF Take, Noted, Gets
  <2> QED BY <1>1, <1>2, <2>1, <2>4, <2>5, <2>6 DEF Passed, Change
<1> QED BY <1>4, <1>5

\* A refusal.  One that passes for a good answer and is minded says that there is
\* nothing to delete.
LEMMA RefusedChanges ==
  ASSUME IInv, Refused
  PROVE  Change
<1>1. At /\ Now.op \in Remote /\ Request /\ UNCHANGED <<live, draft, mem>>
  BY ZenonT(30) DEF Refused, Request, Due, service
<1>2. PICK kind \in JudgeOf(Now.m).speaks :
        /\ kind = "notFound" => Missing
        /\ IF kind \in JudgeOf(Now.m).sees THEN Error
           ELSE /\ found' = IF Now.op \in {"list", "listOwn"} THEN {}
                            ELSE IF Now.op \in Loops THEN found \ {First(found)} ELSE found
                /\ IF Now.op \in Loops THEN Stay ELSE Advance
                /\ UNCHANGED <<id, bad>>
  BY DEF Refused
<1>3. Acted
  BY <1>1 DEF Acted, Served
<1>4. CASE kind \in JudgeOf(Now.m).sees
  BY <1>1, <1>2, <1>3, <1>4, ErrorChanges
<1>5. CASE kind \notin JudgeOf(Now.m).sees
  <2>1. ~Heeded(code, Now)
    BY <1>2, <1>5 DEF Heeded, JudgeIn, JudgeOf, Missing
  <2>2. Minded(code, Now) => Now.op \in Deletes /\ Target(Now.op) = {}
    BY <1>2, <1>5 DEF Minded, JudgeIn, JudgeOf, Missing
  <2>3. Work' = Work
    <3>1. code' = code
      BY <1>2, <1>5 DEF Stay, Advance
    <3> QED BY <1>1, <3>1 DEF Work, Staged
  <2>4. CASE Now.op \in Loops
    <3>1. found' = found \ {First(found)} /\ Stay /\ UNCHANGED <<id, bad>>
      BY <1>2, <1>5, <2>4 DEF Loops
    <3>2. Minded(code, Now) => found \cap Work' \subseteq found'
      BY <2>2, <2>3, <2>4, <3>1, LoopTarget
    <3> QED BY <1>1, <1>3, <2>4, <3>1, <3>2 DEF Again, Change
  <2>5. CASE Now.op \notin Loops
    <3>1. /\ Advance /\ UNCHANGED <<id, bad>>
          /\ found' = IF Now.op \in {"list", "listOwn"} THEN {} ELSE found
      BY <1>2, <1>5, <2>5
    <3>2. Now.op \notin {"pick", "ownOnly", "done", "fail", "recall"}
      BY <1>1 DEF Remote, Writes, Deletes, Creates, Reads, Loops
    <3>3. Taken
      BY <2>1, <2>5, <3>1, <3>2 DEF Taken, Alters
    <3>4. Erased
      BY <2>1, <2>2, <2>3 DEF Erased, Deletes, Loops
    <3>5. Noted
      BY <1>1, <2>1, <3>1, <3>2 DEF Noted
    <3> QED BY ZenonT(30), <1>1, <1>3, <3>1, <3>3, <3>4, <3>5 DEF Passed, Change
  <2> QED BY ZenonT(30), <2>4, <2>5
<1> QED BY <1>4, <1>5

\* A request, or its answer, is lost.
LEMMA LostChanges ==
  ASSUME IInv, Lost \/ AnswerLost
  PROVE  Change
BY ErrorChanges DEF Lost, service, Acted, Served, AnswerLost, Request, Due, local, Again,
   Change

\* The account of acme-dns is stored.
LEMMA EnrollChanges ==
  ASSUME IInv, Enroll
  PROVE  Change
<1>1. At /\ Running /\ Now.op = "enroll" /\ UNCHANGED <<live, draft, mem>>
  BY DEF Enroll, Due, service, At
<1>2. CASE Advance /\ UNCHANGED local
  BY <1>2, <1>1 DEF local, Taken, Erased, Noted, Alters, Deletes, Loops, Creates, Passed,
     Acted, Served, Change
<1>3. CASE Return("error")
  BY <1>1, <1>3 DEF Over, Change
<1> QED BY <1>2, <1>3 DEF Enroll

\* Every step is one of these.
LEMMA Changes ==
  ASSUME IInv, [Next]_vars
  PROVE  Change
BY EndChanges, SkipChanges, TestChanges, ChooseChanges, LookupChanges, CachedChanges, AnsweredChanges,
   RefusedChanges, LostChanges, EnrollChanges DEF Next, Change

-----------------------------------------------------------------------------
(* The records of the zone, of the copy and in hand.                        *)

Pool == live \cup draft \cup found
Lacks(rs, c) == \A r \in rs : r.val # c

\* A provider that does not stage has no copy of its own.
DraftIsLive == ~Staged => draft = live
UniqueIds == \A r, q \in Pool : r.id = q.id => r = q

\* A write takes its records from those there are, and adds at most one.
LEMMA WrittenFrom ==
  /\ Written(Now.op) \subseteq Work \cup found \cup {Mine}
  /\ Now.op \notin Creates => Written(Now.op) \subseteq Work \cup found
BY DEF Newest, Written, Creates

\* A step that makes a request adds at most the record it was to create.
LEMMA ServedPool ==
  ASSUME Served
  PROVE  \/ live' \cup draft' \subseteq Pool
         \/ Now.op \in Creates /\ Holds(Now.cond) /\ live' \cup draft' \subseteq Pool \cup {Mine}
BY Carrying, WrittenFrom DEF Pool, Work, SetWork, Serve, Served

\* What a step adds: nothing, the record of the other writer, or its own.
LEMMA PoolStep ==
  ASSUME Change
  PROVE  \/ Pool' \subseteq Pool
         \/ ForeignWrite /\ Pool' \subseteq Pool \cup {Late}
         \/ At /\ ~ForeignWrite /\ Now.op \in Creates /\ Holds(Now.cond) /\ Pool' \subseteq Pool \cup {Mine}
<1>1. CASE ForeignWrite
  BY <1>1 DEF ForeignWrite, Late, local, Pool
<1>2. CASE UNCHANGED vars
  BY <1>2 DEF vars, service, local, Pool
<1>3. CASE Passed \/ Again \/ Over
  BY <1>3, ServedPool DEF Work, Passed, Taken, Again, Over, Return, Pool, Acted, Advance,
     Stay, ForeignWrite
<1> QED BY <1>1, <1>2, <1>3 DEF Change

\* The record a step adds has a number of its own.
LEMMA NewNumbers ==
  ASSUME IInv
  PROVE  /\ Pool \subseteq Numbered /\ \A r \in Pool : r.id # Mine.id
         /\ \A r \in Pool : r.id = Late.id => r = Late
         /\ Mine.val = Ch /\ Mine.id = next /\ Late.val \notin Challenges
BY SMTT(30) DEF IInv, Typed, Pool, Mine, Late, Record, Challenges, Numbered, Standing

\* So identifiers stay unique.
LEMMA UniqueIdsOK ==
  ASSUME IInv, UniqueIds, Change
  PROVE  UniqueIds'
BY PoolStep, NewNumbers DEF UniqueIds

\* The zone and the copy stay the same where nothing is staged.
LEMMA DraftIsLiveOK ==
  ASSUME IInv, DraftIsLive, Change
  PROVE  DraftIsLive'
<1>1. code' = code
  BY DEF Change, Passed, Advance, Again, Stay, Over, Return, ForeignWrite, vars
<1>2. SUFFICES ASSUME ~Staged PROVE draft' = live'
  BY <1>1 DEF DraftIsLive, Staged
<1>3. CASE ForeignWrite
  BY <1>2, <1>3 DEF Staged, StagesIn, UsesIn, DraftIsLive, ForeignWrite
<1>4. CASE UNCHANGED <<live, draft>>
  BY <1>2, <1>4 DEF DraftIsLive
<1>5. CASE At /\ Served /\ ~UNCHANGED <<live, draft>>
  BY <1>2, <1>5, Stages, Carrying DEF Served, IInv, SetWork, Serve, DraftIsLive
<1>6. UNCHANGED vars => UNCHANGED <<live, draft>>
  BY DEF vars, service
<1> QED BY <1>3, <1>4, <1>5, <1>6 DEF Change, Passed, Again, Over, Acted

-----------------------------------------------------------------------------
(* The one record of a challenge.                                           *)

Single ==
  CreatesOnce(code) => \A r, q \in Pool : r.val \in Challenges /\ r.val = q.val => r = q

\* Nothing has been written for the challenge, nor remembered.
Untouched(c) == Lacks(Pool, c) /\ (Remembers(code) => mem[c] = NoId)

\* So it is before its Present,
NotYet ==
  CreatesOnce(code) => \A c \in Challenges :
    result.present[c] = "none" /\ ~(Running /\ Fn = "present" /\ Ch = c) => Untouched(c)

\* and in Present until a step that writes it: if that had a condition on the list,
\* the condition still holds.
Wrought(j) ==
  /\ Program[j].op \in Creates
  /\ /\ ~Looping /\ Program[j].cond \in {"none", "some"}
     /\ \A k \in (j + 1)..(pc - 1) : Program[k].op \notin Alters
     => Holds(Program[j].cond)
Fresh ==
  CreatesOnce(code) /\ Running /\ Fn = "present" => Untouched(Ch) \/ \E j \in 1..(pc - 1) : Wrought(j)

\* What is remembered for a challenge is the identifier of its record.
Remembered ==
  Remembers(code) => \A c \in Challenges : mem[c] # NoId => \A r \in Pool : r.val = c => r.id = mem[c]
\* So is the identifier in hand after the write.
Labelled ==
  Remembers(code) /\ Running /\ Named(code, Program, pc) =>
    id # NoId /\ \A r \in Pool : r.val = Ch => r.id = id

\* Only a return changes the call and the results.
LEMMA SameProgram ==
  ASSUME Change
  PROVE  /\ code' = code
         /\ ~Over => /\ UNCHANGED <<calls, result>> /\ Running' = Running /\ Program' = Program
                     /\ Ch' = Ch /\ Fn' = Fn
BY SameCall DEF Change, Passed, Advance, Again, Stay, Over, Return, ForeignWrite, vars

\* A call has no result before it returns.
LEMMA ResultStep ==
  ASSUME IInv, Change, NEW f \in {"present", "cleanup"}, NEW c \in Challenges, result'[f][c] = "none"
  PROVE  result[f][c] = "none" /\ (Over => ~(Fn = f /\ Ch = c))
<1>1. CASE Over
  BY SMTT(30), <1>1, Programmed DEF Over, IInv, Return, Typed
<1>2. CASE ~Over
  BY <1>2, SameProgram
<1> QED BY <1>1, <1>2

\* Where the provider creates once, only Present creates.
LEMMA OnlyPresentAdds ==
  ASSUME IInv, Running, CreatesOnce(code), NEW k \in DOMAIN Program, Program[k].op \in Creates
  PROVE  Fn = "present" /\ Program = code.present
BY Programmed DEF CreatesOnce, Adds, Program, IInv

\* The same of the step that runs.
LEMMA PresentAdds ==
  ASSUME IInv, At, CreatesOnce(code), Now.op \in Creates
  PROVE  Fn = "present" /\ Program = code.present /\ ~Now.retried
<1>1. pc \in DOMAIN Program /\ Running /\ Now = Program[pc]
  BY AtStep DEF IInv, At, Now
<1>2. Fn = "present" /\ Program = code.present
  BY <1>1, OnlyPresentAdds
<1> QED BY <1>1, <1>2 DEF CreatesOnce

\* A step that remembers an identifier for the challenge comes after a write.
LEMMA RememberNamed ==
  ASSUME IInv, At, Remembers(code), Now.op = "remember", Key(Now.m) \in Challenges
  PROVE  /\ Named(code, Program, pc) /\ Key(Now.m) = Ch /\ Fn = "present"
         /\ \E j \in 1..(pc - 1) : Program[j].op \in Creates /\ Program[j].cond = "always"
<1>1. pc \in DOMAIN Program /\ Running /\ Now = Program[pc] /\ Program \in Programs(code) /\ Program \in Seq(Steps)
  BY AtStep, Programmed DEF IInv, At, Now
<1>2. Now.m \in ByToken /\ Key(Now.m) = Ch
  BY DEF Key, ByToken, Challenges
<1>3. Named(code, Program, pc)
  BY <1>1, <1>2 DEF Remembers
<1>4. PICK j \in 1..(pc - 1) : Program[j].op \in Creates /\ Program[j].cond = "always"
  BY <1>3 DEF Named
<1>5. j \in DOMAIN Program
  BY <1>1, <1>4
<1>6. Fn = "present"
  BY <1>1, <1>4, <1>5, OnlyPresentAdds DEF Remembers
<1> QED BY <1>2, <1>3, <1>4, <1>6

\* What a step changes in the map for the challenges.
LEMMA MemStep ==
  ASSUME IInv, Change, NEW c \in Challenges, mem'[c] # mem[c]
  PROVE  /\ Passed /\ mem[c] \in Nat
         /\ \/ mem'[c] = NoId
            \/ Now.op = "remember" /\ Key(Now.m) = c /\ mem'[c] = IF id = NoId THEN 99 ELSE id
<1>1. c \in Keys /\ mem \in [Keys -> Nat]
  BY DEF IInv, Typed, Keys, Challenges
<1>2. Passed
  BY DEF Change, Again, Over, ForeignWrite, vars
<1>3. \/ mem' = [mem EXCEPT ![Key(Now.m)] = NoId]
      \/ Now.op = "remember" /\ mem' = [mem EXCEPT ![Key(Now.m)] = IF id = NoId THEN 99 ELSE id]
  BY <1>2 DEF Passed, Noted
<1> QED BY <1>1, <1>2, <1>3

\* A challenge stays untouched while another call runs.
LEMMA UntouchedStep ==
  ASSUME IInv, Change, CreatesOnce(code), NEW c \in Challenges, Untouched(c),
         ~(At /\ Fn = "present" /\ Ch = c)
  PROVE  Untouched(c)'
BY PoolStep, PresentAdds, NewNumbers, MemStep, RememberNamed, SameProgram DEF Untouched,
   Lacks, Passed

\* No record of a challenge before its Present.
LEMMA NotYetOK ==
  ASSUME IInv, NotYet, Change
  PROVE  NotYet'
BY SameProgram, ResultStep, UntouchedStep DEF NotYet, At

\* A condition on the records in hand depends on nothing else.
LEMMA SameHolds ==
  ASSUME found' = found, Ch' = Ch, NEW c \in OnFound
  PROVE  Holds(c)' = Holds(c)
BY ZenonT(30) DEF Holds, OnFound

\* A step that writes the value finds the challenge untouched.
LEMMA CreateUntouched ==
  ASSUME IInv, Fresh, At, CreatesOnce(code), Now.op \in Creates, Holds(Now.cond)
  PROVE  Untouched(Ch)
<1>1. Running /\ Fn = "present" /\ Program = code.present /\ pc \in DOMAIN Program /\ Now = Program[pc]
  BY PresentAdds, AtStep DEF IInv, At, Now
<1> SUFFICES ASSUME NEW j \in 1..(pc - 1), Wrought(j) PROVE FALSE
  BY <1>1 DEF Fresh
<1>2. /\ {Now.cond, Program[j].cond} = {"none", "some"}
      /\ \A k \in (j + 1)..(pc - 1) : Program[k].op \notin Alters
  BY <1>1 DEF CreatesOnce, Wrought
<1>3. ~Looping
  BY DEF Looping, Creates, Loops
<1>4. Holds(Program[j].cond)
  BY <1>2, <1>3 DEF Wrought
<1>5. Holds("none") /\ Holds("some")
  BY <1>2, <1>4
<1> QED BY ZenonT(30), <1>5 DEF Holds

\* One step on, the mark of the write is still there.
LEMMA WroughtStep ==
  ASSUME IInv, Passed, NEW j \in 1..(pc - 1), Wrought(j)
  PROVE  \E h \in 1..(pc' - 1) : Wrought(h)'
BY SMTT(30), SameCall, SameHolds DEF Passed, Advance, IInv, Typed, Now, Looping, Alters, Taken,
   Wrought, OnFound

\* A step that writes the value leaves its mark.
LEMMA WroughtNow ==
  ASSUME IInv, Passed, Now.op \in Creates, Holds(Now.cond)
  PROVE  \E h \in 1..(pc' - 1) : Wrought(h)'
<1>1. /\ Program' = Program /\ Ch' = Ch /\ pc' = pc + 1 /\ pc \in Nat \ {0} /\ Now = Program[pc] /\ At
  BY SameCall DEF Passed, Advance, IInv, Typed, Now
<1>2. found' = found
  BY DEF Passed, Taken, Creates, Alters, Loops
<1>3. PICK j \in Nat : j = pc
  BY <1>1
<1>4. Program[j].cond \in {"none", "some"} => Holds(Program[j].cond)'
  BY <1>1, <1>2, <1>3, SameHolds DEF OnFound
<1>5. Wrought(j)'
  BY ZenonT(30), <1>1, <1>3, <1>4 DEF Wrought
<1>6. j \in 1..(pc' - 1)
  BY <1>1, <1>3
<1> QED BY <1>5, <1>6

\* Nor has it a result while it runs.
LEMMA Unfinished ==
  ASSUME Typed, Scheduled, Running
  PROVE  result[Fn][Ch] = "none" /\ result.cleanup[Ch] = "none"
<1> DEFINE n == Len(calls)
<1>1. n \in 1..5 /\ Fn = Plan[6 - n].fn /\ Ch = Plan[6 - n].ch
  BY Turn
<1>2. \A k \in 1..5 : (result[Plan[k].fn][Plan[k].ch] = "none") <=> (k > 5 - n)
  BY DEF Scheduled
<1> HIDE DEF n
<1>3. \A m \in 1..5 : 6 - m \in 1..5 /\ 6 - m > 5 - m
  OBVIOUS
<1>4. result[Fn][Ch] = "none"
  BY ZenonT(30), <1>1, <1>2, <1>3
<1>5. PICK k \in 1..5 : k >= 6 - n /\ Plan[k].fn = "cleanup" /\ Plan[k].ch = Ch
  BY <1>1 DEF Plan
<1>6. k > 5 - n
  BY <1>1, <1>5
<1> QED BY <1>2, <1>4, <1>5, <1>6

\* So it is when the program stays where it is.
LEMMA WroughtStay ==
  ASSUME IInv, Again \/ ForeignWrite \/ UNCHANGED vars, NEW j \in 1..(pc - 1), Wrought(j)
  PROVE  \E h \in 1..(pc' - 1) : Wrought(h)'
BY SameCall, SameHolds DEF Again, Stay, ForeignWrite, vars, Looping, At, Now, local,
   OnFound, Wrought

\* A step of Present leaves the challenge untouched, or a mark.
LEMMA UntouchedHere ==
  ASSUME IInv, Passed \/ Again \/ ForeignWrite \/ UNCHANGED vars, Running, Fn = "present",
         CreatesOnce(code), Untouched(Ch)
  PROVE  Untouched(Ch)' \/ \E h \in 1..(pc' - 1) : Wrought(h)'
<1>1. Change /\ code' = code /\ Ch' = Ch /\ Program' = Program /\ Ch \in Challenges
  BY SameCall, Programmed DEF Change, Passed, Advance, Again, Stay, ForeignWrite, vars, IInv
<1>2. CASE Now.op \in Creates /\ Holds(Now.cond) /\ At /\ ~ForeignWrite /\ ~UNCHANGED vars
  <2>1. Passed
    BY <1>2, PresentAdds DEF Again, Loops, Creates
  <2> QED BY <1>2, <2>1, WroughtNow
<1>3. CASE Remembers(code) /\ mem'[Ch] # mem[Ch] /\ mem'[Ch] # NoId
  <2>1. Passed /\ Now.op = "remember" /\ Key(Now.m) = Ch
    BY <1>1, <1>3, MemStep
  <2>2. PICK j \in 1..(pc - 1) : Program[j].op \in Creates /\ Program[j].cond = "always"
    BY <1>1, <1>3, <2>1, RememberNamed DEF Passed
  <2>3. Wrought(j)
    BY <2>2 DEF Wrought
  <2> QED BY <2>1, <2>3, WroughtStep
<1>4. CASE /\ ~(Now.op \in Creates /\ Holds(Now.cond) /\ At /\ ~ForeignWrite /\ ~UNCHANGED vars)
           /\ ~(Remembers(code) /\ mem'[Ch] # mem[Ch] /\ mem'[Ch] # NoId)
  <2>1. UNCHANGED vars => Pool' = Pool
    BY DEF vars, service, local, Pool
  <2>2. Pool' \subseteq Pool \cup {Late}
    BY <1>1, <1>4, <2>1, PoolStep
  <2>3. Lacks(Pool', Ch)
    BY <1>1, <2>2, NewNumbers DEF Untouched, Lacks
  <2>4. Remembers(code) => mem'[Ch] = NoId
    BY <1>4 DEF Untouched
  <2> QED BY <1>1, <2>3, <2>4 DEF Untouched, Lacks
<1> QED BY <1>2, <1>3, <1>4

\* At the start of Present the challenge is untouched, and it stays so until the
\* value is written.
LEMMA FreshOK ==
  ASSUME IInv, Typed', Scheduled', NotYet, Fresh, Change
  PROVE  Fresh'
<1>1. code' = code
  BY SameProgram
<1> SUFFICES ASSUME CreatesOnce(code), Running', Fn' = "present"
             PROVE  Untouched(Ch)' \/ \E j \in 1..(pc' - 1) : Wrought(j)'
  BY <1>1 DEF Fresh
<1>2. CASE Over
  <2>1. PICK c \in Challenges : c = Ch' /\ result'.present[c] = "none"
    <3>1. (Typed /\ Scheduled /\ Running => result[Fn][Ch] = "none" /\ Ch \in Challenges)'
      BY Unfinished, Programmed, PTL
    <3> QED BY <3>1
  <2>2. result.present[c] = "none" /\ ~(Fn = "present" /\ Ch = c)
    BY <1>2, <2>1, ResultStep
  <2>3. Untouched(c)'
    BY <2>2, UntouchedStep DEF NotYet
  <2> QED BY <2>1, <2>3 DEF Untouched, Lacks
<1>3. CASE ~Over
  <2>1. Running /\ Fn = "present" /\ Ch' = Ch /\ Program' = Program
    BY <1>3, SameProgram
  <2>2. Passed \/ Again \/ ForeignWrite \/ UNCHANGED vars
    BY <1>3 DEF Change
  <2>3. ASSUME NEW j \in 1..(pc - 1), Wrought(j) PROVE \E h \in 1..(pc' - 1) : Wrought(h)'
    BY <2>2, <2>3, WroughtStep, WroughtStay
  <2>4. CASE Untouched(Ch)
    BY <2>1, <2>2, <2>4, UntouchedHere
  <2> QED BY <2>1, <2>3, <2>4 DEF Fresh
<1> QED BY <1>2, <1>3

\* A step that adds a record adds the first of its challenge.
LEMMA FirstOfItsKind ==
  ASSUME IInv, Fresh, Change, CreatesOnce(code)
  PROVE  \/ Pool' \subseteq Pool \cup {Late}
         \/ /\ Pool' \subseteq Pool \cup {Mine} /\ At /\ Now.op \in Creates /\ Holds(Now.cond)
            /\ Untouched(Ch) /\ (Passed \/ Over)
<1>1. \/ Pool' \subseteq Pool \cup {Late}
      \/ At /\ ~ForeignWrite /\ Now.op \in Creates /\ Holds(Now.cond) /\ Pool' \subseteq Pool \cup {Mine}
  BY PoolStep
<1>2. UNCHANGED vars => Pool' = Pool
  BY DEF vars, service, local, Pool
<1>3. At /\ Now.op \in Creates => ~Again
  BY PresentAdds DEF Again, Loops, Creates
<1> QED BY <1>1, <1>2, <1>3, CreateUntouched DEF Change

\* So a challenge never has two.
LEMMA SingleOK ==
  ASSUME IInv, Fresh, Single, Change
  PROVE  Single'
<1>1. code' = code
  BY SameProgram
<1> SUFFICES ASSUME CreatesOnce(code), NEW r \in Pool', NEW q \in Pool', r.val \in Challenges, r.val = q.val
             PROVE  r = q
  BY <1>1 DEF Single
<1>2. CASE Pool' \subseteq Pool \cup {Late}
  BY <1>2, NewNumbers DEF Single
<1>3. CASE Pool' \subseteq Pool \cup {Mine} /\ Untouched(Ch)
  <2>1. \A x \in Pool : x.val # Mine.val
    BY <1>3, NewNumbers DEF Untouched, Lacks
  <2> QED BY <1>3, <2>1 DEF Single
<1> QED BY <1>2, <1>3, FirstOfItsKind

\* What is remembered stays right.
LEMMA RememberedOK ==
  ASSUME IInv, Fresh, Remembered, Labelled, Change
  PROVE  Remembered'
BY SMTT(30), SameProgram, MemStep, RememberNamed, PoolStep, NewNumbers, FirstOfItsKind DEF
   Remembered, Passed, At, Labelled, Creates, Untouched, Remembers

\* So does the identifier that a program keeps of its write.
LEMMA LabelledOK ==
  ASSUME IInv, Fresh, Labelled, Change
  PROVE  Labelled'
<1>1. code' = code
  BY SameProgram
<1>2. ~Over => Running' = Running /\ Program' = Program /\ Ch' = Ch
  BY SameProgram
<1> SUFFICES ASSUME Remembers(code), Running', Named(code, Program', pc')
             PROVE  id' # NoId /\ \A r \in Pool' : r.val = Ch' => r.id = id'
  BY <1>1 DEF Labelled
<1>3. CASE Over
  <2>1. pc' = 1
    BY <1>3 DEF Over, Return
  <2> QED BY <2>1 DEF Named
<1>4. ASSUME ~Over, Named(code, Program, pc), id' = id, Pool' \subseteq Pool \cup {Late}
      PROVE  id' # NoId /\ \A r \in Pool' : r.val = Ch' => r.id = id'
  <2>1. Running /\ Ch \in Challenges
    BY <1>2, <1>4, Programmed DEF IInv
  <2> QED BY <1>2, <1>4, <2>1, NewNumbers DEF Labelled
<1>5. CASE Passed
  <2>1. pc' = pc + 1 /\ Program' = Program /\ Ch' = Ch /\ pc \in Nat \ {0} /\ Now = Program[pc] /\ Running /\ At
    BY <1>5, SameCall DEF Passed, Advance, At, Now, IInv, Typed
  <2>2. \/ Now.op \in Creates /\ Now.cond = "always" /\ Heeded(code, Now)
        \/ Named(code, Program, pc) /\ Now.op \notin Gets
    BY <2>1, NamedStep
  <2>3. CASE Now.op \in Creates /\ Now.cond = "always" /\ Heeded(code, Now)
    <3>1. id' = next /\ next # NoId
      BY SMTT(30), <1>5, <2>3 DEF Passed, Noted, IInv, Typed, NoId
    <3>2. Untouched(Ch)
      BY <2>1, <2>3, CreateUntouched DEF Holds, Remembers
    <3>3. Pool' \subseteq Pool \cup {Mine, Late} /\ Ch \in Challenges
      BY <2>1, PoolStep, Programmed DEF IInv
    <3> QED BY <2>1, <3>1, <3>2, <3>3, NewNumbers DEF Untouched, Lacks
  <2>4. CASE Named(code, Program, pc) /\ Now.op \notin Gets
    <3>1. id' = id /\ Pool' \subseteq Pool \cup {Late}
      BY <1>5, <2>4, PoolStep DEF Passed, Noted, Gets
    <3>2. ~Over
      BY SMTT(30), <1>5, <2>1 DEF Over, Return, Passed, Advance, IInv, Typed
    <3> QED BY <1>4, <2>4, <3>1, <3>2
  <2> QED BY <2>2, <2>3, <2>4
<1>6. CASE ~Over /\ ~Passed
  <2>1. id' = id /\ pc' = pc
    BY <1>6 DEF Change, Again, Stay, ForeignWrite, vars, local
  <2>2. Pool' \subseteq Pool \cup {Late}
    BY <1>6, FirstOfItsKind DEF Remembers
  <2> QED BY <1>2, <1>4, <1>6, <2>1, <2>2
<1> QED BY <1>3, <1>5, <1>6

-----------------------------------------------------------------------------
\* What is known of the records of a challenge.
RInv ==
  /\ SInv /\ UniqueIds /\ DraftIsLive
  /\ Single /\ NotYet /\ Fresh /\ Remembered /\ Labelled

\* It holds when the command starts: no record has the value of a challenge, and
\* nothing is remembered.
LEMMA RInitial == Init => RInv
<1> SUFFICES ASSUME Init PROVE RInv
  OBVIOUS
<1>1. SInv
  BY SInitial
<1>2. /\ Pool = {Record(1, v) : v \in others} /\ others \in {{}, {"f"}} /\ pc = 1 /\ draft = live
      /\ \A c \in Challenges : mem[c] = NoId
  BY DEF Init, Pool, Challenges
<1>3. \A r \in Pool : r = Standing
  BY <1>2 DEF Standing
<1>4. \A c \in Challenges : Untouched(c)
  BY SMTT(30), <1>2, <1>3 DEF Untouched, Lacks, Standing, Record, Challenges
<1>5. UniqueIds /\ DraftIsLive
  BY <1>2, <1>3 DEF UniqueIds, DraftIsLive
<1>6. Single /\ NotYet /\ Remembered
  BY <1>2, <1>3, <1>4 DEF Single, NotYet, Remembered
<1>7. Fresh
  BY <1>1, Programmed, <1>4 DEF SInv, IInv, Fresh
<1>8. Labelled
  BY SMTT(30), <1>2 DEF Labelled, Named
<1> QED BY <1>1, <1>5, <1>6, <1>7, <1>8 DEF RInv

\* Every step keeps it.
LEMMA RStep ==
  ASSUME RInv, [Next]_vars
  PROVE  RInv' /\ Change
<1>1. IInv /\ Barred /\ Change /\ SInv'
  BY Moves, Changes, SStep DEF RInv, SInv
<1>2. UniqueIds' /\ DraftIsLive' /\ Single' /\ NotYet'
  BY <1>1, UniqueIdsOK, DraftIsLiveOK, SingleOK, NotYetOK DEF RInv
<1>3. Fresh' /\ Remembered' /\ Labelled'
  BY <1>1, <1>2, FreshOK, RememberedOK, LabelledOK DEF RInv, SInv, IInv
<1> QED BY <1>1, <1>2, <1>3 DEF RInv

\* It holds in every state: the records of the zone, of the copy and in hand have
\* one identifier each; a challenge that was not presented has no record; a
\* provider that keeps to the rule has at most one for each challenge, and what it
\* remembers for the challenge is the identifier of that record.
THEOREM RInvariance == Spec => []RInv
BY RInitial, RStep, PTL DEF Spec

=============================================================================
