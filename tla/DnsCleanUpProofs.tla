-------------------------- MODULE DnsCleanUpProofs --------------------------
(***************************************************************************)
(* What CleanUp has done when it returns (module DnsProvider), for every    *)
(* table of programs and any number of refused or lost requests: nothing of *)
(* the challenge is left in the zone.                                       *)
(***************************************************************************)
EXTENDS DnsRecordProofs

\* The time the provers have for a step that names none of them.
USE ZenonT(20), SMTT(30)

-----------------------------------------------------------------------------
(* The rules step by step.                                                  *)

\* Where at most one record is in hand after a step.
LEMMA AloneStep ==
  ASSUME NEW prog, NEW i \in Nat \ {0}, Alone(prog, i + 1)
  PROVE  \/ prog[i].op = "fail" /\ prog[i].cond = "many"
         \/ Alone(prog, i) /\ prog[i].op \notin Alters
<1> DEFINE J == {j \in Nat : prog[j].op = "fail" /\ prog[j].cond = "many"}
           K == {k \in Nat : prog[k].op \notin Alters}
<1>1. PICK j \in 1..i : j \in J /\ \A k \in (j + 1)..i : k \in K
  BY SMTT(30) DEF Alone
<1>2. i \in J \/ (i \in K /\ \E h \in 1..(i - 1) : h \in J /\ \A k \in (h + 1)..(i - 1) : k \in K)
  BY SMTT(30), <1>1, Since
<1> QED BY <1>2 DEF Alone

\* Where all records with the value are.
LEMMA CoversStep ==
  ASSUME NEW p, NEW prog, NEW i \in Nat \ {0}, Covers(p, prog, i + 1)
  PROVE  \/ prog[i].op \in {"list", "listOwn"} /\ prog[i].cond = "always" /\ Heeded(p, prog[i])
         \/ /\ Covers(p, prog, i)
            /\ prog[i].op \in Alters =>
                 \/ prog[i].op \in {"list", "listOwn"} /\ Heeded(p, prog[i])
                 \/ prog[i].op \in Loops \cup {"ownOnly"}
                 \/ prog[i].op = "pick" /\ (Alone(prog, i) \/ (CreatesOnce(p) /\ Narrow(prog, i)))
<1> DEFINE J == {j \in Nat : prog[j].op \in {"list", "listOwn"} /\ prog[j].cond = "always" /\ Heeded(p, prog[j])}
           K == {k \in Nat : prog[k].op \in Alters =>
                   \/ prog[k].op \in {"list", "listOwn"} /\ Heeded(p, prog[k])
                   \/ prog[k].op \in Loops \cup {"ownOnly"}
                   \/ prog[k].op = "pick" /\ (Alone(prog, k) \/ (CreatesOnce(p) /\ Narrow(prog, k)))}
<1>1. PICK j \in 1..i : j \in J /\ \A k \in (j + 1)..i : k \in K
  BY SMTT(30) DEF Covers
<1>2. i \in J \/ (i \in K /\ \E h \in 1..(i - 1) : h \in J /\ \A k \in (h + 1)..(i - 1) : k \in K)
  BY SMTT(30), <1>1, Since
<1> QED BY <1>2 DEF Covers

\* Where a loop is over.
LEMMA EmptiedStep ==
  ASSUME NEW prog, NEW i \in Nat \ {0}, Emptied(prog, i + 1)
  PROVE  \/ prog[i].op \in Loops /\ prog[i].cond = "always"
         \/ Emptied(prog, i) /\ prog[i].op \notin Alters
<1> DEFINE J == {j \in Nat : prog[j].op \in Loops /\ prog[j].cond = "always"}
           K == {k \in Nat : prog[k].op \notin Alters}
<1>1. PICK j \in 1..i : j \in J /\ \A k \in (j + 1)..i : k \in K
  BY DEF Emptied
<1>2. i \in J \/ (i \in K /\ \E h \in 1..(i - 1) : h \in J /\ \A k \in (h + 1)..(i - 1) : k \in K)
  BY <1>1, Since
<1> QED BY <1>2 DEF Emptied

\* Where the identifier is that of the record in hand.
LEMMA PickedStep ==
  ASSUME NEW prog, NEW i \in Nat \ {0}, Picked(prog, i + 1)
  PROVE  \/ prog[i].op = "pick" /\ prog[i].cond = "always"
         \/ Picked(prog, i) /\ prog[i].op \notin Gets \cup Alters
<1> DEFINE J == {j \in Nat : prog[j].op = "pick" /\ prog[j].cond = "always"}
           K == {k \in Nat : prog[k].op \notin Gets \cup Alters}
<1>1. PICK j \in 1..i : j \in J /\ \A k \in (j + 1)..i : k \in K
  BY SMTT(30) DEF Picked
<1>2. i \in J \/ (i \in K /\ \E h \in 1..(i - 1) : h \in J /\ \A k \in (h + 1)..(i - 1) : k \in K)
  BY SMTT(30), <1>1, Since
<1> QED BY <1>2 DEF Picked

\* Where it is the one that was remembered.
LEMMA RecalledStep ==
  ASSUME NEW prog, NEW i \in Nat \ {0}, Recalled(prog, i + 1)
  PROVE  \/ prog[i].op = "recall" /\ prog[i].m \in ByToken /\ prog[i].cond = "always"
         \/ Recalled(prog, i) /\ prog[i].op \notin Gets
<1> DEFINE J == {j \in Nat : prog[j].op = "recall" /\ prog[j].m \in ByToken /\ prog[j].cond = "always"}
           K == {k \in Nat : prog[k].op \notin Gets}
<1>1. PICK j \in 1..i : j \in J /\ \A k \in (j + 1)..i : k \in K
  BY SMTT(30) DEF Recalled
<1>2. i \in J \/ (i \in K /\ \E h \in 1..(i - 1) : h \in J /\ \A k \in (h + 1)..(i - 1) : k \in K)
  BY SMTT(30), <1>1, Since
<1> QED BY <1>2 DEF Recalled

\* Where the value has been taken out.
LEMMA WipedStep ==
  ASSUME NEW p, NEW prog, NEW i \in Nat \ {0}, Wiped(p, prog, i + 1)
  PROVE  (Wipes(p, prog, i) /\ prog[i].cond = "always") \/ Wiped(p, prog, i)
BY DEF Wiped

\* Where it has been taken out if the condition held.
LEMMA WipedIfStep ==
  ASSUME NEW p, NEW prog, NEW c, NEW i \in Nat \ {0}, WipedIf(p, prog, i + 1, c)
  PROVE  \/ Wipes(p, prog, i) /\ prog[i].cond = c
         \/ WipedIf(p, prog, i, c) /\ prog[i].op \notin Alters
<1> DEFINE J == {j \in Nat : Wipes(p, prog, j) /\ prog[j].cond = c}
           K == {k \in Nat : prog[k].op \notin Alters}
<1>1. PICK j \in 1..i : j \in J /\ \A k \in (j + 1)..i : k \in K
  BY DEF WipedIf
<1>2. i \in J \/ (i \in K /\ \E h \in 1..(i - 1) : h \in J /\ \A k \in (h + 1)..(i - 1) : k \in K)
  BY <1>1, Since
<1> QED BY <1>2 DEF WipedIf

\* Where the copy without it has been put into service.
LEMMA WithdrawnStep ==
  ASSUME NEW p, NEW prog, NEW i \in Nat \ {0}, Withdrawn(p, prog, i + 1)
  PROVE  \/ prog[i].op = "publish" /\ prog[i].cond = "always" /\ Heeded(p, prog[i]) /\ Clear(p, prog, i)
         \/ Withdrawn(p, prog, i)
BY DEF Withdrawn

\* At the first step none of this is so.
LEMMA NothingYet ==
  ASSUME NEW p, NEW prog, NEW c
  PROVE  /\ ~Alone(prog, 1) /\ ~Covers(p, prog, 1) /\ ~Emptied(prog, 1) /\ ~Picked(prog, 1)
         /\ ~Recalled(prog, 1) /\ ~Named(p, prog, 1) /\ ~Wiped(p, prog, 1)
         /\ ~WipedIf(p, prog, 1, c) /\ ~Withdrawn(p, prog, 1)
BY DEF Alone, Covers, Emptied, Picked, Recalled, Named, Wiped, WipedIf, Withdrawn

-----------------------------------------------------------------------------
(* CleanUp at work.                                                         *)

\* CleanUp of a provider that keeps to the rule, before any error it keeps.
Sweeping == Running /\ Fn = "cleanup" /\ Clears(code) /\ ~bad

\* What the text of the program says of the records in hand, of the identifier
\* and of the zone is so.
Swept ==
  Sweeping =>
    /\ Covers(code, Program, pc) => \A r \in Work : r.val = Ch => r \in found
    /\ Emptied(Program, pc) => found = {}
    /\ Alone(Program, pc) => \A r, q \in found : r = q
    /\ Picked(Program, pc) => \A r \in found : r.id = id
    /\ Recalled(Program, pc) /\ Remembers(code) => \A r \in Pool : r.val = Ch => r.id = id
    /\ Wiped(code, Program, pc) => Lacks(Work, Ch)
    /\ \A c \in OnFound : WipedIf(code, Program, pc, c) /\ ~Looping /\ Holds(c) => Lacks(Work, Ch)
    /\ Staged /\ Withdrawn(code, Program, pc) => Lacks(live, Ch) /\ Lacks(draft, Ch)

\* Only a loop that goes on after an error keeps one.
Deferred == bad /\ Running => \E k \in DOMAIN Program : Program[k].op = "deleteAll"

\* It is kept by no other step.
LEMMA DeferredOK ==
  ASSUME IInv, Deferred, Change
  PROVE  Deferred'
<1>1. CASE Over
  BY <1>1 DEF Over, Return, Deferred
<1>2. CASE ~Over
  <2>1. Running' = Running /\ Program' = Program
    BY <1>2, SameProgram
  <2>2. bad' => bad \/ (At /\ Now.op = "deleteAll")
    BY ZenonT(30), <1>2 DEF Change, Passed, Again, ForeignWrite, vars, local
  <2>3. At => pc \in DOMAIN Program /\ Now = Program[pc]
    BY AtStep DEF IInv, Now
  <2> QED BY <2>1, <2>2, <2>3 DEF Deferred
<1> QED BY <1>1, <1>2

\* The rule for the program that runs.
LEMMA SweepingRule ==
  ASSUME IInv, Barred, Running, Fn = "cleanup", Clears(code)
  PROVE  /\ OutOfService(code, Program, Len(Program) + 1)
         /\ At => /\ Now.op \notin Creates \cup {"clone", "swap"}
                  /\ Now.op \in Loops => Minded(code, Now)
                  /\ Now.op \in EarlyOk =>
                       /\ \A k \in DOMAIN Program : Program[k].op # "deleteAll"
                       /\ \/ OutOfService(code, Program, pc)
                          \/ /\ Now.op = "done" /\ Now.cond \in OnFound
                             /\ WipedIf(code, Program, pc, Now.cond) /\ ~Staged
                          \/ /\ Now.op \in {"doneIfNone", "doneUnlessOwn"} /\ Covers(code, Program, pc)
                             /\ Staged => SparesDraft(code) /\ Undisturbed(Program, pc)
BY AtStep DEF Program, Barred, IInv, Now, Clears, Staged

\* No step of CleanUp brings the value back.
LEMMA ZoneShrinks ==
  ASSUME IInv, Barred, Sweeping, Change, ~Over
  PROVE  /\ \A r \in Work' : r.val = Ch => r \in Work
         /\ \A r \in live' \cup draft' : r.val = Ch => r \in live \cup draft
         /\ \A r \in Pool' : r.val = Ch => r \in Pool
<1>1. code' = code /\ Staged' = Staged /\ Running /\ Fn = "cleanup" /\ Clears(code) /\ Ch \in Challenges
  BY SameProgram, Programmed DEF Staged, Sweeping, IInv
<1>2. At => Now.op \notin Creates \cup {"clone", "swap"}
  BY <1>1, SweepingRule
<1>3. \A r \in Pool' : r.val = Ch => r \in Pool
  BY <1>2, PoolStep, <1>1, NewNumbers
<1>4. Work' = (IF Staged THEN draft' ELSE live') /\ Work \subseteq live \cup draft
  BY <1>1 DEF Work
<1>5. CASE ForeignWrite
  BY <1>5, <1>1, <1>3, <1>4, NewNumbers DEF ForeignWrite, Late, Work
<1>6. CASE UNCHANGED <<live, draft>>
  BY <1>3, <1>4, <1>6 DEF Work
<1>7. CASE At /\ Serve(Now.op) /\ Now.op \in Writes
  BY <1>7, Carrying, <1>2, <1>1, Deleting, <1>4, <1>3 DEF Writes, Own, SetWork
<1>8. CASE At /\ Serve(Now.op) /\ Now.op \notin Writes
  BY <1>2, <1>8, Stages, <1>3, <1>4 DEF Serve, IInv, Work
<1>9. UNCHANGED vars => UNCHANGED <<live, draft>>
  BY DEF vars, service
<1> QED BY <1>5, <1>6, <1>7, <1>8, <1>9 DEF Change, Passed, Again, Acted, Served

\* Where the rule finds the copy clear, it is.
LEMMA ClearLacks ==
  ASSUME Swept, Sweeping, ~Looping, Clear(code, Program, pc)
  PROVE  Lacks(Work, Ch)
<1> DEFINE cond(c) == WipedIf(code, Program, pc, c) /\ Holds(c)
<1>1. \A c \in OnFound : cond(c) => Lacks(Work, Ch)
  BY DEF Swept
<1>2. Covers(code, Program, pc) /\ found = {} => Lacks(Work, Ch)
  BY DEF Swept, Lacks
<1>3. /\ Holds("rest") \/ Holds("noRest")
      /\ found # {} => Holds("some") /\ (Holds("one") \/ Holds("many"))
  BY ZenonT(30) DEF Holds
<1>4. Wiped(code, Program, pc) => Lacks(Work, Ch)
  BY DEF Swept
<1>5. Emptied(Program, pc) => found = {}
  BY DEF Swept
<1> QED BY <1>1, <1>2, <1>3, <1>4, <1>5 DEF Clear, OnFound

\* A step that wipes leaves nothing of the value in the copy.
LEMMA WipeLacks ==
  ASSUME IInv, Swept, Sweeping, Passed, Wipes(code, Program, pc), Holds(Now.cond)
  PROVE  Lacks(Work', Ch)
BY DEF Wipes, Now, Passed, Erased, Target, Deletes, Loops, Lacks, Own, Work, Pool, Swept

\* At most one record is in hand, because of a test or because there is no second.
LEMMA OneInHand ==
  ASSUME IInv, Single, Swept, Sweeping,
         Alone(Program, pc) \/ (CreatesOnce(code) /\ Narrow(Program, pc))
  PROVE  \A r, q \in found : r = q
BY Programmed DEF Swept, Sweeping, InHand, IInv, Pool, Single

\* One step on, what is in hand is known again.
LEMMA PassedHand ==
  ASSUME IInv, Single, Swept, Barred, Sweeping, Passed
  PROVE  /\ Covers(code, Program, pc + 1) => \A r \in Work' : r.val = Ch => r \in found'
         /\ Emptied(Program, pc + 1) => found' = {}
         /\ Alone(Program, pc + 1) => \A r, q \in found' : r = q
<1>1. /\ Now = Program[pc] /\ pc \in Nat \ {0} /\ Taken /\ Change /\ ~Over /\ Running
  BY SMTT(30) DEF Sweeping, Now, IInv, Typed, Passed, Change, Over, Return, Advance
<1>2. \A r \in Work' : r.val = Ch => r \in Work
  BY <1>1, ZoneShrinks
<1>3. ASSUME Covers(code, Program, pc + 1) PROVE \A r \in Work : r.val = Ch => r \in found'
  <2>1. \/ Now.op \in {"list", "listOwn"} /\ Now.cond = "always" /\ Heeded(code, Now)
        \/ /\ Covers(code, Program, pc)
           /\ Now.op \in Alters =>
                \/ Now.op \in {"list", "listOwn"} /\ Heeded(code, Now)
                \/ Now.op \in Loops \cup {"ownOnly"}
                \/ Now.op = "pick" /\ (Alone(Program, pc) \/ (CreatesOnce(code) /\ Narrow(Program, pc)))
    BY <1>1, <1>3, CoversStep
  <2>2. Covers(code, Program, pc) => \A r \in Work : r.val = Ch => r \in found
    BY DEF Swept
  <2>3. CASE Now.op \in {"list", "listOwn"} /\ Heeded(code, Now)
    BY <1>1, <2>1, <2>2, <2>3 DEF Taken
  <2>4. CASE Covers(code, Program, pc) /\ found' = found
    BY <2>2, <2>4
  <2>5. CASE Covers(code, Program, pc) /\ Now.op = "ownOnly"
    BY <1>1, <2>2, <2>5 DEF Taken, Own
  <2>6. CASE /\ Covers(code, Program, pc) /\ Now.op = "pick"
             /\ Alone(Program, pc) \/ (CreatesOnce(code) /\ Narrow(Program, pc))
    <3>1. \A r, q \in found : r = q
      BY <1>1, <2>6, OneInHand
    <3>2. found' = found
      BY <1>1, <2>6, <3>1 DEF Taken
    <3> QED BY <2>2, <2>6, <3>2
  <2>7. Now.op \notin Alters \/ Now.op \in Loops => found' = found
    BY <1>1 DEF Taken
  <2> QED BY <2>1, <2>3, <2>4, <2>5, <2>6, <2>7
<1>4. Emptied(Program, pc + 1) => found' = {}
  <2>1. Emptied(Program, pc + 1) => (Now.op \in Loops /\ Now.cond = "always") \/ (Emptied(Program, pc) /\ Now.op \notin Alters)
    BY <1>1, EmptiedStep
  <2> QED BY <1>1, <2>1 DEF Taken, Swept
<1>5. ASSUME Alone(Program, pc + 1) PROVE \A r, q \in found' : r = q
  <2>1. (Now.op = "fail" /\ Now.cond = "many") \/ (Alone(Program, pc) /\ Now.op \notin Alters)
    BY <1>1, <1>5, AloneStep
  <2>2. Now.op = "fail" /\ Now.cond = "many" => ~Holds("many") /\ Now.op \notin Alters
    BY <1>1 DEF Taken, Alters, Loops
  <2>3. ~Holds("many") => \A r, q \in found : r = q
    BY DEF Holds
  <2>4. found' = found /\ \A r, q \in found : r = q
    BY <1>1, <2>1, <2>2, <2>3 DEF Taken, Swept
  <2> QED BY <2>4
<1> QED BY <1>2, <1>3, <1>4, <1>5

\* So is the identifier.
LEMMA PassedId ==
  ASSUME IInv, Remembered, Swept, Barred, Sweeping, Passed
  PROVE  /\ Picked(Program, pc + 1) => \A r \in found' : r.id = id'
         /\ Recalled(Program, pc + 1) /\ Remembers(code) => \A r \in Pool' : r.val = Ch => r.id = id'
<1>1. /\ Now = Program[pc] /\ pc \in Nat \ {0} /\ Taken /\ Noted /\ Change /\ ~Over /\ Running
  BY SMTT(30) DEF Sweeping, Now, IInv, Typed, Passed, Change, Over, Return, Advance
<1>2. ASSUME Picked(Program, pc + 1) PROVE \A r \in found' : r.id = id'
  <2>1. (Now.op = "pick" /\ Now.cond = "always") \/ (Picked(Program, pc) /\ Now.op \notin Gets \cup Alters)
    BY <1>1, <1>2, PickedStep
  <2>2. CASE Now.op = "pick" /\ Now.cond = "always"
    BY <1>1, <2>2 DEF Taken
  <2>3. CASE Picked(Program, pc) /\ Now.op \notin Gets \cup Alters
    BY <1>1, <2>3 DEF Taken, Noted, Swept
  <2> QED BY <2>1, <2>2, <2>3
<1>3. ASSUME Recalled(Program, pc + 1), Remembers(code) PROVE \A r \in Pool : r.val = Ch => r.id = id'
  <2>1. \/ Now.op = "recall" /\ Now.m \in ByToken /\ Now.cond = "always"
        \/ Recalled(Program, pc) /\ Now.op \notin Gets
    BY <1>1, <1>3, RecalledStep
  <2>2. CASE Now.op = "recall" /\ Now.m \in ByToken /\ Now.cond = "always"
    <3>1. Key(Now.m) = Ch /\ Ch \in Challenges
      BY <1>1, <2>2, Programmed DEF Key, ByToken, IInv
    <3>2. id' = mem[Ch] /\ mem[Ch] # NoId
      BY <1>1, <2>2, <3>1 DEF Noted
    <3> QED BY <1>3, <3>1, <3>2 DEF Remembered
  <2>3. CASE Recalled(Program, pc) /\ Now.op \notin Gets
    BY <1>1, <1>3, <2>3 DEF Noted, Swept
  <2> QED BY <2>1, <2>2, <2>3
<1> QED BY <1>1, <1>2, <1>3, ZoneShrinks

\* And so is the zone.
LEMMA PassedZone ==
  ASSUME IInv, Swept, Barred, Sweeping, Passed
  PROVE  /\ Wiped(code, Program, pc + 1) => Lacks(Work', Ch)
         /\ \A c \in OnFound : WipedIf(code, Program, pc + 1, c) /\ Holds(c)' => Lacks(Work', Ch)
         /\ Staged /\ Withdrawn(code, Program, pc + 1) => Lacks(live', Ch) /\ Lacks(draft', Ch)
<1>1. /\ Now = Program[pc] /\ pc \in Nat \ {0} /\ Taken /\ Erased /\ Change /\ ~Over /\ Running /\ Ch' = Ch
  BY SMTT(30), SameCall DEF Sweeping, Now, IInv, Typed, Passed, Change, Over, Return, Advance
<1>2. /\ Lacks(Work, Ch) => Lacks(Work', Ch)
      /\ Lacks(live, Ch) /\ Lacks(draft, Ch) => Lacks(live', Ch) /\ Lacks(draft', Ch)
  BY <1>1, ZoneShrinks DEF Lacks
<1>3. ASSUME Wiped(code, Program, pc + 1) PROVE Lacks(Work', Ch)
  <2>1. (Wipes(code, Program, pc) /\ Now.cond = "always") \/ Wiped(code, Program, pc)
    BY <1>1, <1>3, WipedStep
  <2>2. Now.cond = "always" => Holds(Now.cond)
    BY DEF Holds
  <2>3. Wiped(code, Program, pc) => Lacks(Work, Ch)
    BY DEF Swept
  <2> QED BY <1>2, <2>1, <2>2, <2>3, WipeLacks
<1>4. ASSUME NEW c \in OnFound, WipedIf(code, Program, pc + 1, c), Holds(c)' PROVE Lacks(Work', Ch)
  <2>1. \/ Wipes(code, Program, pc) /\ Now.cond = c
        \/ WipedIf(code, Program, pc, c) /\ Now.op \notin Alters
    BY <1>1, <1>4, WipedIfStep
  <2>2. Wipes(code, Program, pc) => Now.op \notin Alters
    BY <1>1 DEF Wipes, Alters, Loops
  <2>3. found' = found /\ ~Looping
    BY <1>1, <2>1, <2>2 DEF Taken, Looping, Alters
  <2>4. Holds(c)
    BY <1>1, <1>4, <2>3, SameHolds
  <2>5. WipedIf(code, Program, pc, c) => Lacks(Work, Ch)
    BY <2>3, <2>4 DEF Swept
  <2> QED BY <1>2, <2>1, <2>4, <2>5, WipeLacks
<1>5. ASSUME Staged, Withdrawn(code, Program, pc + 1) PROVE Lacks(live', Ch) /\ Lacks(draft', Ch)
  <2>1. \/ Now.op = "publish" /\ Now.cond = "always" /\ Heeded(code, Now) /\ Clear(code, Program, pc)
        \/ Withdrawn(code, Program, pc)
    BY <1>1, <1>5, WithdrawnStep
  <2>2. CASE Now.op = "publish" /\ Now.cond = "always" /\ Heeded(code, Now) /\ Clear(code, Program, pc)
    <3>1. live' = draft /\ draft' = draft /\ Work = draft
      BY <1>1, <1>5, <2>2 DEF Erased, Work
    <3>2. Lacks(Work, Ch)
      BY <2>2, ClearLacks DEF Looping, Loops
    <3> QED BY <3>1, <3>2
  <2>3. CASE Withdrawn(code, Program, pc)
    BY <1>2, <1>5, <2>3 DEF Swept
  <2> QED BY <2>1, <2>2, <2>3
<1> QED BY <1>3, <1>4, <1>5

\* At the start of a call nothing is known.
LEMMA OverSwept ==
  ASSUME Over
  PROVE  Swept'
<1>1. pc' = 1
  BY DEF Over, Return
<1>2. /\ ~Alone(Program', 1) /\ ~Covers(code', Program', 1) /\ ~Emptied(Program', 1) /\ ~Picked(Program', 1)
      /\ ~Recalled(Program', 1) /\ ~Wiped(code', Program', 1) /\ ~Withdrawn(code', Program', 1)
      /\ \A c \in OnFound : ~WipedIf(code', Program', 1, c)
  BY NothingYet
<1> QED BY ZenonT(30), <1>1, <1>2 DEF Swept

\* The program goes on.
LEMMA PassedSwept ==
  ASSUME IInv, Single, Remembered, Swept, Barred, Passed
  PROVE  Swept'
<1>1. /\ code' = code /\ bad' = bad /\ Program' = Program /\ Ch' = Ch /\ Fn' = Fn /\ Running' = Running
      /\ Staged' = Staged /\ pc' = pc + 1
  BY SameCall DEF Passed, Advance
<1>2. Sweeping' => Sweeping
  BY <1>1 DEF Sweeping
<1>3. CASE Sweeping
  <2>1. /\ Covers(code, Program, pc + 1) => \A r \in Work' : r.val = Ch => r \in found'
        /\ Emptied(Program, pc + 1) => found' = {}
        /\ Alone(Program, pc + 1) => \A r, q \in found' : r = q
    BY <1>3, PassedHand
  <2>2. /\ Picked(Program, pc + 1) => \A r \in found' : r.id = id'
        /\ Recalled(Program, pc + 1) /\ Remembers(code) => \A r \in Pool' : r.val = Ch => r.id = id'
    BY <1>3, PassedId
  <2>3. /\ Wiped(code, Program, pc + 1) => Lacks(Work', Ch)
        /\ \A c \in OnFound : WipedIf(code, Program, pc + 1, c) /\ Holds(c)' => Lacks(Work', Ch)
        /\ Staged /\ Withdrawn(code, Program, pc + 1) => Lacks(live', Ch) /\ Lacks(draft', Ch)
    BY <1>3, PassedZone
  <2> QED BY ZenonT(60), <1>1, <2>1, <2>2, <2>3 DEF Swept, Lacks
<1> QED BY <1>2, <1>3 DEF Swept

\* The program stays where it is: a round of a loop leaves in hand what is still
\* in the zone.
LEMMA StaySwept ==
  ASSUME IInv, Swept, Barred, Again \/ ForeignWrite \/ UNCHANGED vars
  PROVE  Swept'
<1>1. UNCHANGED <<code, calls, pc, id>> /\ (bad => bad') /\ Change
  BY DEF Again, Stay, ForeignWrite, vars, local, Change
<1>2. /\ Program' = Program /\ Ch' = Ch /\ Fn' = Fn /\ Running' = Running /\ Staged' = Staged
      /\ Looping' = Looping
  BY <1>1, SameCall DEF Looping, At, Now
<1> SUFFICES ASSUME Sweeping, ~bad' PROVE Swept'
  BY <1>1, <1>2 DEF Swept, Sweeping
<1>3. found' \subseteq found /\ (~Looping => found' = found)
  BY DEF Again, Looping, ForeignWrite, vars, local
<1>4. CASE Over
  BY <1>4, OverSwept
<1>5. CASE ~Over
  <2>1. /\ \A r \in Work' : r.val = Ch => r \in Work
        /\ \A r \in live' \cup draft' : r.val = Ch => r \in live \cup draft
        /\ \A r \in Pool' : r.val = Ch => r \in Pool
    BY <1>1, <1>5, ZoneShrinks
  <2>2. /\ Lacks(Work, Ch) => Lacks(Work', Ch)
        /\ Lacks(live, Ch) /\ Lacks(draft, Ch) => Lacks(live', Ch) /\ Lacks(draft', Ch)
    BY <2>1 DEF Lacks
  <2>3. ASSUME Covers(code, Program, pc) PROVE \A r \in Work' : r.val = Ch => r \in found'
    <3>1. \A r \in Work : r.val = Ch => r \in found
      BY <2>3 DEF Swept
    <3>2. Looping => found \cap Work' \subseteq found'
      <4>1. Looping => Minded(code, Now)
        BY SweepingRule DEF Sweeping, Looping
      <4> QED BY <4>1 DEF Again, Looping, ForeignWrite, vars, local
    <3> QED BY <1>3, <2>1, <3>1, <3>2
  <2>4. ASSUME NEW c \in OnFound, ~Looping, Holds(c)' PROVE Holds(c)
    BY <1>2, <1>3, <2>4, SameHolds
  <2>5. /\ Emptied(Program, pc) => found' = {}
        /\ Alone(Program, pc) => \A r, q \in found' : r = q
        /\ Picked(Program, pc) => \A r \in found' : r.id = id
        /\ Recalled(Program, pc) /\ Remembers(code) => \A r \in Pool' : r.val = Ch => r.id = id
    BY <1>3, <2>1 DEF Swept
  <2>6. /\ Wiped(code, Program, pc) => Lacks(Work', Ch)
        /\ \A c \in OnFound : WipedIf(code, Program, pc, c) /\ ~Looping /\ Holds(c)' => Lacks(Work', Ch)
        /\ Staged /\ Withdrawn(code, Program, pc) => Lacks(live', Ch) /\ Lacks(draft', Ch)
    BY <2>2, <2>4 DEF Swept
  <2> QED BY ZenonT(60), <1>1, <1>2, <2>3, <2>5, <2>6 DEF Swept, Lacks
<1> QED BY <1>4, <1>5

-----------------------------------------------------------------------------
(* The copy of the zone, where changes are staged.                          *)

\* The CleanUp of the challenge has taken nothing out yet.
Intact(c) ==
  /\ result.cleanup[c] = "none"
  /\ ~(Running /\ Fn = "cleanup" /\ Ch = c /\ (Looping \/ ~Undisturbed(Program, pc)))

\* Until then what is in service for it is in the copy, too.
DraftHas ==
  SparesDraft(code) /\ Staged =>
    \A c \in Challenges : Intact(c) => \A r \in live : r.val = c => r \in draft

\* The requests of such a provider.
LEMMA SparingStep ==
  ASSUME IInv, At, SparesDraft(code)
  PROVE  Now.op \notin Disturbs \cup {"putMore"} \/ (Fn = "cleanup" /\ Now.op \in Loops /\ Narrow(Program, pc))
BY SMTT(30), AtStep, Programmed DEF IInv, At, Now, SparesDraft, Program, Undisturbed

\* They leave the records of a challenge in the copy.
LEMMA DraftKeeps ==
  ASSUME IInv, UniqueIds, At, Acted, SparesDraft(code), Staged, NEW c \in Challenges, Intact(c),
         \A r \in live : r.val = c => r \in draft
  PROVE  \A r \in live' : r.val = c => r \in draft'
<1>1. CASE UNCHANGED <<live, draft>>
  BY <1>1
<1>2. CASE Serve(Now.op) /\ Now.op \in Loops /\ found # {}
  <2>1. Running /\ Fn = "cleanup" /\ Narrow(Program, pc)
    BY <1>2, SparingStep DEF At, Disturbs, Deletes
  <2>2. Ch # c
    BY <1>2, <2>1 DEF Intact, Looping
  <2>3. First(found) \in found /\ First(found).val = Ch
    BY <1>2, <2>1, FirstIn DEF InHand, IInv, Typed
  <2>4. SetWork(Written(Now.op)) /\ Work = draft
    BY <1>2, Carrying DEF Writes, Deletes, Work
  <2>5. Written(Now.op) = Work \ Target(Now.op)
    BY <1>2 DEF Written, Loops
  <2>6. live' = live /\ draft' = draft \ {r \in draft : r.id = First(found).id}
    BY <1>2, <2>4, <2>5, LoopTarget DEF SetWork
  <2>7. \A r \in draft : r.id = First(found).id => r.val = Ch
    BY <2>3 DEF UniqueIds, Pool
  <2> QED BY <2>2, <2>6, <2>7
<1>3. CASE Serve(Now.op) /\ Now.op \notin Loops
  BY <1>3, SparingStep, Carrying DEF Writes, Creates, Written, SetWork, Work, Disturbs,
     Serve
<1> QED BY <1>1, <1>2, <1>3 DEF Acted, Served

\* A challenge that is intact after a step was so before.
LEMMA IntactStep ==
  ASSUME IInv, Change, NEW c \in Challenges, Intact(c)'
  PROVE  Intact(c)
<1>1. result.cleanup[c] = "none" /\ (Over => ~(Fn = "cleanup" /\ Ch = c))
  BY ResultStep DEF Intact
<1>2. CASE Over
  BY <1>1, <1>2 DEF Intact
<1>3. CASE ~Over
  <2>1. Running' = Running /\ Program' = Program /\ Ch' = Ch /\ Fn' = Fn
    BY <1>3, SameProgram
  <2>2. Looping \/ ~Undisturbed(Program, pc) => Looping' \/ ~Undisturbed(Program, pc')
    <3>1. CASE Passed
      BY <3>1, UndisturbedStep DEF Passed, Advance, IInv, Typed, Now, Looping, Disturbs,
         Deletes
    <3>2. CASE ~Passed
      BY <1>3, <3>2, <2>1 DEF Change, Again, Stay, ForeignWrite, vars, Looping, At, Now
    <3> QED BY <3>1, <3>2
  <2> QED BY <1>1, <2>1, <2>2 DEF Intact
<1> QED BY <1>2, <1>3

\* So the copy keeps what is in service.
LEMMA DraftHasOK ==
  ASSUME IInv, UniqueIds, DraftHas, Change
  PROVE  DraftHas'
<1>1. code' = code
  BY SameProgram
<1> SUFFICES ASSUME SparesDraft(code), Staged, NEW c \in Challenges, Intact(c)'
             PROVE  \A r \in live' : r.val = c => r \in draft'
  BY <1>1 DEF DraftHas, Staged
<1>2. Intact(c) /\ \A r \in live : r.val = c => r \in draft
  BY IntactStep DEF DraftHas
<1>3. CASE ForeignWrite
  BY <1>3, NewNumbers, <1>2 DEF ForeignWrite, Late
<1>4. CASE UNCHANGED <<live, draft>>
  BY <1>2, <1>4
<1>5. CASE At /\ Acted
  BY <1>2, <1>5, DraftKeeps
<1>6. UNCHANGED vars => UNCHANGED <<live, draft>>
  BY DEF vars, service
<1> QED BY <1>3, <1>4, <1>5, <1>6 DEF Change, Passed, Again, Over

-----------------------------------------------------------------------------
(* When CleanUp returns nil.                                                *)

Gone == Clears(code) => \A c \in Challenges : result.cleanup[c] = "ok" => Lacks(Pool, c)

\* Where the rule finds the value out of service, it is.
LEMMA OutOfServiceLacks ==
  ASSUME DraftIsLive, Swept, Sweeping, ~Looping, OutOfService(code, Program, pc)
  PROVE  Lacks(live, Ch) /\ Lacks(draft, Ch)
BY ClearLacks DEF OutOfService, Staged, Swept, DraftIsLive, Work

\* Nothing of the challenge is in the zone or in the copy when its CleanUp
\* returns nil, at the last step or before.
LEMMA FinishedLacks ==
  ASSUME SInv, DraftIsLive, Deferred, Swept, DraftHas, Running, Fn = "cleanup", Clears(code),
         Finished
  PROVE  Lacks(live, Ch) /\ Lacks(draft, Ch)
<1>1. IInv /\ Within /\ Barred /\ Scheduled
  BY DEF SInv
<1>2. CASE ~At
  <2>1. pc = Len(Program) + 1
    BY SMTT(30), <1>1, <1>2, Programmed DEF At, Within, IInv, Typed
  <2>2. Sweeping /\ ~Looping
    BY <1>2 DEF Sweeping, Finished, Looping
  <2>3. OutOfService(code, Program, pc)
    BY <1>1, <2>1, SweepingRule
  <2> QED BY <2>2, <2>3, OutOfServiceLacks
<1>3. CASE At
  <2>1. /\ Now.op \in EarlyOk /\ Holds(Now.cond)
        /\ Now.op = "doneIfNone" => found = {}
        /\ Now.op = "doneUnlessOwn" => Own = {}
    BY <1>3 DEF Finished
  <2>2. ~Looping
    BY <2>1 DEF Looping, EarlyOk, Loops
  <2>3. /\ \A k \in DOMAIN Program : Program[k].op # "deleteAll"
        /\ \/ OutOfService(code, Program, pc)
           \/ /\ Now.op = "done" /\ Now.cond \in OnFound
              /\ WipedIf(code, Program, pc, Now.cond) /\ ~Staged
           \/ /\ Now.op \in {"doneIfNone", "doneUnlessOwn"} /\ Covers(code, Program, pc)
              /\ Staged => SparesDraft(code) /\ Undisturbed(Program, pc)
    BY <1>1, <1>3, <2>1, SweepingRule
  <2>4. Sweeping
    BY <2>3 DEF Sweeping, Deferred
  <2>5. CASE OutOfService(code, Program, pc)
    BY <2>2, <2>4, <2>5, OutOfServiceLacks
  <2>6. CASE Lacks(Work, Ch) /\ ~Staged
    BY <2>6 DEF DraftIsLive, Work
  <2>7. CASE Now.op = "done" /\ Now.cond \in OnFound /\ WipedIf(code, Program, pc, Now.cond) /\ ~Staged
    <3>1. Lacks(Work, Ch)
      BY <2>1, <2>2, <2>4, <2>7 DEF Swept
    <3> QED BY <2>6, <2>7, <3>1
  <2>8. CASE /\ Now.op \in {"doneIfNone", "doneUnlessOwn"} /\ Covers(code, Program, pc)
             /\ Staged => SparesDraft(code) /\ Undisturbed(Program, pc)
    <3>1. \A r \in Work : r.val = Ch => r \in found
      BY <2>4, <2>8 DEF Swept
    <3>2. Lacks(Work, Ch)
      BY <2>1, <2>8, <3>1 DEF Lacks, Own
    <3>3. CASE Staged
      <4>1. Ch \in Challenges /\ result.cleanup[Ch] = "none"
        BY <1>1, Programmed, Unfinished DEF IInv
      <4>2. Intact(Ch)
        BY <2>2, <2>8, <3>3, <4>1 DEF Intact
      <4>3. \A r \in live : r.val = Ch => r \in draft
        BY <2>8, <3>3, <4>1, <4>2 DEF DraftHas
      <4> QED BY <3>2, <3>3, <4>3 DEF Lacks, Work
    <3> QED BY <2>6, <3>2, <3>3
  <2> QED BY <2>3, <2>5, <2>7, <2>8
<1> QED BY <1>2, <1>3

\* What is gone stays away: no later call is for the challenge.
LEMMA GoneOK ==
  ASSUME SInv, DraftIsLive, Deferred, Swept, DraftHas, Gone, Change
  PROVE  Gone'
<1>1. code' = code /\ IInv /\ Scheduled
  BY SameProgram DEF SInv
<1> SUFFICES ASSUME Clears(code), NEW c \in Challenges, result'.cleanup[c] = "ok" PROVE Lacks(Pool', c)
  BY <1>1 DEF Gone, Lacks
<1>2. CASE result.cleanup[c] = "ok"
  BY <1>2, <1>1, Unfinished, NewNumbers, PoolStep DEF Gone, IInv, At, Lacks
<1>3. CASE result.cleanup[c] # "ok"
  <2>1. Over
    BY <1>3, SameProgram
  <2>2. PICK r \in {"ok", "error", "panic"} : Return(r) /\ (r = "ok" => Finished)
    BY <2>1 DEF Over
  <2>3. Running /\ Fn = "cleanup" /\ Ch = c /\ r = "ok"
    BY <1>1, <1>3, <2>1, <2>2 DEF Over, Return, IInv, Typed
  <2>4. Lacks(live, c) /\ Lacks(draft, c) /\ UNCHANGED <<live, draft>>
    BY <2>2, <2>3, FinishedLacks DEF Finished
  <2>5. Pool' = live \cup draft
    BY <2>2, <2>4 DEF Return, Pool
  <2> QED BY <2>4, <2>5 DEF Lacks
<1> QED BY <1>2, <1>3

-----------------------------------------------------------------------------
\* What is known of the records of a challenge, and of its CleanUp.
CInv == RInv /\ Deferred /\ Swept /\ DraftHas /\ Gone

\* It holds when the command starts.
LEMMA CInitial == Init => CInv
<1> SUFFICES ASSUME Init PROVE CInv
  OBVIOUS
<1>1. pc = 1 /\ bad = FALSE /\ draft = live /\ \A c \in Challenges : result.cleanup[c] = "none"
  BY DEF Init, Challenges
<1>2. Deferred /\ DraftHas /\ Gone
  BY <1>1 DEF Deferred, DraftHas, Gone
<1>3. Swept
  BY ZenonT(30), <1>1, NothingYet DEF Swept
<1> QED BY <1>2, <1>3, RInitial DEF CInv

\* Every step keeps it.
LEMMA CStep ==
  ASSUME CInv, [Next]_vars
  PROVE  CInv'
<1>1. RInv' /\ Change
  BY RStep DEF CInv
<1>2. SInv /\ IInv /\ Barred
  BY DEF CInv, RInv, SInv
<1>3. Swept'
  BY <1>1, <1>2, PassedSwept, StaySwept, OverSwept DEF CInv, RInv, Change
<1>4. Deferred' /\ DraftHas' /\ Gone'
  BY <1>1, <1>2, DeferredOK, DraftHasOK, GoneOK DEF CInv, RInv
<1> QED BY <1>1, <1>3, <1>4 DEF CInv

\* It holds in every state.
THEOREM CInvariance == Spec => []CInv
BY CInitial, CStep, PTL DEF Spec

\* When CleanUp returns nil, nothing of the challenge is left in the zone, whatever
\* was refused or lost on the way and however Present ended, if all programs but
\* the listed ones keep to the rule: CleanUp deletes by the value, by an identifier
\* that Present kept of its one record, or what a list that cannot have missed it
\* shows, and heeds every answer but "there is no such record".
THEOREM CleanedUp ==
  ASSUME \A n \in DOMAIN Providers \ LeavesBehind : Clears(Providers[n])
  PROVE  Spec => []CleanUpOkMeansGone
<1>1. CInv => CleanUpOkMeansGone
  BY DEF CleanUpOkMeansGone, CInv, RInv, SInv, IInv, Typed, But, Gone, Lacks, Pool, Up
<1> QED BY <1>1, CInvariance, PTL

=============================================================================
