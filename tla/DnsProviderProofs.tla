------------------------- MODULE DnsProviderProofs -------------------------
(***************************************************************************)
(* What the programs of DNS providers do to the zone (module DnsProvider),  *)
(* for every table of programs and any number of refused or lost requests.  *)
(* A provider has the property if its programs keep to the rule of module   *)
(* DnsDiscipline that goes with it.                                         *)
(***************************************************************************)
EXTENDS DnsProvider, TLAPS

\* The time the provers have for a step that names none of them.
USE ZenonT(20), SMTT(30)

Call == [fn : {"setup", "present", "cleanup"}, ch : Challenges]
Keys == {"a", "b", "name"}
Standing == Record(1, "f")
Late == Record(2, "g")
\* The service numbers the records of the challenges from 3 on.
Numbered == {Standing, Late} \cup [id : Nat \ 0..2, val : Challenges]

Typed ==
  /\ provider \in DOMAIN Providers /\ code = Providers[provider]
  /\ calls \in Seq(Call) /\ pc \in Nat \ {0}
  /\ live \subseteq Numbered /\ draft \subseteq Numbered /\ found \subseteq Numbered
  /\ next \in Nat \ 0..2 /\ id \in Nat /\ mem \in [Keys -> Nat]
  /\ \A r \in live \cup draft \cup found : r.id < next
  /\ others \subseteq Foreign
  /\ result \in [{"setup", "present", "cleanup"} -> [Challenges -> {"none", "ok", "error", "panic"}]]

Looping == At /\ Now.op \in Loops

\* What the program that runs has in hand at its present step.
InHand ==
  Running =>
    /\ Narrow(Program, pc) => \A r \in found : r.val = Ch
    /\ ~Looping =>
         /\ Current(code, Program, pc) => found = seen
         /\ Tested(Program, pc, {"needOwn", "doneUnlessOwn"}) => \E r \in found : r.val = Ch
         /\ Tested(Program, pc, {"doneIfSome"}) => found = {}

\* No identifier of a record of somebody else gets into the hands of a careful
\* provider.
OwnIds == Narrows(code) => id \notin {1, 2} /\ \A k \in Keys : mem[k] \notin {1, 2}

StandingKept ==
  KeepsStanding(code) /\ "f" \in others =>
    /\ Standing \in live /\ Standing \in draft
    /\ Running /\ ~Looping /\ Full(code, Program, pc) => Standing \in found

LateKept == KeepsLate(code) /\ "g" \in others => Late \in live /\ Late \in draft

IInv == Typed /\ InHand /\ OwnIds /\ StandingKept /\ LateKept

-----------------------------------------------------------------------------
(* The rules step by step.                                                  *)

\* At the first step nothing is in hand.
LEMMA AtStart ==
  ASSUME NEW p, NEW prog, NEW ops
  PROVE  /\ ~Full(p, prog, 1) /\ ~Current(p, prog, 1) /\ ~Tested(prog, 1, ops)
         /\ ~Wrote(p, prog, 1) /\ ~Issued(p, prog, 1)
         /\ ~WroteIf(p, prog, 1, "none") /\ ~WroteIf(p, prog, 1, "some")
BY DEF Full, Current, Tested, Wrote, WroteIf, Issued

\* Where only records of the challenge are in hand after a step.
LEMMA NarrowStep ==
  ASSUME NEW prog, NEW i \in Nat \ {0}, Narrow(prog, i + 1)
  PROVE  /\ prog[i].op # "list"
         /\ \/ Narrow(prog, i)
            \/ prog[i].op \in {"listOwn", "ownOnly"} /\ prog[i].cond = "always"
BY SMTT(30) DEF Narrow

\* Where all records are in hand after a step.
LEMMA FullStep ==
  ASSUME NEW p, NEW prog, NEW i \in Nat \ {0}, Full(p, prog, i + 1)
  PROVE  \/ prog[i].op = "list" /\ prog[i].cond = "always" /\ Heeded(p, prog[i])
         \/ /\ Full(p, prog, i)
            /\ prog[i].op \in Alters => prog[i].op = "list" /\ Heeded(p, prog[i])
<1>1. PICK j \in 1..i :
        /\ prog[j].op = "list" /\ prog[j].cond = "always" /\ Heeded(p, prog[j])
        /\ \A k \in (j + 1)..i : prog[k].op \in Alters => prog[k].op = "list" /\ Heeded(p, prog[k])
  BY DEF Full
<1>2. CASE j = i
  BY <1>1, <1>2
<1>3. CASE j # i
  <2>1. j \in 1..(i - 1) /\ i \in (j + 1)..i /\ (j + 1)..(i - 1) \subseteq (j + 1)..i
    BY <1>3
  <2> QED BY <1>1, <2>1 DEF Full
<1> QED BY <1>2, <1>3

\* Where the records in hand are the last that were read or written.
LEMMA CurrentStep ==
  ASSUME NEW p, NEW prog, NEW i \in Nat \ {0}, Current(p, prog, i + 1)
  PROVE  \/ prog[i].op = "list" /\ prog[i].cond = "always" /\ Heeded(p, prog[i])
         \/ Current(p, prog, i) /\ prog[i].op \notin Alters \cup Writes
<1>1. PICK j \in 1..i :
        /\ prog[j].op = "list" /\ prog[j].cond = "always" /\ Heeded(p, prog[j])
        /\ \A k \in (j + 1)..i : prog[k].op \notin Alters \cup Writes
  BY SMTT(30) DEF Current
<1>2. CASE j = i
  BY <1>1, <1>2
<1>3. CASE j # i
  <2>1. j \in 1..(i - 1) /\ i \in (j + 1)..i /\ (j + 1)..(i - 1) \subseteq (j + 1)..i
    BY <1>3
  <2> QED BY <1>1, <2>1 DEF Current
<1> QED BY <1>2, <1>3

\* Where a test of the records in hand has been passed.
LEMMA TestedStep ==
  ASSUME NEW prog, NEW ops, NEW i \in Nat \ {0}, Tested(prog, i + 1, ops)
  PROVE  \/ prog[i].op \in ops /\ prog[i].cond = "always"
         \/ Tested(prog, i, ops) /\ prog[i].op \notin Alters
<1>1. PICK j \in 1..i :
        /\ prog[j].op \in ops /\ prog[j].cond = "always"
        /\ \A k \in (j + 1)..i : prog[k].op \notin Alters
  BY DEF Tested
<1>2. CASE j = i
  BY <1>1, <1>2
<1>3. CASE j # i
  <2>1. j \in 1..(i - 1) /\ i \in (j + 1)..i /\ (j + 1)..(i - 1) \subseteq (j + 1)..i
    BY <1>3
  <2> QED BY <1>1, <2>1 DEF Tested
<1> QED BY <1>2, <1>3

\* Where nothing has been taken out of the zone, the step included.
LEMMA UndisturbedStep ==
  ASSUME NEW prog, NEW i \in Nat \ {0}, Undisturbed(prog, i + 1)
  PROVE  Undisturbed(prog, i) /\ prog[i].op \notin Disturbs
BY DEF Undisturbed

\* Where the value has been written.
LEMMA WroteStep ==
  ASSUME NEW p, NEW prog, NEW i \in Nat \ {0}, Wrote(p, prog, i + 1)
  PROVE  \/ prog[i].op \in Creates /\ prog[i].cond = "always" /\ Heeded(p, prog[i])
         \/ Wrote(p, prog, i) /\ prog[i].op \notin Disturbs
<1>1. PICK j \in 1..i :
        /\ prog[j].op \in Creates /\ prog[j].cond = "always" /\ Heeded(p, prog[j])
        /\ \A k \in (j + 1)..i : prog[k].op \notin Disturbs
  BY DEF Wrote
<1>2. CASE j = i
  BY <1>1, <1>2
<1>3. CASE j # i
  <2>1. j \in 1..(i - 1) /\ i \in (j + 1)..i /\ (j + 1)..(i - 1) \subseteq (j + 1)..i
    BY <1>3
  <2> QED BY <1>1, <2>1 DEF Wrote
<1> QED BY <1>2, <1>3

\* Where it has been written if the condition held.
LEMMA WroteIfStep ==
  ASSUME NEW p, NEW prog, NEW c, NEW i \in Nat \ {0}, WroteIf(p, prog, i + 1, c)
  PROVE  \/ prog[i].op \in Creates /\ prog[i].cond = c /\ Heeded(p, prog[i])
         \/ WroteIf(p, prog, i, c) /\ prog[i].op \notin Disturbs /\ SameKind(p, prog, i)
<1>1. PICK j \in 1..i :
        /\ prog[j].op \in Creates /\ prog[j].cond = c /\ Heeded(p, prog[j])
        /\ \A k \in (j + 1)..i : prog[k].op \notin Disturbs /\ SameKind(p, prog, k)
  BY DEF WroteIf
<1>2. CASE j = i
  BY <1>1, <1>2
<1>3. CASE j # i
  <2>1. j \in 1..(i - 1) /\ i \in (j + 1)..i /\ (j + 1)..(i - 1) \subseteq (j + 1)..i
    BY <1>3
  <2> QED BY <1>1, <2>1 DEF WroteIf
<1> QED BY <1>2, <1>3

\* Where it has been put into service.
LEMMA IssuedStep ==
  ASSUME NEW p, NEW prog, NEW i \in Nat \ {0}, Issued(p, prog, i + 1)
  PROVE  \/ /\ prog[i].op \in {"publish", "swap"} /\ prog[i].cond = "always" /\ Heeded(p, prog[i])
            /\ ~prog[i].retried /\ Secured(p, prog, i)
         \/ Issued(p, prog, i) /\ prog[i].op \notin Disturbs \cup {"publish"}
<1>1. PICK j \in 1..i :
        /\ prog[j].op \in {"publish", "swap"} /\ prog[j].cond = "always" /\ Heeded(p, prog[j])
        /\ ~prog[j].retried /\ Secured(p, prog, j)
        /\ \A k \in (j + 1)..i : prog[k].op \notin Disturbs \cup {"publish"}
  BY SMTT(30) DEF Issued
<1>2. CASE j = i
  BY <1>1, <1>2
<1>3. CASE j # i
  <2>1. j \in 1..(i - 1) /\ i \in (j + 1)..i /\ (j + 1)..(i - 1) \subseteq (j + 1)..i
    BY <1>3
  <2> QED BY <1>1, <2>1 DEF Issued
<1> QED BY <1>2, <1>3

-----------------------------------------------------------------------------
\* The program that runs is one of the provider's.
LEMMA Programmed ==
  ASSUME Typed, Running
  PROVE  /\ Program \in Programs(code) /\ Program \in Seq(Steps)
         /\ Fn \in {"setup", "present", "cleanup"} /\ Ch \in Challenges
<1>1. Head(calls) \in Call
  BY SMTT(30) DEF Typed, Running
<1>2. Program \in Programs(code)
  BY DEF Program, Programs
<1> QED BY <1>1, <1>2, Table DEF Typed, Call, Fn, Ch

\* So is the step.
LEMMA AtStep ==
  ASSUME Typed, At
  PROVE  pc \in DOMAIN Program /\ Now \in Steps
BY SMTT(30), Programmed DEF At, Now, Typed

\* First is one of them.
LEMMA FirstIn ==
  ASSUME NEW rs, rs # {}
  PROVE  First(rs) \in rs
BY DEF First

-----------------------------------------------------------------------------
(* What a step may do, whichever action it is.                              *)

OwnIn(rs) == \E r \in rs : r.val = Ch
\* The newest of the records has the value.
IsNewest(rs, v) == \E r \in rs : r.val = v /\ \A q \in rs : q.id <= r.id

\* What a step that is passed, carried out or left out does to the records in hand.
Handed ==
  /\ Now.op \notin Alters => found' = found
  /\ Now.op \in Loops \cup {"pick"} => found' \subseteq found
  /\ Now.op \in {"listOwn", "ownOnly"} =>
       (\A r \in found' : r.val = Ch) \/ (Now.cond # "always" /\ found' = found)
  /\ Now.op = "list" => found' \in {Work, {}} \/ (Now.cond # "always" /\ found' = found)
  /\ Now.op = "list" /\ Heeded(code, Now) =>
       \/ found' = Work /\ seen' = Work /\ (Now.cond = "some" => found # {})
       \/ Now.cond # "always" /\ found' = found /\ (Now.cond = "some" => found = {})
  /\ Now.op \notin Alters \cup Writes => seen' = seen
  /\ Now.op \in {"needOwn", "doneUnlessOwn"} /\ Now.cond = "always" => Own # {}
  /\ Now.op = "doneIfSome" /\ Now.cond = "always" => found = {}
  /\ ~(Now.op = "fail" /\ Now.cond = "always")
  /\ found' \subseteq found \cup Work

\* What it leaves in the zone.
Grows ==
  /\ Now.op \notin Disturbs =>
       Work \subseteq Work' \/ (Now.op = "putMore" /\ OwnIn(Work') /\ found \subseteq Work')
  /\ Now.op \notin Disturbs \cup {"publish"} => live \subseteq live' \/ OwnIn(live')
  /\ Now.op \notin Writes \cup {"publish", "swap"} => live' = live

\* It leaves the zone as it is, or the service carries its request out.
Served == UNCHANGED <<live, draft>> \/ (Holds(Now.cond) /\ Serve(Now.op))

\* What it has put there when the program goes on.
Puts ==
  Heeded(code, Now) =>
    /\ Now.op \in Creates => OwnIn(Work') \/ ~Holds(Now.cond)
    /\ Now.op \in {"publish", "swap"} /\ Now.cond = "always" => live' = draft
    /\ Now.op = "clone" /\ Now.cond = "always" => draft' = live
    /\ Now.op = "roll" /\ Now.cond = "always" /\ ~Staged => IsNewest(live', Ch)

\* The service loses no record that a careful provider has to keep.
Safe ==
  /\ live' \subseteq Numbered /\ draft' \subseteq Numbered /\ next' \in Nat \ 0..2
  /\ next <= next' /\ \A r \in live' \cup draft' : r.id < next'
  /\ KeepsStanding(code) /\ "f" \in others => Standing \in live' /\ Standing \in draft'
  /\ KeepsLate(code) /\ "g" \in others => Late \in live' /\ Late \in draft'

\* Identifiers stay with their owners.
Memory ==
  /\ mem' \in [Keys -> Nat]
  /\ Narrows(code) => \A k \in Keys : mem'[k] \notin {1, 2}
Ids == Memory /\ id' \in Nat /\ (Narrows(code) => id' \notin {1, 2})

\* Where a call may return r.
Exit(r) ==
  /\ r # "error" => UNCHANGED <<live, draft>>
  /\ r = "panic" => At /\ Now.op = "deref"
  /\ r = "ok" /\ At =>
       /\ Now.op \in EarlyOk
       /\ Now.op = "doneIfSome" => found # {}
       /\ Now.op = "doneIfOwn" => Own # {}

\* The program goes on; it stays where it is, in a loop or with a request that
\* is sent again; the call returns.
Went == At /\ Advance /\ Handed /\ Grows /\ Served /\ Puts /\ Safe /\ Ids
Stood ==
  /\ At /\ Stay /\ Grows /\ Served /\ Safe /\ UNCHANGED <<id, mem>> /\ found' \subseteq found
  /\ Now.op \in Loops \/ (Now.retried /\ UNCHANGED <<found, seen>>)
Left ==
  /\ Running /\ Safe /\ Memory
  /\ \E r \in {"ok", "error", "panic"} : Return(r) /\ Exit(r)

Move == Went \/ Stood \/ Left \/ ForeignWrite \/ UNCHANGED vars

-----------------------------------------------------------------------------
(* Requests and the zone.                                                   *)

\* The program and the challenge stay the same within a call.
LEMMA SameCall ==
  ASSUME UNCHANGED <<code, calls>>
  PROVE  Running' = Running /\ Program' = Program /\ Ch' = Ch /\ Fn' = Fn /\ Staged' = Staged
BY DEF Running, Program, Ch, Fn, Staged

\* Without a request the zone stays as it is.
LEMMA Idle ==
  ASSUME IInv, UNCHANGED <<code, live, draft, next>>
  PROVE  Safe /\ Grows /\ Served
<1>1. Work' = Work
  BY DEF Work, Staged
<1> QED BY SMTT(30), <1>1 DEF Served, IInv, Typed, StandingKept, LateKept, Safe, Grows

\* Nor do identifiers change hands when none is stored.
LEMMA SameIds ==
  ASSUME IInv, UNCHANGED mem
  PROVE  Memory /\ (UNCHANGED id => Ids)
BY DEF IInv, Typed, OwnIds, Ids, Memory

\* A delete that is not of the whole set spares the records of others.
LEMMA Aimed ==
  ASSUME IInv, Narrows(code), At, Now.op \in Deletes \ {"deleteSet"}, Now.op \in Loops => found # {}
  PROVE  Standing \notin Target(Now.op) /\ Late \notin Target(Now.op)
<1> USE DEF IInv
<1>1. CASE Now.op \in Loops
  <2>1. Narrow(Program, pc)
    BY <1>1, AtStep, Programmed DEF Narrows, At, Now
  <2>2. \A r \in found : r.val = Ch
    BY <2>1 DEF InHand, At
  <2>3. First(found) \in found /\ found \subseteq Numbered
    BY <1>1, FirstIn DEF Typed
  <2>4. First(found).id \notin {1, 2}
    BY SMTT(30), <2>2, <2>3, Programmed DEF Numbered, Standing, Late, Record, Challenges, At
  <2> QED BY <1>1, <2>4 DEF Target, Standing, Late, Record, Loops
<1>2. CASE Now.op = "deleteOwn"
  BY <1>2, Programmed DEF Target, Standing, Late, Record, Challenges, Loops, At
<1>3. CASE Now.op \in {"deletePicked", "deleteById"}
  BY <1>3 DEF Target, Standing, Late, Record, Loops, OwnIds
<1> QED BY <1>1, <1>2, <1>3 DEF Deletes

\* A careful provider does not delete the set while a standing record is in it.
LEMMA NoDeleteSet ==
  ASSUME IInv, KeepsStanding(code), "f" \in others, Due({"deleteSet"})
  PROVE  FALSE
<1> USE DEF IInv
<1>1. At /\ Running /\ Now = Program[pc] /\ Now.op = "deleteSet" /\ ~Looping /\ Holds(Now.cond)
  BY DEF Due, At, Now, Looping, Loops
<1>2. /\ Full(code, Program, pc)
      /\ \/ Now.cond = "noRest"
         \/ Now.cond = "one" /\ Tested(Program, pc, {"needOwn", "doneUnlessOwn"})
         \/ Tested(Program, pc, {"doneIfSome"})
  BY <1>1, AtStep, Programmed DEF KeepsStanding
<1>3. Standing \in found /\ Standing.val # Ch
  BY <1>1, <1>2, Programmed DEF StandingKept, Standing, Record, Challenges
<1>4. CASE Now.cond = "noRest"
  BY <1>1, <1>3, <1>4 DEF Holds
<1>5. CASE Now.cond = "one" /\ Tested(Program, pc, {"needOwn", "doneUnlessOwn"})
  <2>1. PICK r \in found : r.val = Ch
    BY <1>1, <1>5 DEF InHand
  <2>2. PICK q \in found : found = {q}
    BY <1>1, <1>5 DEF Holds
  <2> QED BY <1>3, <2>1, <2>2
<1>6. CASE Tested(Program, pc, {"doneIfSome"})
  BY <1>1, <1>3, <1>6 DEF InHand
<1> QED BY <1>2, <1>4, <1>5, <1>6

\* What is written is numbered, and no number comes twice.
LEMMA WrittenNumbered ==
  ASSUME IInv, At
  PROVE  /\ Work \subseteq Numbered /\ Written(Now.op) \subseteq Numbered
         /\ \A r \in Work : r.id < next
         /\ \A r \in Written(Now.op) : r.id < next \/ (r.id = next /\ Now.op \in Creates)
<1> USE DEF IInv
<1>1. /\ Work \subseteq Numbered /\ found \subseteq Numbered
      /\ \A r \in Work \cup found : r.id < next
  BY DEF Typed, Work
<1>2. Mine \in Numbered
  BY Programmed DEF Mine, Numbered, Record, Typed, At
<1>4. Mine.id = next
  BY DEF Mine, Record
<1>3. Newest(Work) \subseteq Work /\ found \ Own \subseteq found /\ Work \ Target(Now.op) \subseteq Work
  BY DEF Newest
<1>5. Now.op \in Creates \/ Written(Now.op) \subseteq Work \/ Written(Now.op) \subseteq found
  BY <1>3 DEF Written, Creates
<1>6. Written(Now.op) \subseteq Work \cup found \cup {Mine}
  BY <1>3 DEF Written
<1> QED BY <1>1, <1>2, <1>4, <1>5, <1>6

\* A write of a careful provider leaves the standing record in place.
LEMMA WrittenStanding ==
  ASSUME IInv, KeepsStanding(code), "f" \in others, Due(Writes), Now.op \in Loops => found # {}
  PROVE  Standing \in Written(Now.op)
<1> USE DEF IInv
<1>1. At /\ Running /\ Now = Program[pc] /\ Now.op \in Writes
  BY DEF Due, At, Now
<1>2. /\ Now.op \notin {"replace", "roll"}
      /\ Now.op \in {"putMore", "putRest", "deleteSet"} => Full(code, Program, pc)
  BY <1>1, AtStep, Programmed DEF KeepsStanding
<1>3. Standing \in Work
  BY DEF StandingKept, Work
<1>4. CASE Now.op \in Deletes
  <2>1. Now.op # "deleteSet"
    BY NoDeleteSet DEF Due
  <2>2. Standing \notin Target(Now.op)
    BY <1>1, <1>4, <2>1, Aimed DEF KeepsStanding
  <2>3. Written(Now.op) = Work \ Target(Now.op)
    BY <1>4 DEF Written, Deletes, Loops
  <2> QED BY <1>3, <2>2, <2>3
<1>5. CASE Now.op = "create"
  BY <1>3, <1>5 DEF Written
<1>6. CASE Now.op \in {"putMore", "putRest"}
  <2>1. Standing \in found /\ Standing.val # Ch
    BY <1>1, <1>2, <1>6, Programmed DEF StandingKept, Looping, Loops, Standing, Record, Challenges
  <2> QED BY <1>6, <2>1 DEF Written, Own
<1> QED BY <1>1, <1>2, <1>4, <1>5, <1>6 DEF Writes, Creates

\* Nor does one that keeps to the version overwrite a record that came late.
LEMMA WrittenLate ==
  ASSUME IInv, KeepsLate(code), "g" \in others, Due(Writes), ~Outdated, Now.op \in Loops => found # {}
  PROVE  Late \in Written(Now.op)
<1> USE DEF IInv
<1>1. At /\ Running /\ Now = Program[pc] /\ Now.op \in Writes
  BY DEF Due, At, Now
<1>2. /\ Now.op \notin {"replace", "roll", "deleteSet"}
      /\ Now.op \in {"putMore", "putRest"} => Now.cas /\ Current(code, Program, pc)
  BY <1>1, AtStep, Programmed DEF KeepsLate
<1>3. Late \in Work
  BY DEF LateKept, Work
<1>4. CASE Now.op \in Deletes
  <2>2. Late \notin Target(Now.op)
    BY <1>1, <1>2, <1>4, Aimed DEF KeepsLate
  <2>3. Written(Now.op) = Work \ Target(Now.op)
    BY <1>4 DEF Written, Deletes, Loops
  <2> QED BY <1>3, <2>2, <2>3
<1>5. CASE Now.op = "create"
  BY <1>3, <1>5 DEF Written
<1>6. CASE Now.op \in {"putMore", "putRest"}
  <2>1. found = seen /\ Work = seen
    BY <1>1, <1>2, <1>6 DEF InHand, Looping, Loops, Outdated
  <2>2. Late \in found /\ Late.val # Ch
    BY <1>1, <1>3, <2>1, Programmed DEF Late, Record, Challenges
  <2> QED BY <1>6, <2>2 DEF Written, Own
<1> QED BY <1>1, <1>2, <1>4, <1>5, <1>6 DEF Writes, Creates

\* A request that is carried out loses nothing.
LEMMA Serving ==
  ASSUME IInv, Request, ~Outdated, Serve(Now.op)
  PROVE  Safe
<1> USE DEF IInv
<1>1. At /\ Due(Remote) /\ (Now.op \in Loops => found # {})
  BY DEF Request, Due
<1>0. next \in Nat /\ \A r \in live \cup draft : r.id \in Nat /\ r.id < next
  BY SMTT(30) DEF Typed, Numbered, Standing, Late, Record
<1>2. next' \in Nat \ 0..2 /\ next <= next' /\ (Now.op \in Creates => next' = next + 1)
  BY SMTT(30) DEF Serve, Typed
<1>3. CASE Now.op \in Writes
  <2>1. Due(Writes)
    BY <1>1, <1>3 DEF Due
  <2>2. SetWork(Written(Now.op))
    BY <1>3 DEF Serve, Writes, Deletes, Creates, Loops
  <2>3. live' \subseteq Numbered /\ draft' \subseteq Numbered
    BY <1>1, <2>2, WrittenNumbered DEF SetWork, Typed
  <2>4. KeepsStanding(code) /\ "f" \in others => Standing \in live' /\ Standing \in draft'
    BY <1>1, <2>1, <2>2, WrittenStanding DEF SetWork, StandingKept
  <2>5. KeepsLate(code) /\ "g" \in others => Late \in live' /\ Late \in draft'
    BY <1>1, <2>1, <2>2, WrittenLate DEF SetWork, LateKept
  <2>6. \A r \in live' \cup draft' : r.id < next'
    <3>1. \A r \in Written(Now.op) : r.id < next'
      <4>1. \A r \in Numbered : r.id \in Nat
        BY SMTT(30) DEF Numbered, Standing, Late, Record
      <4> QED BY <1>0, <1>1, <1>2, <4>1, WrittenNumbered
    <3>2. \A r \in live \cup draft : r.id < next'
      BY <1>0, <1>2
    <3> QED BY <2>2, <3>1, <3>2 DEF SetWork
  <2> QED BY ZenonT(30), <1>2, <2>3, <2>4, <2>5, <2>6 DEF Safe
<1>4. CASE Now.op \notin Writes
  <2>1. live' \in {live, draft} /\ draft' \in {live, draft}
    BY ZenonT(30), <1>4 DEF Serve
  <2>2. \A r \in live' \cup draft' : r.id < next'
    BY <1>0, <1>2, <2>1
  <2> QED BY <1>2, <2>1, <2>2 DEF Typed, StandingKept, LateKept, Safe
<1> QED BY <1>3, <1>4

\* A step that uses the copy of the zone makes the provider a staging one.
LEMMA Stages ==
  ASSUME Typed, At, Now.op \in {"publish", "clone"}
  PROVE  Staged
BY AtStep, Programmed DEF Staged, StagesIn, UsesIn, At, Now

\* What a write that adds the value leaves.
LEMMA Adding ==
  ASSUME IInv, At, Now.op \in Creates
  PROVE  /\ OwnIn(Written(Now.op))
         /\ Now.op = "create" => Work \subseteq Written(Now.op)
         /\ Now.op = "putMore" => found \subseteq Written(Now.op)
         /\ Now.op = "roll" => IsNewest(Written(Now.op), Ch)
<1>1. Mine.val = Ch /\ Mine.id = next
  BY DEF Mine, Record
<1>2. CASE Now.op = "create"
  BY <1>1, <1>2 DEF Written, OwnIn
<1>3. CASE Now.op = "replace"
  BY <1>1, <1>3 DEF Written, OwnIn
<1>4. CASE Now.op = "putMore"
  BY <1>1, <1>4 DEF Written, OwnIn, Own
<1>5. CASE Now.op = "roll"
  <2>1. Written(Now.op) = Newest(Work) \cup {Mine} /\ Newest(Work) \subseteq Work
    BY <1>5 DEF Written, Newest
  <2>2. \A q \in Work : q.id <= next
    BY SMTT(30), WrittenNumbered DEF IInv, Typed, Numbered, Standing, Late, Record
  <2>3. next <= next
    BY SMTT(30) DEF IInv, Typed
  <2> QED BY <1>1, <1>5, <2>1, <2>2, <2>3 DEF OwnIn, IsNewest
<1> QED BY <1>2, <1>3, <1>4, <1>5 DEF Creates

\* It leaves the value there, or all that was there.
LEMMA Growing ==
  ASSUME IInv, At, Serve(Now.op), UNCHANGED code
  PROVE  Grows /\ Puts
<1>0. Work' = IF Staged THEN draft' ELSE live'
  BY DEF Work, Staged
<1>1. CASE Now.op \in Writes
  <2>1. SetWork(Written(Now.op)) /\ Now.op \notin {"publish", "clone", "swap"}
    BY <1>1 DEF Serve, Writes, Deletes, Creates, Loops
  <2>2. Work' = Written(Now.op) /\ (Staged => live' = live) /\ (~Staged => live' = Written(Now.op) /\ live = Work)
    BY <1>0, <2>1 DEF SetWork, Work
  <2>3. Now.op \notin Disturbs => Now.op \in {"create", "putMore"}
    BY <1>1 DEF Writes, Creates, Disturbs
  <2>4. Now.op \notin Disturbs =>
          \/ Work \subseteq Written(Now.op)
          \/ Now.op = "putMore" /\ OwnIn(Written(Now.op)) /\ found \subseteq Written(Now.op)
    BY <2>3, Adding DEF Creates
  <2>5. Grows
    BY <1>1, <2>2, <2>4 DEF Grows
  <2>6. Puts
    BY <2>1, <2>2, Adding DEF Puts, Creates
  <2> QED BY <2>5, <2>6
<1>2. CASE Now.op \notin Writes
  <2>1. Now.op \notin {"publish", "clone", "swap"} => live' = live /\ draft' = draft
    BY <1>2 DEF Serve
  <2>2. CASE Now.op = "publish"
    <3>1. live' = draft /\ draft' = draft /\ Staged
      BY <1>2, <2>2, Stages DEF Serve, IInv
    <3> QED BY <1>0, <2>2, <3>1 DEF Grows, Puts, Work, Creates
  <2>3. CASE Now.op = "clone"
    <3>1. draft' = live /\ live' = live
      BY <1>2, <2>3 DEF Serve
    <3> QED BY <2>3, <3>1 DEF Grows, Puts, Disturbs, Creates
  <2>4. CASE Now.op = "swap"
    <3>1. live' = draft
      BY <1>2, <2>4 DEF Serve
    <3> QED BY <2>4, <3>1 DEF Grows, Puts, Disturbs, Creates
  <2>5. CASE Now.op \notin {"publish", "clone", "swap"}
    BY <1>0, <1>2, <2>1, <2>5 DEF Grows, Puts, Work, Writes, Creates
  <2> QED BY <2>2, <2>3, <2>4, <2>5
<1> QED BY <1>1, <1>2

-----------------------------------------------------------------------------
(* The actions.                                                             *)

\* The last step is done.
LEMMA EndMoves ==
  ASSUME IInv, End
  PROVE  Left
<1>1. UNCHANGED <<code, live, draft, next, mem>> /\ Running /\ ~At
  BY SMTT(30) DEF End, Return, service, At, Running, IInv, Typed
<1>2. PICK r \in {"ok", "error"} : Return(r)
  BY DEF End
<1> QED BY <1>1, <1>2, Idle, SameIds DEF Left, Exit

\* A step is left out.
LEMMA SkipMoves ==
  ASSUME IInv, Skip
  PROVE  Went
<1>1. UNCHANGED <<code, live, draft, next, found, seen, id, mem>> /\ At /\ Advance /\ ~Holds(Now.cond)
  BY DEF Skip, Advance, service, local
<1>2. Now.cond # "always" /\ (Now.cond = "some" => found = {})
  BY ZenonT(30), <1>1 DEF Holds
<1>3. Handed
  BY <1>1, <1>2 DEF Handed
<1>4. Puts
  BY <1>1, <1>2 DEF Puts
<1> QED BY <1>1, <1>3, <1>4, Idle, SameIds DEF Went

\* A test is passed, or the call returns.
LEMMA TestMoves ==
  ASSUME IInv, Test
  PROVE  Move
<1>1. UNCHANGED <<code, live, draft, next, mem>> /\ At /\ Running
  BY DEF Test, Due, service, At, Advance, Return
<1>2. Safe /\ Grows /\ Served /\ Memory
  BY <1>1, Idle, SameIds
<1>3. CASE Verdict(Now.op, Now.m) = ""
  <2>1. Advance /\ UNCHANGED <<found, seen, id>>
    BY <1>3 DEF Test, local
  <2>2. /\ Now.op \in {"needOwn", "doneUnlessOwn"} => Own # {}
        /\ Now.op # "fail"
    BY <1>3 DEF Verdict
  <2>3. Now.op = "doneIfSome" => found = {}
    BY <1>3 DEF Verdict
  <2>4. Now.op \notin Alters /\ Now.op \notin Creates \cup {"publish", "swap", "clone"}
    BY DEF Test, Due, Alters, Loops, Creates
  <2>5. Handed
    BY <2>1, <2>2, <2>3, <2>4 DEF Handed, Alters
  <2>6. Puts
    BY <2>4 DEF Puts, Creates
  <2> QED BY <1>1, <1>2, <2>1, <2>5, <2>6, SameIds DEF Went, Move
<1>4. CASE Verdict(Now.op, Now.m) # ""
  <2>1. Return(Verdict(Now.op, Now.m))
    BY <1>4 DEF Test
  <2>2. Verdict(Now.op, Now.m) \in {"ok", "error", "panic"}
    BY <1>4 DEF Verdict, Test, Due
  <2>3. Verdict(Now.op, Now.m) = "panic" => Now.op = "deref"
    BY DEF Verdict, Test, Due
  <2>4. Verdict(Now.op, Now.m) = "ok" =>
          /\ Now.op \in EarlyOk
          /\ Now.op = "doneIfSome" => found # {}
          /\ Now.op = "doneIfOwn" => Own # {}
    BY DEF Verdict, Test, Due, EarlyOk
  <2> QED BY <1>1, <1>2, <2>1, <2>2, <2>3, <2>4 DEF Left, Exit, Move
<1> QED BY <1>3, <1>4

\* A careful provider picks one of its own.
LEMMA ChooseMoves ==
  ASSUME IInv, Choose
  PROVE  Went
<1>1. /\ UNCHANGED <<code, live, draft, next, seen, mem>> /\ At /\ Advance
      /\ Now.op \in {"pick", "ownOnly"} /\ Running /\ Now = Program[pc]
  BY DEF Choose, Due, Advance, service, At, Now
<1>2. found' \subseteq found /\ (Now.op = "ownOnly" => \A r \in found' : r.val = Ch)
  BY <1>1 DEF Choose, Own
<1>3. Handed
  BY <1>1, <1>2 DEF Handed, Alters, Loops, Writes, Deletes, Creates
<1>4. Puts
  BY <1>1 DEF Puts, Creates
<1>5. Ids
  <2>1. CASE id' \in {id, NoId}
    BY SMTT(30), <1>1, <2>1 DEF IInv, Typed, OwnIds, Ids, Memory, NoId
  <2>2. CASE id' \notin {id, NoId}
    <3>1. PICK r \in found : id' = r.id
      BY <2>2 DEF Choose
    <3>2. Now.op = "pick"
      BY <1>1, <2>2 DEF Choose
    <3>3. r \in Numbered
      BY DEF IInv, Typed
    <3>4. Narrows(code) => r.val = Ch
      BY <1>1, <3>2, AtStep, Programmed DEF Narrows, InHand, IInv
    <3>5. id' \in Nat /\ (Narrows(code) => id' \notin {1, 2})
      BY SMTT(30), <1>1, <3>1, <3>3, <3>4, Programmed DEF Numbered, Standing, Late, Record, Challenges, IInv
    <3> QED BY <1>1, <3>5, SameIds DEF Ids
  <2> QED BY <2>1, <2>2
<1> QED BY <1>1, <1>3, <1>4, <1>5, Idle DEF Went

\* What is remembered is an identifier in hand, and what is recalled was remembered.
LEMMA LookupMoves ==
  ASSUME IInv, Lookup
  PROVE  Move
<1>1. /\ UNCHANGED <<live, draft, next>> /\ At /\ Running
      /\ Now.op \in {"remember", "forget", "recall", "recallOrDone", "recallOrZero"}
  BY DEF Lookup, Due, service, At
<1>2. Puts
  BY <1>1 DEF Puts, Creates
<1>3. Key(Now.m) \in Keys
  BY <1>1, Programmed DEF Key, Keys, Challenges, IInv
<1>4. CASE Now.op \in {"remember", "forget"}
  <2>1. PICK v \in {id, 99, NoId} : mem' = [mem EXCEPT ![Key(Now.m)] = v]
    BY <1>4 DEF Lookup
  <2>2. Advance /\ UNCHANGED <<code, found, seen, id>>
    BY <1>4 DEF Lookup, local, Advance
  <2>3. Ids
    BY SMTT(30), <1>3, <2>1, <2>2 DEF IInv, Typed, OwnIds, Ids, Memory, NoId
  <2>4. Handed
    BY <1>4, <2>2 DEF Handed, Alters, Loops
  <2> QED BY <1>1, <1>2, <2>2, <2>3, <2>4, Idle DEF Went, Move
<1>5. CASE Now.op \notin {"remember", "forget"}
  <2>1. /\ mem' = mem
        /\ \/ id' = mem[Key(Now.m)] /\ Advance /\ UNCHANGED <<found, seen>>
           \/ Return(IF Now.op = "recall" THEN "error" ELSE "ok") /\ Now.op # "recallOrZero"
    BY <1>5 DEF Lookup
  <2>2. CASE id' = mem[Key(Now.m)] /\ Advance /\ UNCHANGED <<found, seen>>
    <3>1. Ids
      BY <1>3, <2>1, <2>2 DEF IInv, Typed, OwnIds, Ids, Memory
    <3>2. Handed
      BY <1>1, <2>2 DEF Handed, Alters, Loops
    <3>3. code' = code
      BY <2>2 DEF Advance
    <3> QED BY ZenonT(30), <1>1, <1>2, <2>2, <3>1, <3>2, <3>3, Idle DEF Went, Move
  <2>3. CASE Return(IF Now.op = "recall" THEN "error" ELSE "ok") /\ Now.op # "recallOrZero"
    <3>1. PICK r \in {"ok", "error"} : Return(r) /\ (r = "ok" => Now.op = "recallOrDone")
      BY <1>1, <1>5, <2>3
    <3>2. code' = code
      BY <3>1 DEF Return
    <3>3. Exit(r)
      BY <1>1, <3>1 DEF Exit, EarlyOk
    <3> QED BY <1>1, <2>1, <3>1, <3>2, <3>3, Idle, SameIds DEF Left, Move
  <2> QED BY <2>1, <2>2, <2>3
<1> QED BY <1>4, <1>5

\* A cached answer, and the end of a loop.
LEMMA CachedMoves ==
  ASSUME IInv, Cached \/ LoopOver
  PROVE  Went
<1>1. UNCHANGED <<code, live, draft, next, found, seen, id, mem>> /\ At /\ Advance
      /\ Now.op \in Loops \cup {"once", "token"}
  BY DEF Cached, LoopOver, Due, Advance, service, local
<1>2. Handed
  BY <1>1 DEF Handed, Alters, Loops
<1>3. Puts
  BY <1>1 DEF Puts, Creates, Loops
<1> QED BY <1>1, <1>2, <1>3, Idle, SameIds DEF Went

\* An error ends the call, a round of a loop, or a step whose error is dropped.
LEMMA ErrorMoves ==
  ASSUME IInv, Request, Error, Safe, Grows, Served, UNCHANGED mem
  PROVE  Move
<1>1. At /\ Running /\ Now.op \in Remote
  BY DEF Request, Due, At
<1>2. CASE Now.op = "deleteAll" \/ (Now.op = "deleteEach" /\ Now.tolerated)
  <2>1. found' \subseteq found /\ Stay /\ UNCHANGED id /\ Now.op \in Loops
    BY <1>2 DEF Error, Loops
  <2> QED BY <1>1, <2>1 DEF Stood, Move
<1>3. CASE ~(Now.op = "deleteAll" \/ (Now.op = "deleteEach" /\ Now.tolerated)) /\ Now.tolerated
  <2>1. /\ Advance /\ UNCHANGED <<seen, id>>
        /\ found' = IF Now.op \in {"list", "listOwn"} THEN {} ELSE found
    BY <1>3 DEF Error
  <2>2. Now.op \notin Loops /\ ~Heeded(code, Now)
    BY <1>3 DEF Loops, Heeded
  <2>3. Now.op \notin {"pick", "ownOnly", "needOwn", "doneUnlessOwn", "doneIfSome", "fail"}
    BY <1>1 DEF Remote, Writes, Deletes, Creates, Reads, Loops
  <2>4. Handed
    BY <2>1, <2>2, <2>3 DEF Handed, Alters
  <2>5. Puts
    BY <2>2 DEF Puts
  <2> QED BY <1>1, <2>1, <2>4, <2>5, SameIds DEF Went, Move
<1>4. CASE ~(Now.op = "deleteAll" \/ (Now.op = "deleteEach" /\ Now.tolerated)) /\ ~Now.tolerated
  <2>1. Return("error") /\ Exit("error")
    BY <1>4 DEF Error, Exit
  <2> QED BY <1>1, <2>1, SameIds DEF Left, Move
<1> QED BY <1>2, <1>3, <1>4

\* A good answer.
LEMMA AnsweredMoves ==
  ASSUME IInv, Answered
  PROVE  Move
<1>1. /\ At /\ Running /\ Now.op \in Remote /\ Request /\ ~Outdated /\ Serve(Now.op)
      /\ Take(Now.op) /\ mem' = mem /\ code' = code /\ Holds(Now.cond)
  BY DEF Answered, Request, Due, At, Stay, Advance
<1>2. Safe /\ Grows /\ Served /\ Puts
  BY <1>1, Serving, Growing DEF Served
<1>3. CASE Now.op \in Loops
  <2>1. found' \subseteq found /\ id' = id /\ Stay
    BY <1>1, <1>3 DEF Answered, Take, Loops, Creates
  <2> QED BY <1>1, <1>2, <1>3, <2>1 DEF Stood, Move
<1>4. CASE Now.op \notin Loops
  <2>1. Advance
    BY <1>4 DEF Answered
  <2>2. /\ Now.op = "list" => found' = Work /\ seen' = Work
        /\ Now.op = "listOwn" => found' = {r \in Work : r.val = Ch}
        /\ Now.op \notin {"list", "listOwn"} => found' = found
        /\ Now.op \notin {"list", "listOwn"} \cup Writes => seen' = seen
    BY <1>1, <1>4 DEF Take, Loops, Writes, Deletes, Creates
  <2>3. Now.op \notin {"pick", "ownOnly", "needOwn", "doneUnlessOwn", "doneIfSome", "fail"}
    BY <1>1 DEF Remote, Writes, Deletes, Creates, Reads, Loops
  <2>4. Now.cond = "some" => found # {}
    BY <1>1 DEF Holds
  <2>5. Handed
    BY <1>4, <2>2, <2>3, <2>4 DEF Handed, Alters
  <2>6. Ids
    <3>1. id' \in {next, id}
      BY <1>1 DEF Take
    <3> QED BY SMTT(30), <1>1, <3>1 DEF IInv, Typed, OwnIds, Ids, Memory
  <2> QED BY <1>1, <1>2, <2>1, <2>5, <2>6 DEF Went, Move
<1> QED BY <1>3, <1>4

\* A refusal, noticed or not.
LEMMA RefusedMoves ==
  ASSUME IInv, Refused
  PROVE  Move
<1>1. At /\ Now.op \in Remote /\ Request /\ UNCHANGED <<live, draft, next, mem>>
  BY ZenonT(30) DEF Refused, Request, Due, service
<1>2. PICK kind \in JudgeOf(Now.m).speaks :
        /\ kind = "notFound" => Missing
        /\ IF kind \in JudgeOf(Now.m).sees THEN Error
           ELSE /\ found' = IF Now.op \in {"list", "listOwn"} THEN {}
                            ELSE IF Now.op \in Loops THEN found \ {First(found)} ELSE found
                /\ IF Now.op \in Loops THEN Stay ELSE Advance
                /\ UNCHANGED <<seen, id>>
  BY DEF Refused
<1>3. code' = code
  BY <1>2 DEF Error, Stay, Advance, Return
<1>4. Safe /\ Grows /\ Served
  BY ZenonT(30), <1>1, <1>3, Idle
<1>5. CASE kind \in JudgeOf(Now.m).sees
  BY <1>1, <1>2, <1>4, <1>5, ErrorMoves
<1>6. CASE kind \notin JudgeOf(Now.m).sees
  <2>1. ~Heeded(code, Now)
    BY <1>2, <1>6 DEF Heeded, JudgeIn, JudgeOf, Missing
  <2>2. CASE Now.op \in Loops
    <3>1. found' \subseteq found /\ Stay /\ UNCHANGED id
      BY <1>2, <1>6, <2>2 DEF Loops
    <3> QED BY <1>1, <1>4, <2>2, <3>1 DEF Stood, Move
  <2>3. CASE Now.op \notin Loops
    <3>1. /\ Advance /\ UNCHANGED <<seen, id>>
          /\ found' = IF Now.op \in {"list", "listOwn"} THEN {} ELSE found
      BY <1>2, <1>6, <2>3
    <3>2. Now.op \notin {"pick", "ownOnly", "needOwn", "doneUnlessOwn", "doneIfSome", "fail"}
      BY <1>1 DEF Remote, Writes, Deletes, Creates, Reads, Loops
    <3>3. Handed
      BY <2>1, <2>3, <3>1, <3>2 DEF Handed, Alters
    <3>4. Puts
      BY <2>1 DEF Puts
    <3> QED BY ZenonT(30), <1>1, <1>4, <3>1, <3>3, <3>4, SameIds DEF Went, Move
  <2> QED BY ZenonT(30), <2>2, <2>3
<1> QED BY <1>5, <1>6

\* A request, or its answer, is lost.
LEMMA LostMoves ==
  ASSUME IInv, Lost \/ AnswerLost
  PROVE  Move
<1>1. CASE Lost
  <2>1. Request /\ Error /\ UNCHANGED <<live, draft, next, mem>>
    BY <1>1 DEF Lost, service
  <2>2. code' = code
    BY <2>1 DEF Error, Stay, Advance, Return
  <2> QED BY <2>1, <2>2, Idle, ErrorMoves
<1>2. CASE AnswerLost
  <2>1. Request /\ At /\ UNCHANGED mem /\ Serve(Now.op) /\ ~Outdated /\ Holds(Now.cond)
    BY <1>2 DEF AnswerLost, Request, Due
  <2>2. code' = code
    BY <1>2 DEF AnswerLost, Error, Stay, Advance, Return
  <2>3. Safe /\ Grows /\ Served
    BY <2>1, <2>2, Serving, Growing DEF Served
  <2>4. CASE Now.retried
    BY <1>2, <2>1, <2>3, <2>4 DEF AnswerLost, local, Stood, Move
  <2>5. CASE ~Now.retried
    BY <1>2, <2>1, <2>3, <2>5, ErrorMoves DEF AnswerLost
  <2> QED BY <2>4, <2>5
<1> QED BY <1>1, <1>2

\* The account of acme-dns is stored.
LEMMA EnrollMoves ==
  ASSUME IInv, Enroll
  PROVE  Move
<1>1. At /\ Running /\ Now.op = "enroll" /\ UNCHANGED <<live, draft, next, mem>>
  BY DEF Enroll, Due, service, At
<1>2. CASE Advance /\ UNCHANGED local
  <2>1. UNCHANGED <<code, found, seen, id>>
    BY <1>2 DEF local, Advance
  <2>2. Handed /\ Puts
    BY <1>1, <2>1 DEF Handed, Puts, Alters, Loops, Creates
  <2> QED BY <1>1, <1>2, <2>1, <2>2, Idle, SameIds DEF Went, Move
<1>3. CASE Return("error")
  <2>1. code' = code /\ Exit("error")
    BY <1>3 DEF Return, Exit
  <2> QED BY <1>1, <1>3, <2>1, Idle, SameIds DEF Left, Move
<1> QED BY <1>2, <1>3 DEF Enroll

\* Every step is one of these.
LEMMA Moves ==
  ASSUME IInv, [Next]_vars
  PROVE  Move
BY EndMoves, SkipMoves, TestMoves, ChooseMoves, LookupMoves, CachedMoves, AnsweredMoves, RefusedMoves,
   LostMoves, EnrollMoves DEF Next, Move

-----------------------------------------------------------------------------
(* The invariant is kept.                                                   *)

\* One step on, what is in hand is known again.
LEMMA Moved ==
  ASSUME Typed, InHand, At, Advance, Handed
  PROVE  InHand'
<1> USE DEF Advance
<1>1. Running /\ Program' = Program /\ Ch' = Ch /\ pc' = pc + 1 /\ code' = code
  BY SameCall DEF At
<1>2. pc \in Nat \ {0} /\ Now = Program[pc]
  BY DEF Typed, Now
<1>3. ASSUME Narrow(Program, pc + 1) PROVE \A r \in found' : r.val = Ch
  <2>1. /\ Now.op # "list"
        /\ Narrow(Program, pc) \/ (Now.op \in {"listOwn", "ownOnly"} /\ Now.cond = "always")
    BY <1>2, <1>3, NarrowStep
  <2>2. Narrow(Program, pc) => \A r \in found : r.val = Ch
    BY <1>1 DEF InHand
  <2> QED BY <2>1, <2>2 DEF Handed, Alters
<1>4. ASSUME Current(code, Program, pc + 1) PROVE found' = seen'
  <2>1. \/ Now.op = "list" /\ Now.cond = "always" /\ Heeded(code, Now)
        \/ Current(code, Program, pc) /\ Now.op \notin Alters \cup Writes
    BY <1>2, <1>4, CurrentStep
  <2>2. Current(code, Program, pc) /\ Now.op \notin Alters => found = seen
    BY <1>1 DEF InHand, Looping, Alters
  <2> QED BY <2>1, <2>2 DEF Handed
<1>5. ASSUME Tested(Program, pc + 1, {"needOwn", "doneUnlessOwn"}) PROVE \E r \in found' : r.val = Ch
  <2>1. \/ Now.op \in {"needOwn", "doneUnlessOwn"} /\ Now.cond = "always"
        \/ Tested(Program, pc, {"needOwn", "doneUnlessOwn"}) /\ Now.op \notin Alters
    BY <1>2, <1>5, TestedStep
  <2>2. Tested(Program, pc, {"needOwn", "doneUnlessOwn"}) /\ Now.op \notin Alters => \E r \in found : r.val = Ch
    BY <1>1 DEF InHand, Looping, Alters
  <2> QED BY <2>1, <2>2 DEF Handed, Alters, Loops, Own
<1>6. ASSUME Tested(Program, pc + 1, {"doneIfSome"}) PROVE found' = {}
  <2>1. \/ Now.op = "doneIfSome" /\ Now.cond = "always"
        \/ Tested(Program, pc, {"doneIfSome"}) /\ Now.op \notin Alters
    BY <1>2, <1>6, TestedStep
  <2>2. Tested(Program, pc, {"doneIfSome"}) /\ Now.op \notin Alters => found = {}
    BY <1>1 DEF InHand, Looping, Alters
  <2> QED BY <2>1, <2>2 DEF Handed, Alters, Loops
<1> QED BY <1>1, <1>3, <1>4, <1>5, <1>6 DEF InHand

\* All records, if that was so.
LEMMA MovedFull ==
  ASSUME Typed, StandingKept, KeepsStanding(code), "f" \in others, At, Advance, Handed
  PROVE  Running' /\ Full(code, Program, pc)' => Standing \in found'
<1> USE DEF Advance
<1>1. Running /\ Program' = Program /\ pc' = pc + 1 /\ code' = code
  BY SameCall DEF At
<1>2. pc \in Nat \ {0} /\ Now = Program[pc]
  BY DEF Typed, Now
<1>3. ASSUME Full(code, Program, pc + 1) PROVE Standing \in found'
  <2>1. \/ Now.op = "list" /\ Now.cond = "always" /\ Heeded(code, Now)
        \/ /\ Full(code, Program, pc)
           /\ Now.op \in Alters => Now.op = "list" /\ Heeded(code, Now)
    BY <1>2, <1>3, FullStep
  <2>2. Standing \in Work
    BY DEF StandingKept, Work
  <2>3. Full(code, Program, pc) /\ Now.op \notin Loops => Standing \in found
    BY <1>1 DEF StandingKept, Looping
  <2> QED BY <2>1, <2>2, <2>3 DEF Handed, Alters, Loops
<1> QED BY <1>1, <1>3

\* At the start of a call nothing is in hand.
LEMMA Begun ==
  ASSUME pc' = 1, found' = {}
  PROVE  InHand' /\ ~Full(code, Program, pc)'
<1>1. ~Full(code', Program', 1) /\ ~Current(code', Program', 1)
      /\ ~Tested(Program', 1, {"needOwn", "doneUnlessOwn"}) /\ ~Tested(Program', 1, {"doneIfSome"})
  BY AtStart
<1> QED BY <1>1 DEF InHand

\* A program that goes on keeps the invariant.
LEMMA WentOK ==
  ASSUME IInv, Went
  PROVE  IInv'
<1> USE DEF IInv, Went
<1>1. Typed'
  <2>1. found' \subseteq Numbered /\ \A r \in found' : r.id < next'
    <3>1. found' \subseteq found \cup Work /\ Work \subseteq live \cup draft
      BY DEF Handed, Work
    <3>2. \A r \in found \cup Work : r \in Numbered /\ r.id < next
      BY <3>1 DEF Typed
    <3>3. \A r \in Numbered : r.id \in Nat
      BY SMTT(30) DEF Numbered, Standing, Late, Record
    <3>4. next \in Nat /\ next' \in Nat /\ next <= next'
      BY DEF Safe, Typed
    <3> QED BY <3>1, <3>2, <3>3, <3>4
  <2> QED BY SMTT(30), <2>1 DEF Typed, Advance, Safe, Ids, Memory
<1>2. InHand'
  BY Moved
<1>3. OwnIds'
  BY DEF OwnIds, Advance, Ids, Memory
<1>4. StandingKept'
  <2>1. code' = code /\ others' = others
    BY DEF Advance
  <2> QED BY <2>1, MovedFull DEF StandingKept, Safe
<1>5. LateKept'
  BY DEF LateKept, Safe, Advance
<1> QED BY <1>1, <1>2, <1>3, <1>4, <1>5

\* So does a call that returns.
LEMMA LeftOK ==
  ASSUME IInv, Left
  PROVE  IInv'
<1> USE DEF IInv, Left
<1>0. PICK r \in {"ok", "error", "panic"} : Return(r)
  OBVIOUS
<1>1. Typed'
  <2>1. calls' \in Seq(Call)
    BY SMTT(30), <1>0 DEF Return, Typed, Running
  <2>2. result' \in [{"setup", "present", "cleanup"} -> [Challenges -> {"none", "ok", "error", "panic"}]]
    BY <1>0, Programmed DEF Return, Typed
  <2> QED BY SMTT(30), <1>0, <2>1, <2>2 DEF Typed, Return, Safe, Memory, NoId
<1>2. InHand' /\ ~Full(code, Program, pc)'
  BY <1>0, Begun DEF Return
<1>3. OwnIds'
  BY SMTT(30), <1>0 DEF OwnIds, Return, Memory, NoId
<1>4. StandingKept'
  BY <1>0, <1>2 DEF StandingKept, Safe, Return
<1>5. LateKept'
  BY <1>0 DEF LateKept, Safe, Return
<1> QED BY <1>1, <1>2, <1>3, <1>4, <1>5

\* So does a round of a loop, or a request that is sent again.
LEMMA StoodOK ==
  ASSUME IInv, Stood
  PROVE  IInv'
<1> USE DEF IInv, Stood
<1>0. /\ UNCHANGED <<code, calls, pc, others>> /\ Running' = Running /\ Program' = Program /\ Ch' = Ch
      /\ Looping' = Looping
  BY SameCall DEF Stay, Looping, At, Now
<1>1. Typed'
  <2>1. \A r \in found' : r.id < next'
    BY SMTT(30) DEF Typed, Safe, Numbered, Standing, Late, Record
  <2> QED BY <2>1 DEF Typed, Stay, Safe
<1>2. InHand'
  BY <1>0 DEF InHand, Looping
<1>3. OwnIds'
  BY <1>0 DEF OwnIds
<1>4. StandingKept'
  BY <1>0 DEF StandingKept, Safe, Looping
<1>5. LateKept'
  BY <1>0 DEF LateKept, Safe
<1> QED BY <1>1, <1>2, <1>3, <1>4, <1>5

\* A careful provider has no copy of the zone that a late record could miss.
LEMMA ForeignWriteOK ==
  ASSUME IInv, ForeignWrite
  PROVE  IInv'
<1> USE DEF IInv
<1>1. UNCHANGED <<provider, code, calls, pc, next, found, seen, id, mem, result>>
  BY DEF ForeignWrite, local
<1>2. live' = live \cup {Late} /\ draft' \in {draft, draft \cup {Late}} /\ others' = others \cup {"g"}
  BY DEF ForeignWrite, Late
<1>3. /\ Running' = Running /\ Program' = Program /\ Ch' = Ch /\ Looping' = Looping
  BY <1>1, SameCall DEF Looping, At, Now
<1>4. Typed'
  <2>1. Late.id < next
    BY SMTT(30) DEF Late, Record, Typed
  <2> QED BY <1>1, <1>2, <2>1 DEF Typed, Numbered, Foreign
<1>5. InHand'
  BY <1>1, <1>3 DEF InHand
<1>6. OwnIds'
  BY <1>1 DEF OwnIds
<1>7. StandingKept'
  BY <1>1, <1>2, <1>3 DEF StandingKept
<1>8. LateKept'
  <2>1. KeepsLate(code) => ~UsesIn(code, {"clone"})
    BY DEF KeepsLate, UsesIn
  <2>2. KeepsLate(code) => Late \in draft'
    BY <2>1 DEF ForeignWrite, Late
  <2> QED BY <1>1, <1>2, <2>2 DEF LateKept
<1> QED BY <1>4, <1>5, <1>6, <1>7, <1>8

\* So does a step in which nothing happens.
LEMMA Still ==
  ASSUME IInv, UNCHANGED vars
  PROVE  IInv'
<1> USE DEF IInv
<1>1. UNCHANGED <<provider, code, calls, pc, live, draft, next, found, seen, id, mem, result, others>>
  BY DEF vars, local, service
<1>2. Running' = Running /\ Program' = Program /\ Ch' = Ch /\ Looping' = Looping
  BY <1>1, SameCall DEF Looping, At, Now
<1>3. Typed' /\ OwnIds'
  BY <1>1 DEF Typed, OwnIds
<1>4. InHand'
  BY <1>1, <1>2 DEF InHand
<1>5. StandingKept' /\ LateKept'
  BY <1>1, <1>2 DEF StandingKept, LateKept
<1> QED BY <1>3, <1>4, <1>5

\* It holds when the command starts.
LEMMA Initial == Init => IInv
<1> SUFFICES ASSUME Init PROVE IInv
  OBVIOUS
<1> USE DEF Init
<1>1. live \subseteq {Standing} /\ ("f" \in others => Standing \in live) /\ "g" \notin others
  BY DEF Standing
<1>2. calls \in Seq(Call)
  <2>1. \A f \in {"setup", "present", "cleanup"}, c \in Challenges : [fn |-> f, ch |-> c] \in Call
    BY DEF Call
  <2>2. Schedule(code.sequential) \in Seq(Call)
    BY SMTT(30), <2>1 DEF Schedule, Challenges
  <2>3. <<[fn |-> "setup", ch |-> "a"]>> \in Seq(Call)
    BY SMTT(30), <2>1 DEF Challenges
  <2> QED BY SMTT(30), <2>2, <2>3
<1>3. Typed
  <2>1. Standing.id < 3
    BY DEF Standing, Record
  <2>2. live \subseteq Numbered /\ \A r \in live : r.id < 3
    BY <1>1, <2>1 DEF Numbered
  <2> QED BY SMTT(30), <1>2, <2>2 DEF Typed, NoId, Foreign, Keys
<1>4. ~Full(code, Program, pc) /\ InHand
  BY ZenonT(30), AtStart DEF InHand
<1> QED BY SMTT(30), <1>1, <1>3, <1>4 DEF IInv, OwnIds, StandingKept, LateKept, NoId, Keys

\* The invariant holds in every state.
THEOREM Invariance == Spec => []IInv
<1>1. IInv /\ [Next]_vars => IInv'
  BY Moves, WentOK, LeftOK, StoodOK, ForeignWriteOK, Still DEF Move
<1> QED BY <1>1, Initial, PTL DEF Spec

\* A record that was at the name before the command outlives it, whatever the
\* table of providers, if all but the listed ones keep to the rule.
THEOREM StandingRecord ==
  ASSUME \A n \in DOMAIN Providers \ TakesOver : KeepsStanding(Providers[n])
  PROVE  Spec => []StandingStays
<1>1. IInv => StandingStays
  BY DEF IInv, Typed, StandingKept, StandingStays, But, Up, Standing, Record
<1> QED BY <1>1, Invariance, PTL

\* So does one that another program adds on the way.
THEOREM LateRecord ==
  ASSUME \A n \in DOMAIN Providers \ (TakesOver \cup ReadModifyWrite) : KeepsLate(Providers[n])
  PROVE  Spec => []LateStays
<1>1. IInv => LateStays
  BY DEF IInv, Typed, LateKept, LateStays, But, Up, Late, Record
<1> QED BY <1>1, Invariance, PTL

-----------------------------------------------------------------------------
(* The calls, in the order of the resolver.                                 *)

\* No call runs past the end of its program.
Within == Running => pc <= Len(Program) + 1

\* A provider that cannot be constructed is never called.
Barred ==
  code.setup = <<Fail>> =>
    /\ Running => Fn = "setup" /\ pc = 1
    /\ \A c \in Challenges : result.present[c] = "none" /\ result.cleanup[c] = "none"

\* The program counter stays within the program.
LEMMA WithinOK ==
  ASSUME IInv, IInv', Within, Move
  PROVE  Within'
<1>1. CASE Went
  <2>1. At /\ pc' = pc + 1 /\ Program' = Program /\ Program \in Seq(Steps) /\ pc \in Nat
    BY <1>1, SameCall, Programmed DEF Went, Advance, At, IInv, Typed
  <2> QED BY <2>1 DEF Within, At
<1>2. CASE Left
  <2>1. pc' = 1 /\ (Running' => Program' \in Seq(Steps))
    <3>1. (Typed /\ Running => Program \in Seq(Steps))'
      BY Programmed, PTL
    <3> QED BY <1>2, <3>1 DEF Left, Return, IInv
  <2> QED BY <2>1 DEF Within
<1>3. CASE Stood \/ ForeignWrite \/ UNCHANGED vars
  <2>1. UNCHANGED <<code, calls, pc>>
    BY <1>3 DEF Stood, Stay, ForeignWrite, vars
  <2> QED BY ZenonT(30), <2>1, SameCall DEF Within
<1> QED BY <1>1, <1>2, <1>3 DEF Move

\* A provider whose construction fails gets no further.
LEMMA BarredOK ==
  ASSUME IInv, Barred, Move
  PROVE  Barred'
<1> SUFFICES ASSUME code'.setup = <<Fail>> PROVE Barred'
  BY DEF Barred
<1>0. code' = code /\ (Running' => Running)
  BY DEF Move, Went, Advance, Stood, Stay, Left, Return, ForeignWrite, vars, Running
<1>1. CASE ~Running
  <2>1. UNCHANGED vars
    BY <1>1 DEF Move, Went, Stood, At, Left, ForeignWrite
  <2> QED BY <1>0, <1>1, <2>1 DEF Barred, vars
<1>2. CASE Running
  <2>1. /\ Fn = "setup" /\ pc = 1
        /\ \A c \in Challenges : result.present[c] = "none" /\ result.cleanup[c] = "none"
    BY <1>0, <1>2 DEF Barred
  <2>2. Program = <<Fail>> /\ At /\ Now = Fail
    BY <1>0, <1>2, <2>1 DEF Program, At, Now
  <2>3. Now.op = "fail" /\ Now.cond = "always" /\ ~Now.retried
    BY <2>2 DEF Fail, Step
  <2>4. ~Went /\ ~Stood /\ ~ForeignWrite
    BY <2>1, <2>3 DEF Went, Handed, Stood, Loops, ForeignWrite
  <2>5. CASE Left
    <3>1. Return("error")
      BY <2>2, <2>3, <2>5 DEF Left, Exit, EarlyOk
    <3>2. calls' = <<>> /\ result'.present = result.present /\ result'.cleanup = result.cleanup
      BY <2>1, <3>1 DEF Return, IInv, Typed
    <3> QED BY <2>1, <3>2 DEF Barred, Running
  <2>6. CASE UNCHANGED vars
    BY <2>6 DEF Barred, vars, Running, Fn
  <2> QED BY <2>4, <2>5, <2>6 DEF Move
<1> QED BY <1>1, <1>2

Plan ==
  LET call(f, c) == [fn |-> f, ch |-> c] IN
  IF code.sequential
  THEN <<call("setup", "a"), call("present", "a"), call("cleanup", "a"), call("present", "b"), call("cleanup", "b")>>
  ELSE <<call("setup", "a"), call("present", "a"), call("present", "b"), call("cleanup", "a"), call("cleanup", "b")>>

\* The calls that are left are the last of the plan, and those before have results.
Scheduled ==
  /\ Len(calls) <= 5
  /\ \A k \in 1..Len(calls) : calls[k] = Plan[5 - Len(calls) + k]
  /\ Running => \A k \in 1..5 : result[Plan[k].fn][Plan[k].ch] = "none" <=> k > 5 - Len(calls)

\* The call that runs, and what was called before.
LEMMA Turn ==
  ASSUME Typed, Scheduled, Running
  PROVE  /\ Len(calls) \in 1..5 /\ Fn = Plan[6 - Len(calls)].fn /\ Ch = Plan[6 - Len(calls)].ch
         /\ calls[1] = Plan[6 - Len(calls)]
<1>1. Len(calls) \in 1..5 /\ Head(calls) = calls[1]
  <2>1. calls \in Seq(Call) /\ calls # <<>>
    BY DEF Typed, Running
  <2>2. Len(calls) \in Nat \ {0} /\ Head(calls) = calls[1]
    BY <2>1
  <2>3. Len(calls) <= 5
    BY DEF Scheduled
  <2>4. \A n \in Nat \ {0} : n <= 5 => n \in 1..5
    OBVIOUS
  <2> QED BY ZenonT(30), <2>2, <2>3, <2>4
<1>2. calls[1] = Plan[6 - Len(calls)]
  BY SMTT(30), <1>1 DEF Scheduled
<1> QED BY <1>1, <1>2 DEF Fn, Ch

\* The calls of a plan are different.
LEMMA PlanCalls ==
  /\ \A k \in 1..5 : Plan[k] \in Call
  /\ \A j, k \in 1..5 : Plan[j].fn = Plan[k].fn /\ Plan[j].ch = Plan[k].ch => j = k
<1>1. CASE code.sequential
  BY <1>1 DEF Plan, Call, Challenges
<1>2. CASE ~code.sequential
  BY <1>2 DEF Plan, Call, Challenges
<1> QED BY <1>1, <1>2

\* The plan is followed.
LEMMA ScheduledOK ==
  ASSUME IInv, Scheduled, Move
  PROVE  Scheduled'
<1>1. CASE Left
  <2>1. PICK r \in {"ok", "error", "panic"} : Return(r)
    BY <1>1 DEF Left
  <2>2. code' = code /\ Plan' = Plan /\ Running
    BY <1>1, <2>1 DEF Left, Return, Plan
  <2>3. CASE calls' = <<>>
    BY SMTT(30), <2>3 DEF Scheduled, Running
  <2>4. CASE calls' = Tail(calls)
    <3> DEFINE n == Len(calls)
    <3>1. n \in 1..5 /\ Fn = Plan[6 - n].fn /\ Ch = Plan[6 - n].ch
      BY <2>2, Turn DEF IInv
    <3>2. Len(calls') = n - 1 /\ \A k \in 1..(n - 1) : calls'[k] = calls[k + 1]
      BY SMTT(30), <2>2, <2>4 DEF IInv, Typed, Running
    <3> HIDE DEF n
    <3>3. ASSUME NEW k \in 1..(n - 1) PROVE calls'[k] = Plan[5 - (n - 1) + k]
      <4>1. k + 1 \in 1..n /\ 5 - n + (k + 1) = 5 - (n - 1) + k
        BY <3>1
      <4>2. calls[k + 1] = Plan[5 - n + (k + 1)]
        BY <4>1 DEF Scheduled, n
      <4> QED BY <3>2, <4>1, <4>2
    <3>4. ASSUME NEW k \in 1..5
          PROVE  (result'[Plan[k].fn][Plan[k].ch] = "none") <=> (k > 5 - (n - 1))
      <4>1. Plan[k] \in Call
        BY PlanCalls
      <4>2. Plan[k].fn \in {"setup", "present", "cleanup"} /\ Plan[k].ch \in Challenges
        BY <4>1 DEF Call
      <4>3. (result[Plan[k].fn][Plan[k].ch] = "none") <=> (k > 5 - n)
        BY <2>2 DEF Scheduled, n
      <4>4. CASE k = 6 - n
        <5>1. result'[Plan[k].fn][Plan[k].ch] = r
          BY ZenonT(30), <2>1, <3>1, <4>2, <4>4 DEF Return, IInv, Typed
        <5> QED BY <3>1, <4>4, <5>1
      <4>5. CASE k # 6 - n
        <5>1. ~(Plan[k].fn = Fn /\ Plan[k].ch = Ch)
          <6>1. \A m \in 1..5 : 6 - m \in 1..5
            OBVIOUS
          <6> QED BY <3>1, <4>5, <6>1, PlanCalls, Zenon
        <5>2. result'[Plan[k].fn][Plan[k].ch] = result[Plan[k].fn][Plan[k].ch]
          BY <2>1, <4>2, <5>1 DEF Return, IInv, Typed
        <5> QED BY <3>1, <4>3, <4>5, <5>2
      <4> QED BY <4>4, <4>5
    <3>5. \A k \in 1..Len(calls') : calls'[k] = Plan'[5 - Len(calls') + k]
      BY ZenonT(30), <2>2, <3>2, <3>3
    <3>6. \A k \in 1..5 : (result'[Plan'[k].fn][Plan'[k].ch] = "none") <=> (k > 5 - Len(calls'))
      BY <2>2, <3>2, <3>4
    <3>7. Len(calls') <= 5
      <4>1. \A m \in 1..5 : m - 1 <= 5
        OBVIOUS
      <4> QED BY <3>1, <3>2, <4>1, Zenon
    <3> QED BY <3>5, <3>6, <3>7 DEF Scheduled
  <2> QED BY <2>1, <2>3, <2>4 DEF Return
<1>2. CASE Went \/ Stood \/ ForeignWrite \/ UNCHANGED vars
  <2>1. UNCHANGED <<code, calls, result>>
    BY <1>2 DEF Went, Advance, Stood, Stay, ForeignWrite, vars
  <2>2. Plan' = Plan
    BY <2>1 DEF Plan
  <2> QED BY <2>1, <2>2 DEF Scheduled, Running
<1> QED BY <1>1, <1>2 DEF Move

\* It begins with all of the plan.
LEMMA ScheduledInitial == Init => Scheduled
<1> SUFFICES ASSUME Init PROVE Scheduled
  OBVIOUS
<1>1. calls = Plan
  BY DEF Init, Schedule, Plan
<1>2. Len(Plan) = 5
  BY DEF Plan
<1>3. \A k \in 1..5 : result[Plan[k].fn][Plan[k].ch] = "none"
  <2>1. \A k \in 1..5 : Plan[k].fn \in {"setup", "present", "cleanup"} /\ Plan[k].ch \in Challenges
    BY PlanCalls DEF Call
  <2> QED BY <2>1 DEF Init
<1>4. Len(calls) = 5 /\ \A k \in 1..5 : 5 - 5 + k = k /\ k > 5 - 5
  BY <1>1, <1>2
<1> QED BY <1>1, <1>3, <1>4 DEF Scheduled

\* The invariants so far, together.
SInv == IInv /\ Within /\ Barred /\ Scheduled

\* They hold when the command starts, before the first call of the provider.
LEMMA SInitial == Init => SInv
<1> SUFFICES ASSUME Init PROVE SInv
  OBVIOUS
<1>1. IInv /\ Scheduled
  BY Initial, ScheduledInitial
<1>2. Running => Fn = "setup" /\ pc = 1
  <2>1. Running => Fn = Plan[6 - Len(calls)].fn /\ Len(calls) = 5
    BY SMTT(30), <1>1, Turn DEF IInv, Init, Schedule
  <2> QED BY SMTT(30), <2>1 DEF Plan, Init
<1>3. Within
  BY <1>1, <1>2, Programmed DEF Within, IInv
<1> QED BY <1>1, <1>2, <1>3 DEF SInv, Barred, Init

\* Every step keeps them.
LEMMA SStep ==
  ASSUME SInv, Move
  PROVE  SInv'
<1>1. IInv'
  BY WentOK, LeftOK, StoodOK, ForeignWriteOK, Still DEF Move, SInv
<1> QED BY <1>1, WithinOK, BarredOK, ScheduledOK DEF SInv

=============================================================================
