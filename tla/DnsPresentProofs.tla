-------------------------- MODULE DnsPresentProofs --------------------------
(***************************************************************************)
(* What Present has done when it returns (module DnsProvider), for every    *)
(* table of programs and any number of refused or lost requests: the value  *)
(* is in the zone, the value of the other challenge with it, and no call    *)
(* has read through a nil pointer.                                          *)
(***************************************************************************)
EXTENDS DnsProviderProofs

\* The time the provers have for a step that names none of them.
USE ZenonT(20), SMTT(30)

-----------------------------------------------------------------------------
(* Where the value of the challenge is.                                     *)

\* The next step is not one that may take records away several times.
Steady == At => ~(Now.op \in Loops \/ (Now.retried /\ Now.op \in Disturbs))

\* What the text of the program says was written is in the copy that is edited,
\* and what it says was put into service the name servers answer with.
Placed ==
  Running /\ Steady =>
    /\ Undisturbed(Program, pc) => found \subseteq Work
    /\ Wrote(code, Program, pc) => OwnIn(Work)
    /\ WroteIf(code, Program, pc, "none") /\ found = {} => OwnIn(Work)
    /\ WroteIf(code, Program, pc, "some") /\ found # {} => OwnIn(Work)
    /\ Staged /\ Issued(code, Program, pc) /\ ~(At /\ Now.op = "publish") => OwnIn(live)

\* Where the rule finds the value written, it is.
LEMMA SecuredIn ==
  ASSUME IInv, Placed, Running, Steady, Secured(code, Program, pc)
  PROVE  OwnIn(Work)
<1>1. CASE found = {}
  BY <1>1 DEF Placed, Secured
<1>2. CASE found # {}
  <2>1. CASE Undisturbed(Program, pc) /\ Narrow(Program, pc)
    BY <1>2, <2>1 DEF Placed, OwnIn, InHand, IInv
  <2> QED BY <1>2, <2>1 DEF Placed, Secured
<1> QED BY <1>1, <1>2

\* Where it finds the value in service, it is.
LEMMA InServiceIn ==
  ASSUME IInv, Placed, Running, Steady, InService(code, Program, pc), ~(At /\ Now.op = "publish")
  PROVE  OwnIn(live)
BY SecuredIn DEF InService, Placed, Staged, Work

\* One step on, the place of the value is known again.
LEMMA WentPlaced ==
  ASSUME IInv, Placed, Went
  PROVE  Placed'
<1> USE DEF Went
<1>1. /\ Running /\ Program' = Program /\ Ch' = Ch /\ pc' = pc + 1 /\ code' = code
      /\ pc \in Nat \ {0} /\ Now = Program[pc] /\ Staged' = Staged
  BY SameCall DEF At, Advance, Typed, Now, IInv
<1>2. Now.op \notin Disturbs => Steady
  BY DEF Steady, Disturbs, Deletes
<1>3. Now.op \notin Disturbs /\ OwnIn(Work) => \E r \in Work' : r.val = Ch
  BY DEF Grows, OwnIn
<1>4. Now.op \in Creates /\ Heeded(code, Now) =>
        (\E r \in Work' : r.val = Ch) \/ (~Holds(Now.cond) /\ found' = found)
  BY DEF Puts, Handed, Alters, Creates, Loops, OwnIn
<1>5. ASSUME Undisturbed(Program, pc + 1) PROVE found' \subseteq Work'
  <2>1. Undisturbed(Program, pc) /\ Now.op \notin Disturbs
    BY <1>1, <1>5, UndisturbedStep
  <2>2. found \subseteq Work
    BY <1>1, <1>2, <2>1 DEF Placed
  <2> QED BY <2>1, <2>2 DEF Grows, Handed, Alters, Loops
<1>6. ASSUME Wrote(code, Program, pc + 1) PROVE \E r \in Work' : r.val = Ch
  <2>1. \/ Now.op \in Creates /\ Now.cond = "always" /\ Heeded(code, Now)
        \/ Wrote(code, Program, pc) /\ Now.op \notin Disturbs
    BY <1>1, <1>6, WroteStep
  <2>2. Now.cond = "always" => Holds(Now.cond)
    BY DEF Holds
  <2> QED BY <1>1, <1>2, <1>3, <1>4, <2>1, <2>2 DEF Placed
<1>7. ASSUME NEW c \in {"none", "some"}, WroteIf(code, Program, pc + 1, c), (c = "none") <=> (found' = {})
      PROVE  \E r \in Work' : r.val = Ch
  <2>1. \/ Now.op \in Creates /\ Now.cond = c /\ Heeded(code, Now)
        \/ WroteIf(code, Program, pc, c) /\ Now.op \notin Disturbs /\ SameKind(code, Program, pc)
    BY <1>1, <1>7, WroteIfStep
  <2>2. CASE Now.op \in Creates /\ Now.cond = c /\ Heeded(code, Now)
    <3>1. found' = found => Holds(Now.cond)
      BY ZenonT(30), <1>7, <2>2 DEF Holds
    <3> QED BY <1>4, <2>2, <3>1
  <2>3. CASE WroteIf(code, Program, pc, c) /\ Now.op \notin Disturbs /\ SameKind(code, Program, pc)
    <3>1. (c = "none") <=> (found = {})
      <4>1. CASE Now.op \notin Alters
        BY <1>7, <4>1 DEF Handed
      <4>2. CASE Now.op = "list" /\ Now.cond = "some" /\ Heeded(code, Now) /\ Undisturbed(Program, pc)
        <5>1. found \subseteq Work
          BY <1>1, <1>2, <2>3, <4>2 DEF Placed
        <5> QED BY <1>7, <4>2, <5>1 DEF Handed
      <4> QED BY <1>1, <2>3, <4>1, <4>2 DEF SameKind
    <3>2. OwnIn(Work)
      BY <1>1, <1>2, <2>3, <3>1 DEF Placed
    <3> QED BY <1>3, <2>3, <3>2
  <2> QED BY <2>1, <2>2, <2>3
<1>8. ASSUME Staged, Issued(code, Program, pc + 1) PROVE \E r \in live' : r.val = Ch
  <2>1. \/ /\ Now.op \in {"publish", "swap"} /\ Now.cond = "always" /\ Heeded(code, Now)
           /\ ~Now.retried /\ Secured(code, Program, pc)
        \/ Issued(code, Program, pc) /\ Now.op \notin Disturbs \cup {"publish"}
    BY <1>1, <1>8, IssuedStep
  <2>2. CASE /\ Now.op \in {"publish", "swap"} /\ Now.cond = "always" /\ Heeded(code, Now)
             /\ ~Now.retried /\ Secured(code, Program, pc)
    <3>1. OwnIn(Work) /\ Work = draft
      BY <1>1, <1>8, <2>2, SecuredIn DEF Steady, Loops, Work
    <3> QED BY <2>2, <3>1 DEF Puts, OwnIn
  <2>3. CASE Issued(code, Program, pc) /\ Now.op \notin Disturbs \cup {"publish"}
    <3>1. OwnIn(live)
      BY <1>1, <1>2, <1>8, <2>3 DEF Placed
    <3> QED BY <2>3, <3>1 DEF Grows, OwnIn
  <2> QED BY <2>1, <2>2, <2>3
<1> QED BY <1>1, <1>5, <1>6, <1>7, <1>8 DEF Placed, OwnIn

\* A request that is sent again takes nothing away, unless it is of a kind that does.
LEMMA StoodPlaced ==
  ASSUME IInv, Placed, Stood
  PROVE  Placed'
<1> USE DEF Stood
<1>1. /\ Running' = Running /\ Program' = Program /\ Ch' = Ch /\ pc' = pc /\ code' = code
      /\ Staged' = Staged /\ Now' = Now /\ At' = At /\ Steady' = Steady
  BY SameCall DEF At, Stay, Now, Steady
<1>2. CASE Steady
  <2>1. Now.op \notin Loops /\ found' = found /\ Now.op \notin Disturbs
    BY <1>2 DEF Steady
  <2>2. OwnIn(Work) => \E r \in Work' : r.val = Ch
    BY <2>1 DEF Grows, OwnIn
  <2>3. found \subseteq Work => found' \subseteq Work'
    BY <2>1 DEF Grows
  <2>4. Now.op # "publish" /\ OwnIn(live) => \E r \in live' : r.val = Ch
    BY <2>1 DEF Grows, OwnIn
  <2> QED BY <1>1, <1>2, <2>1, <2>2, <2>3, <2>4 DEF Placed, OwnIn
<1>3. CASE ~Steady
  BY <1>1, <1>3 DEF Placed
<1> QED BY <1>2, <1>3

\* At the start of a call nothing is in hand and nothing has been written.
LEMMA LeftPlaced ==
  ASSUME Left
  PROVE  Placed'
<1>1. pc' = 1 /\ found' = {}
  BY DEF Left, Return
<1>2. /\ ~Wrote(code', Program', 1) /\ ~Issued(code', Program', 1)
      /\ ~WroteIf(code', Program', 1, "none") /\ ~WroteIf(code', Program', 1, "some")
  BY AtStart
<1> QED BY <1>1, <1>2 DEF Placed

\* Another writer only adds.
LEMMA OtherPlaced ==
  ASSUME Placed, ForeignWrite \/ UNCHANGED vars
  PROVE  Placed'
<1>1. UNCHANGED <<code, calls, pc, found>> /\ live \subseteq live' /\ draft \subseteq draft'
  BY DEF ForeignWrite, vars, local, service
<1>2. /\ Running' = Running /\ Program' = Program /\ Ch' = Ch /\ Staged' = Staged /\ Now' = Now
      /\ At' = At /\ Steady' = Steady
  BY <1>1, SameCall DEF At, Now, Steady
<1>3. Work \subseteq Work'
  BY <1>1, <1>2 DEF Work
<1> QED BY <1>1, <1>2, <1>3 DEF Placed, OwnIn

\* When Present returns nil, the value of its challenge is in service.
LEMMA Published ==
  ASSUME IInv, Placed, Within, Barred, Move, Publishes(code),
         NEW c \in Challenges, result.present[c] = "none", result'.present[c] = "ok"
  PROVE  Up(c)'
<1>1. Left
  BY DEF Move, Went, Advance, Stood, Stay, ForeignWrite, vars
<1>2. PICK r \in {"ok", "error", "panic"} : Return(r) /\ Exit(r)
  BY <1>1 DEF Left
<1>3. Running /\ Fn = "present" /\ Ch = c /\ r = "ok" /\ live' = live
  BY <1>1, <1>2 DEF Left, Return, Exit, IInv, Typed
<1>4. Program = code.present /\ ~(code.setup = <<Fail>>)
  BY <1>3 DEF Program, Barred
<1>5. OwnIn(live)
  <2>1. CASE At
    <3>1. Now.op \in EarlyOk /\ pc \in DOMAIN Program /\ Now = Program[pc] /\ Steady
      BY ZenonT(30), <1>2, <1>3, <2>1, AtStep, Programmed DEF Exit, Steady, EarlyOk, Loops, Disturbs, Deletes, IInv, Typed, At, Now
    <3>2. CASE InService(code, Program, pc)
      BY <1>3, <3>1, <3>2, InServiceIn DEF EarlyOk
    <3>3. CASE ~InService(code, Program, pc)
      <4>1. /\ Undisturbed(Program, pc) /\ ~Staged
            /\ Now.op = "doneIfOwn" \/ (Now.op = "doneIfSome" /\ Narrow(Program, pc))
        BY <1>4, <3>1, <3>3 DEF Publishes, Staged
      <4>2. found \subseteq live
        BY <1>3, <3>1, <4>1 DEF Placed, Work
      <4>3. Own # {}
        BY <1>2, <1>3, <2>1, <4>1 DEF Exit, Own, InHand, IInv
      <4> QED BY <4>2, <4>3 DEF Own, OwnIn
    <3> QED BY <3>2, <3>3
  <2>2. CASE ~At
    <3>1. pc = Len(Program) + 1
      BY SMTT(30), <1>3, <2>2, Programmed DEF At, Within, IInv, Typed
    <3>2. InService(code, Program, pc) /\ Steady
      BY <1>4, <2>2, <3>1 DEF Publishes, Steady
    <3> QED BY <1>3, <2>2, <3>2, InServiceIn
  <2> QED BY <2>1, <2>2
<1> QED BY <1>3, <1>5 DEF OwnIn, Up

\* The invariants so far, together.
PInv == SInv /\ Placed

\* They hold when the command starts, before the first call of the provider.
LEMMA PInitial == Init => PInv
<1> SUFFICES ASSUME Init PROVE PInv
  OBVIOUS
<1>1. Placed
  <2>1. pc = 1 /\ found = {}
    BY DEF Init
  <2> QED BY <2>1, AtStart DEF Placed
<1> QED BY <1>1, SInitial DEF PInv

\* Every step keeps them.
LEMMA PStep ==
  ASSUME PInv, Move
  PROVE  PInv'
<1>1. SInv' /\ IInv
  BY SStep DEF PInv, SInv
<1>2. Placed'
  BY <1>1, WentPlaced, LeftPlaced, StoodPlaced, OtherPlaced DEF Move, PInv
<1> QED BY <1>1, <1>2 DEF PInv

\* They hold in every state.
THEOREM PInvariance == Spec => []PInv
<1>1. PInv /\ [Next]_vars => PInv'
  BY Moves, PStep DEF PInv, SInv
<1> QED BY <1>1, PInitial, PTL DEF Spec

\* When Present returns nil, the value is in the zone, whatever was refused or
\* lost, if all programs but the listed one keep to the rule: what the service
\* answers to the write is heeded, and no later step takes the value out.
THEOREM PresentAnnounced ==
  ASSUME \A n \in DOMAIN Providers \ {"glesys"} : Publishes(Providers[n])
  PROVE  Spec => PresentPublishes
<1> DEFINE Seen == But({"glesys"}) =>
     \A c \in Challenges : result.present[c] = "none" /\ result'.present[c] = "ok" => Up(c)'
<1>1. PInv /\ [Next]_vars => [Seen]_vars
  <2> SUFFICES ASSUME PInv, [Next]_vars, But({"glesys"}) PROVE Seen
    OBVIOUS
  <2>1. Publishes(code) /\ Move
    BY Moves DEF PInv, SInv, IInv, Typed, But
  <2> QED BY <2>1, Published DEF PInv, SInv
<1> QED BY <1>1, PInvariance, PTL DEF Spec, PresentPublishes

-----------------------------------------------------------------------------
(* The record of the first challenge while the second is presented.         *)

\* Where all records are in hand after a step, or none.
LEMMA FullIfSomeStep ==
  ASSUME NEW prog, NEW i \in Nat \ {0}, FullIfSome(prog, i + 1)
  PROVE  \/ prog[i].op = "list" /\ prog[i].cond = "always"
         \/ FullIfSome(prog, i) /\ (prog[i].op \in Alters => prog[i].op = "list")
<1>1. PICK j \in 1..i :
        /\ prog[j].op = "list" /\ prog[j].cond = "always"
        /\ \A k \in (j + 1)..i : prog[k].op \in Alters => prog[k].op = "list"
  BY DEF FullIfSome
<1>2. CASE j = i
  BY <1>1, <1>2
<1>3. CASE j # i
  <2>1. j \in 1..(i - 1) /\ i \in (j + 1)..i /\ (j + 1)..(i - 1) \subseteq (j + 1)..i
    BY <1>3
  <2> QED BY <1>1, <2>1 DEF FullIfSome
<1> QED BY <1>2, <1>3

\* Where the zone has been copied.
LEMMA ClonedStep ==
  ASSUME NEW p, NEW prog, NEW i \in Nat \ {0}, Cloned(p, prog, i + 1)
  PROVE  \/ prog[i].op = "clone" /\ prog[i].cond = "always" /\ Heeded(p, prog[i])
         \/ Cloned(p, prog, i)
<1>1. PICK j \in 1..i : prog[j].op = "clone" /\ prog[j].cond = "always" /\ Heeded(p, prog[j])
  BY DEF Cloned
<1> QED BY <1>1 DEF Cloned

Has(rs) == \E r \in rs : r.val = "a"

\* The copy that is edited has all of the zone.
Copied == Copies(Program) => Cloned(code, Program, pc)
Rolled == \E k \in 1..(pc - 1) : Program[k].op = "roll"

\* The record of the first challenge is in service, in the copy and in the list.
Kept ==
  /\ Has(live)
  /\ Staged /\ Copied => Has(draft)
  /\ Full(code, Program, pc) => Has(found)
  /\ FullIfSome(Program, pc) /\ found # {} => Has(found)
  /\ Rolls(Program) /\ ~Rolled => IsNewest(live, "a")

\* A present call of a provider that keeps both values.
Careful == Running /\ Fn = "present" /\ ~code.sequential /\ KeepsBoth(code)
Second == Careful /\ Ch = "b" /\ result.present["a"] = "ok"
SecondKept == Second => Kept
NewestRolled == Careful /\ Rolls(Program) /\ Rolled => IsNewest(live, Ch)

\* The rule for the program that runs.
LEMMA CarefulRule ==
  ASSUME Barred, Careful
  PROVE  Program = code.present /\ KeepsOther(code, Program)
BY DEF Careful, Barred, KeepsBoth, Program

\* Where there is a roll, nothing else changes what is in service.
LEMMA OnlyRoll ==
  ASSUME IInv, At, KeepsOther(code, Program), Rolls(Program), Served
  PROVE  /\ Now.op # "roll" => live' = live
         /\ Now.op = "roll" => ~Rolled /\ Now.cond = "always" /\ Heeded(code, Now) /\ ~Now.retried
         /\ ~Staged
<1>1. pc \in DOMAIN Program /\ Program \in Seq(Steps) /\ Now = Program[pc] /\ Program \in Programs(code)
  BY ZenonT(30), AtStep, Programmed DEF At, IInv, Now
<1>2. RollsOnce(code, Program) /\ ~Staged
  BY DEF KeepsOther, Staged
<1>3. PICK i \in DOMAIN Program :
        /\ Program[i].op = "roll" /\ Program[i].cond = "always" /\ Heeded(code, Program[i]) /\ ~Program[i].retried
        /\ \A k \in DOMAIN Program \ {i} : Program[k].op \notin Writes \cup EarlyOk
  BY ZenonT(30), <1>2 DEF RollsOnce
<1>4. Now.op \notin {"publish", "clone", "swap"}
  <2>1. Now.op \notin {"publish", "clone"}
    BY <1>2, Stages DEF IInv
  <2>2. ~Copies(Program)
    BY <1>1, <1>2 DEF Copies, Staged, StagesIn, UsesIn
  <2> QED BY <1>1, <2>1, <2>2 DEF KeepsOther
<1>5. ASSUME Now.op # "roll" PROVE live' = live
  <2>1. Now.op \notin Writes
    BY <1>1, <1>3, <1>5
  <2> QED BY <1>4, <2>1 DEF Served, Serve
<1>6. ASSUME Now.op = "roll" PROVE ~Rolled /\ pc = i
  <2>1. "roll" \in Writes
    BY DEF Writes, Creates
  <2>2. pc = i
    BY <1>1, <1>3, <1>6, <2>1
  <2>3. ASSUME NEW k \in 1..(pc - 1) PROVE Program[k].op # "roll"
    <3>1. k \in DOMAIN Program /\ k # i
      BY <1>1, <2>2
    <3> QED BY <1>3, <2>1, <3>1
  <2> QED BY <2>2, <2>3 DEF Rolled
<1> QED BY <1>1, <1>2, <1>3, <1>5, <1>6

\* A step of the second call spares the record of the first.
LEMMA Spares ==
  ASSUME IInv, At, KeepsOther(code, Program), Kept, Served
  PROVE  Has(live') /\ (Staged /\ Copied => Has(draft'))
<1> SUFFICES ASSUME Holds(Now.cond), Serve(Now.op)
             PROVE  Has(live') /\ (Staged /\ Copied => Has(draft'))
  BY DEF Served, Kept
<1>1. pc \in DOMAIN Program /\ Now = Program[pc]
  BY ZenonT(30), AtStep DEF IInv, Now
<1>2. Now.op \notin Deletes \cup {"putRest"}
  BY <1>1 DEF KeepsOther
<1>3. CASE Now.op \in Writes
  <2>1. SetWork(Written(Now.op))
    BY <1>3 DEF Serve, Writes, Deletes, Creates, Loops
  <2>2. Now.op \in Creates
    BY <1>2, <1>3 DEF Writes
  <2>3. (Staged => Copied) => Has(Written(Now.op))
    <3>1. CASE Now.op = "create"
      BY <3>1 DEF Written, Kept, Has, Work
    <3>2. CASE Now.op = "replace"
      <4>1. Now.cond = "none" /\ Full(code, Program, pc)
        BY <1>1, <3>2 DEF KeepsOther
      <4>2. found = {} /\ Has(found)
        BY <4>1 DEF Holds, Kept
      <4> QED BY ZenonT(30), <4>2 DEF Has
    <3>3. CASE Now.op = "putMore"
      <4>1. Full(code, Program, pc) \/ (Now.cond = "some" /\ FullIfSome(Program, pc))
        BY <1>1, <3>3 DEF KeepsOther
      <4>2. Now.cond = "some" => found # {}
        BY DEF Holds
      <4>3. Has(found)
        BY <4>1, <4>2 DEF Kept
      <4> QED BY ZenonT(30), <3>3, <4>3 DEF Written, Has
    <3>4. CASE Now.op = "roll"
      <4>1. Rolls(Program)
        BY <1>1, <3>4 DEF Rolls
      <4>2. ~Rolled /\ ~Staged
        BY <3>4, <4>1, OnlyRoll
      <4>3. IsNewest(live, "a")
        BY <4>1, <4>2 DEF Kept
      <4>4. Work = live
        BY <4>2 DEF Work
      <4>5. Has(Newest(Work))
        BY <4>3, <4>4 DEF IsNewest, Newest, Has
      <4> QED BY ZenonT(30), <3>4, <4>5 DEF Written, Has
    <3> QED BY <2>2, <3>1, <3>2, <3>3, <3>4 DEF Creates
  <2> QED BY <2>1, <2>3 DEF SetWork, Kept
<1>4. CASE Now.op = "publish"
  <2>1. live' = draft /\ draft' = draft /\ Staged
    BY ZenonT(30), <1>4, Stages DEF Serve, IInv, Writes, Deletes, Creates, Loops
  <2>2. Copied
    BY <1>1, <1>4 DEF KeepsOther, Copied
  <2> QED BY <2>1, <2>2 DEF Kept
<1>5. CASE Now.op = "swap"
  <2>1. live' = draft /\ draft' = live
    BY ZenonT(30), <1>5 DEF Serve, Writes, Deletes, Creates, Loops
  <2>2. Copied /\ Copies(Program)
    BY <1>1, <1>5 DEF KeepsOther, Copied
  <2>3. Staged
    BY <2>2, Programmed DEF Copies, Staged, StagesIn, UsesIn, IInv, At
  <2> QED BY <2>1, <2>2, <2>3 DEF Kept
<1>6. CASE Now.op = "clone"
  <2>1. live' = live /\ draft' = live
    BY <1>6 DEF Serve, Writes, Deletes, Creates, Loops
  <2> QED BY <2>1 DEF Kept
<1>7. CASE Now.op \notin Writes \cup {"publish", "swap", "clone"}
  BY <1>7 DEF Serve, Kept
<1> QED BY ZenonT(30), <1>3, <1>4, <1>5, <1>6, <1>7

\* One step on, the record of the first is in its places again.
LEMMA WentKept ==
  ASSUME IInv, Barred, SecondKept, Went
  PROVE  SecondKept'
<1> SUFFICES ASSUME Second' PROVE Kept'
  BY DEF SecondKept
<1>1. /\ At /\ Program' = Program /\ Ch' = Ch /\ Fn' = Fn /\ pc' = pc + 1 /\ code' = code
      /\ pc \in Nat \ {0} /\ Now = Program[pc] /\ Staged' = Staged /\ Served /\ Handed /\ Puts
  BY SameCall DEF Went, At, Advance, Typed, Now, IInv
<1>2. Second /\ Careful
  <2>1. UNCHANGED <<code, calls, result>>
    BY DEF Went, Advance
  <2> QED BY ZenonT(30), <2>1, SameCall DEF Second, Careful
<1>3. Kept /\ KeepsOther(code, Program)
  BY <1>2, CarefulRule DEF SecondKept
<1>4. Has(live') /\ (Staged /\ Copied => Has(draft'))
  BY <1>1, <1>3, Spares
<1>5. ASSUME Staged, Copied' PROVE Has(draft')
  <2>1. CASE ~Copies(Program)
    BY ZenonT(30), <1>4, <1>5, <2>1 DEF Copied
  <2>2. CASE Copies(Program)
    <3>1. Cloned(code, Program, pc + 1)
      BY <1>1, <1>5, <2>2 DEF Copied
    <3>2. CASE Now.op = "clone" /\ Now.cond = "always" /\ Heeded(code, Now)
      <4>1. draft' = live
        BY <1>1, <3>2 DEF Puts
      <4> QED BY <1>3, <4>1 DEF Kept
    <3>3. CASE Cloned(code, Program, pc)
      BY <1>4, <1>5, <3>3 DEF Copied
    <3> QED BY <1>1, <3>1, <3>2, <3>3, ClonedStep
  <2> QED BY <2>1, <2>2
<1>6. Now.op = "list" => Has(Work)
  <2>1. Now.op = "list" => Copied
    BY ZenonT(30), <1>1, <1>3, AtStep DEF KeepsOther, Copied, IInv
  <2> QED BY ZenonT(30), <1>3, <2>1 DEF Kept, Work
<1>7. ASSUME Full(code, Program, pc + 1) PROVE Has(found')
  <2>1. CASE Now.op = "list" /\ Now.cond = "always" /\ Heeded(code, Now)
    BY ZenonT(30), <1>1, <1>6, <2>1 DEF Handed
  <2>2. CASE Full(code, Program, pc) /\ (Now.op \in Alters => Now.op = "list" /\ Heeded(code, Now))
    BY ZenonT(30), <1>1, <1>3, <1>6, <2>2 DEF Handed, Kept
  <2> QED BY ZenonT(30), <1>1, <1>7, <2>1, <2>2, FullStep
<1>8. ASSUME FullIfSome(Program, pc + 1), found' # {} PROVE Has(found')
  <2>1. CASE Now.op = "list" /\ Now.cond = "always"
    BY ZenonT(30), <1>1, <1>6, <1>8, <2>1 DEF Handed
  <2>2. CASE FullIfSome(Program, pc) /\ (Now.op \in Alters => Now.op = "list")
    BY <1>1, <1>3, <1>6, <1>8, <2>2 DEF Handed, Kept
  <2> QED BY ZenonT(30), <1>1, <1>8, <2>1, <2>2, FullIfSomeStep
<1>9. ASSUME Rolls(Program), ~Rolled' PROVE IsNewest(live', "a")
  <2>1. ~Rolled /\ Now.op # "roll"
    <3>1. \A k \in 1..pc : Program[k].op # "roll"
      BY <1>1, <1>9 DEF Rolled
    <3> QED BY <1>1, <3>1 DEF Rolled
  <2>2. live' = live
    BY ZenonT(30), <1>1, <1>3, <1>9, <2>1, OnlyRoll
  <2> QED BY <1>3, <1>9, <2>1, <2>2 DEF Kept
<1> QED BY ZenonT(30), <1>1, <1>4, <1>5, <1>7, <1>8, <1>9 DEF Kept, Has, IsNewest

\* A request that is sent again leaves it there too.
LEMMA StoodKept ==
  ASSUME IInv, Barred, SecondKept, Stood
  PROVE  SecondKept'
<1> SUFFICES ASSUME Second' PROVE Kept'
  BY DEF SecondKept
<1>1. /\ At /\ Program' = Program /\ Ch' = Ch /\ Fn' = Fn /\ pc' = pc /\ code' = code /\ Staged' = Staged
      /\ Now = Program[pc] /\ Served /\ Copied' = Copied /\ Rolled' = Rolled
  BY ZenonT(30), SameCall DEF Stood, Stay, Now, Copied, Rolled
<1>2. Second /\ Careful
  <2>1. UNCHANGED <<code, calls, result>>
    BY DEF Stood, Stay
  <2> QED BY <2>1, SameCall DEF Second, Careful
<1>3. Kept /\ KeepsOther(code, Program)
  BY <1>2, CarefulRule DEF SecondKept
<1>4. Has(live') /\ (Staged /\ Copied => Has(draft'))
  BY <1>1, <1>3, Spares
<1>5. found' = found /\ Now.retried
  <2>1. Now.op \notin Loops
    BY ZenonT(30), <1>1, <1>3, AtStep DEF KeepsOther, Deletes, IInv
  <2> QED BY ZenonT(30), <2>1 DEF Stood
<1>6. Rolls(Program) => live' = live
  BY <1>1, <1>3, <1>5, OnlyRoll
<1> QED BY ZenonT(30), <1>1, <1>3, <1>4, <1>5, <1>6 DEF Kept, Has, IsNewest

\* A record added to the records of the challenges is not the newest.
LEMMA StillNewest ==
  ASSUME NEW v \in Challenges, NEW S, S \subseteq Numbered, IsNewest(S, v)
  PROVE  IsNewest(S \cup {Late}, v)
<1>1. PICK r \in S : r.val = v /\ \A q \in S : q.id <= r.id
  BY DEF IsNewest
<1>2. r \in [id : Nat \ 0..2, val : Challenges]
  BY SMTT(30), <1>1 DEF Numbered, Standing, Late, Record, Challenges
<1>3. Late.id = 2 /\ Late.id <= r.id
  BY <1>2 DEF Late, Record
<1> QED BY <1>1, <1>3 DEF IsNewest

\* Another writer does not disturb it.
LEMMA OtherKept ==
  ASSUME IInv, SecondKept, ForeignWrite \/ UNCHANGED vars
  PROVE  SecondKept'
<1> SUFFICES ASSUME Second' PROVE Kept'
  BY DEF SecondKept
<1>1. UNCHANGED <<code, calls, pc, found, result>> /\ live' \in {live, live \cup {Late}} /\ draft \subseteq draft'
  BY ZenonT(30) DEF ForeignWrite, vars, local, service, Late
<1>2. /\ Running' = Running /\ Program' = Program /\ Ch' = Ch /\ Fn' = Fn /\ Staged' = Staged
      /\ Copied' = Copied /\ Rolled' = Rolled
  BY ZenonT(30), <1>1, SameCall DEF Copied, Rolled
<1>3. Kept
  BY <1>1, <1>2 DEF Second, Careful, SecondKept
<1>4. IsNewest(live, "a") => IsNewest(live \cup {Late}, "a")
  BY StillNewest DEF IInv, Typed, Challenges
<1>5. Has(live) => Has(live')
  BY <1>1 DEF Has
<1>6. IsNewest(live, "a") => IsNewest(live, "a")'
  BY <1>1, <1>4 DEF IsNewest
<1>7. Has(draft) => Has(draft')
  BY <1>1 DEF Has
<1>8. Has(found) => Has(found')
  BY <1>1
<1> QED BY ZenonT(30), <1>1, <1>2, <1>3, <1>5, <1>6, <1>7, <1>8 DEF Kept, Has

\* The update of acme-dns puts the value among the two that are kept.
LEMMA NewestRolledOK ==
  ASSUME IInv, Barred, NewestRolled, Move
  PROVE  NewestRolled'
<1> SUFFICES ASSUME Careful', Rolls(Program)', Rolled' PROVE IsNewest(live, Ch)'
  BY DEF NewestRolled
<1>1. CASE Left
  BY SMTT(30), <1>1 DEF Left, Return, Rolled
<1>2. CASE ForeignWrite \/ UNCHANGED vars
  <2>1. UNCHANGED <<code, calls, pc>> /\ live' \in {live, live \cup {Late}}
    BY <1>2 DEF ForeignWrite, vars, service, Late
  <2>2. Careful /\ Program' = Program /\ Ch' = Ch /\ Rolled
    BY ZenonT(30), <2>1, SameCall DEF Careful, Rolled
  <2>3. IsNewest(live, Ch) /\ Ch \in Challenges
    BY <2>2, Programmed DEF NewestRolled, Careful, IInv
  <2>4. IsNewest(live \cup {Late}, Ch)
    BY <2>3, StillNewest DEF IInv, Typed
  <2> QED BY <2>1, <2>2, <2>3, <2>4 DEF IsNewest
<1>3. CASE Went \/ Stood
  <2>1. /\ At /\ Program' = Program /\ Ch' = Ch /\ Served /\ pc \in Nat \ {0} /\ Now = Program[pc]
        /\ Careful /\ code' = code
    BY ZenonT(30), <1>3, SameCall DEF Went, Advance, Stood, Stay, IInv, Typed, Now, Careful
  <2>2. /\ Now.op # "roll" => live' = live
        /\ Now.op = "roll" => ~Rolled /\ Now.cond = "always" /\ Heeded(code, Now) /\ ~Now.retried
        /\ ~Staged
    BY <2>1, CarefulRule, OnlyRoll
  <2>3. CASE Rolled
    BY <2>1, <2>2, <2>3 DEF NewestRolled, IsNewest
  <2>4. CASE ~Rolled
    <3>1. Went /\ pc' = pc + 1
      BY <1>3, <2>1, <2>4 DEF Stood, Stay, Went, Advance, Rolled
    <3>2. Now.op = "roll"
      BY <2>1, <2>4, <3>1 DEF Rolled
    <3> QED BY ZenonT(30), <2>1, <2>2, <3>1, <3>2 DEF Went, Puts, IsNewest
  <2> QED BY ZenonT(30), <2>3, <2>4
<1> QED BY <1>1, <1>2, <1>3 DEF Move

\* The second call comes right after the first.
LEMMA AfterFirst ==
  ASSUME IInv, Scheduled, Scheduled', IInv', Left, Second'
  PROVE  Fn = "present" /\ Ch = "a" /\ result.present["a"] = "none"
<1>1. code' = code /\ Plan' = Plan /\ Running /\ calls' = Tail(calls) /\ ~code.sequential
  BY DEF Left, Return, Plan, Second, Careful, Running
<1>2. Len(calls) \in 1..5 /\ Fn = Plan[6 - Len(calls)].fn /\ Ch = Plan[6 - Len(calls)].ch
  BY <1>1, Turn DEF IInv
<1>3. Len(calls') = Len(calls) - 1 /\ Len(calls') \in 1..5
      /\ Plan[6 - Len(calls')].fn = "present" /\ Plan[6 - Len(calls')].ch = "b"
  <2>1. (Typed /\ Scheduled /\ Running => Len(calls) \in 1..5 /\ Fn = Plan[6 - Len(calls)].fn /\ Ch = Plan[6 - Len(calls)].ch)'
    BY Turn, PTL
  <2>2. Len(calls') \in 1..5 /\ Plan[6 - Len(calls')].fn = "present" /\ Plan[6 - Len(calls')].ch = "b"
    BY <1>1, <2>1 DEF Second, Careful, IInv
  <2>3. Len(calls') = Len(calls) - 1
    BY SMTT(30), <1>1 DEF IInv, Typed, Running
  <2> QED BY <2>2, <2>3
<1>4. \A m \in 1..5 : Plan[6 - m].fn = "present" /\ Plan[6 - m].ch = "b" => m = 3
  BY <1>1 DEF Plan
<1>5. Len(calls) = 4
  <2>1. Len(calls') = 3
    BY ZenonT(30), <1>3, <1>4
  <2>2. \A n \in 1..5 : n - 1 = 3 => n = 4
    OBVIOUS
  <2> QED BY ZenonT(30), <1>2, <1>3, <2>1, <2>2
<1>6. Plan[2].fn = "present" /\ Plan[2].ch = "a"
  BY <1>1 DEF Plan
<1>7. result[Plan[2].fn][Plan[2].ch] = "none"
  <2>1. \A k \in 1..5 : result[Plan[k].fn][Plan[k].ch] = "none" <=> k > 5 - 4
    BY ZenonT(30), <1>1, <1>5 DEF Scheduled
  <2> QED BY SMTT(30), <2>1
<1> QED BY <1>2, <1>5, <1>6, <1>7

\* When the first call has returned nil, its record is in its places.
LEMMA LeftKept ==
  ASSUME PInv, NewestRolled, Scheduled, Scheduled', IInv', Left
  PROVE  SecondKept'
<1> SUFFICES ASSUME Second' PROVE Kept'
  BY DEF SecondKept
<1>1. Running /\ code' = code /\ pc' = 1 /\ found' = {} /\ Staged' = Staged
  BY DEF Left, Return, Staged
<1>2. Fn = "present" /\ Ch = "a" /\ result.present["a"] = "none" /\ result'.present["a"] = "ok"
  BY AfterFirst DEF PInv, SInv, Second
<1>3. Careful /\ Program' = code.present /\ Program = code.present
  BY <1>1, <1>2 DEF Careful, Second, Program
<1>4. KeepsOther(code, Program) /\ Publishes(code)
  BY <1>3, CarefulRule DEF PInv, SInv, Careful, KeepsBoth
<1>5. PICK r \in {"ok", "error", "panic"} : Return(r) /\ Exit(r)
  BY ZenonT(30) DEF Left
<1>6. r = "ok" /\ live' = live /\ draft' = draft
  BY SMTT(30), <1>2, <1>5 DEF Return, Exit, PInv, SInv, IInv, Typed
<1>7. Up("a")'
  BY ZenonT(30), <1>2, <1>4, Published DEF PInv, SInv, Move, Challenges
<1>8. At => Now.op \in EarlyOk /\ pc \in DOMAIN Program /\ Now = Program[pc]
  BY ZenonT(30), <1>5, <1>6, AtStep DEF Exit, PInv, SInv, IInv, Now
<1>9. ~At => pc = Len(Program) + 1 /\ Steady
  BY SMTT(30), <1>1, Programmed DEF At, PInv, SInv, Within, IInv, Typed, Steady
<1>10. ASSUME Staged, Copied' PROVE Has(draft')
  <2>1. ~Copies(Program)
    BY <1>1, <1>3, <1>10 DEF Copied, Cloned
  <2>2. ~At
    BY ZenonT(30), <1>4, <1>8, <1>10 DEF KeepsOther, Staged
  <2>3. Secured(code, Program, pc)
    BY ZenonT(30), <1>4, <1>9, <1>10, <2>1, <2>2 DEF KeepsOther, Staged
  <2>4. OwnIn(Work)
    BY ZenonT(30), <1>1, <1>9, <2>2, <2>3, SecuredIn DEF PInv, SInv
  <2> QED BY ZenonT(30), <1>2, <1>6, <1>10, <2>4 DEF Work, OwnIn, Has
<1>11. ASSUME Rolls(Program) PROVE IsNewest(live', "a")
  <2>1. PICK i \in DOMAIN Program :
          Program[i].op = "roll" /\ \A k \in DOMAIN Program \ {i} : Program[k].op \notin Writes \cup EarlyOk
    BY ZenonT(30), <1>4, <1>11 DEF KeepsOther, RollsOnce
  <2>2. ~At
    BY <1>8, <2>1 DEF EarlyOk
  <2>3. i \in 1..(pc - 1)
    BY <1>1, <1>9, <2>2, Programmed DEF PInv, SInv, IInv
  <2>4. Rolled
    BY <2>1, <2>3 DEF Rolled
  <2> QED BY ZenonT(30), <1>2, <1>3, <1>6, <1>11, <2>4 DEF NewestRolled
<1>12. ~Full(code', Program', 1) /\ ~FullIfSome(Program', 1)
  <2>1. ~Full(code', Program', 1)
    BY AtStart
  <2>2. ~FullIfSome(Program', 1)
    BY DEF FullIfSome
  <2> QED BY <2>1, <2>2
<1> QED BY <1>1, <1>3, <1>7, <1>10, <1>11, <1>12 DEF Kept, Has, Up, IsNewest

\* From the return of its Present until the first CleanUp a value stays up.
BothUp ==
  KeepsBoth(code) =>
    \A c \in Challenges :
      /\ result.present[c] = "ok" /\ ~(Running /\ Fn = "cleanup")
      /\ \A x \in Challenges : result.cleanup[x] = "none"
      => Up(c)

\* While calls are left that is the record of the first during the second Present.
LEMMA UpWhileRunning ==
  ASSUME Typed, Scheduled, SecondKept, Running
  PROVE  BothUp
<1> SUFFICES ASSUME KeepsBoth(code), NEW c \in Challenges, result.present[c] = "ok", Fn # "cleanup",
                    \A x \in Challenges : result.cleanup[x] = "none"
             PROVE  Up(c)
  BY DEF BothUp
<1> DEFINE n == Len(calls)
<1>1. n \in 1..5 /\ Fn = Plan[6 - n].fn /\ Ch = Plan[6 - n].ch
  BY ZenonT(30), Turn
<1>2. \A k \in 1..5 : result[Plan[k].fn][Plan[k].ch] = "none" <=> k > 5 - n
  BY DEF Scheduled
<1> HIDE DEF n
<1>3. CASE code.sequential
  <2>1. /\ Plan[1].fn = "setup" /\ Plan[2].fn = "present" /\ Plan[3].fn = "cleanup" /\ Plan[4].fn = "present"
        /\ Plan[5].fn = "cleanup" /\ Plan[2].ch = "a" /\ Plan[3].ch = "a" /\ Plan[4].ch = "b"
    BY ZenonT(30), <1>3 DEF Plan
  <2>2. /\ result.present["a"] = "none" <=> 2 > 5 - n
        /\ result.cleanup["a"] = "none" <=> 3 > 5 - n
        /\ result.present["b"] = "none" <=> 4 > 5 - n
    BY SMTT(30), <1>2, <2>1
  <2>3. 3 > 5 - n /\ c \in {"a", "b"}
    BY <2>2 DEF Challenges
  <2>4. n # 3
    BY SMTT(30), <1>1, <2>1
  <2> QED BY SMTT(30), <1>1, <2>2, <2>3, <2>4
<1>4. CASE ~code.sequential
  <2>1. /\ Plan[1].fn = "setup" /\ Plan[2].fn = "present" /\ Plan[3].fn = "present" /\ Plan[4].fn = "cleanup"
        /\ Plan[5].fn = "cleanup" /\ Plan[2].ch = "a" /\ Plan[3].ch = "b" /\ Plan[4].ch = "a"
    BY ZenonT(30), <1>4 DEF Plan
  <2>2. /\ result.present["a"] = "none" <=> 2 > 5 - n
        /\ result.present["b"] = "none" <=> 3 > 5 - n
    BY SMTT(30), <1>2, <2>1
  <2>3. n # 2 /\ n # 1
    BY SMTT(30), <1>1, <2>1
  <2>4. c = "a" /\ n = 3
    BY <1>1, <2>2, <2>3 DEF Challenges
  <2>5. Second
    BY SMTT(30), <1>1, <1>4, <2>1, <2>4 DEF Second, Careful
  <2> QED BY ZenonT(30), <2>4, <2>5 DEF SecondKept, Kept, Has, Up
<1> QED BY ZenonT(30), <1>3, <1>4

\* A call that panics leaves the zone as it is.
LEMMA BothUpOK ==
  ASSUME PInv, IInv', Scheduled, Scheduled', SecondKept', BothUp, Move
  PROVE  BothUp'
<1>1. CASE Running'
  <2>1. (Typed /\ Scheduled /\ SecondKept /\ Running => BothUp)'
    BY UpWhileRunning, PTL
  <2> QED BY <1>1, <2>1 DEF IInv
<1>2. CASE ~Running' /\ ~Left
  <2>1. UNCHANGED vars
    BY <1>2, SameCall DEF Move, Went, Advance, Stood, Stay, At, ForeignWrite, Running
  <2> QED BY ZenonT(30), <1>2, <2>1 DEF BothUp, vars, service, Running, Fn, Up
<1>3. CASE ~Running' /\ Left
  <2> SUFFICES ASSUME KeepsBoth(code'), NEW c \in Challenges, result'.present[c] = "ok",
                      \A x \in Challenges : result'.cleanup[x] = "none"
               PROVE  Up(c)'
    BY ZenonT(30) DEF BothUp
  <2>1. PICK r \in {"ok", "error", "panic"} : Return(r) /\ Exit(r)
    BY ZenonT(30), <1>3 DEF Left
  <2>2. /\ code' = code /\ Running /\ Fn \in {"setup", "present", "cleanup"} /\ Ch \in Challenges
        /\ result' = [result EXCEPT ![Fn][Ch] = r]
    BY ZenonT(30), <1>3, <2>1, Programmed DEF Left, Return, PInv, SInv, IInv
  <2>3. Fn # "cleanup"
    BY ZenonT(30), <2>2 DEF PInv, SInv, IInv, Typed
  <2>4. result.cleanup = result'.cleanup
    BY <2>2, <2>3 DEF PInv, SInv, IInv, Typed
  <2>5. Len(calls) \in 1..5 /\ Fn = Plan[6 - Len(calls)].fn
    BY ZenonT(30), <2>2, Turn DEF PInv, SInv, IInv
  <2>6. Fn # "setup"
    <3> SUFFICES ASSUME Fn = "setup" PROVE FALSE
      OBVIOUS
    <3>1. \A m \in 1..5 : Plan[6 - m].fn = "setup" => m = 5
      BY DEF Plan
    <3>2. Len(calls) = 5
      BY ZenonT(30), <2>5, <3>1
    <3>3. \A k \in 2..5 : result[Plan[k].fn][Plan[k].ch] = "none"
      BY SMTT(30), <2>2, <3>2 DEF Scheduled
    <3>4. \E k \in 2..5 : Plan[k].fn = "present" /\ Plan[k].ch = c
      BY DEF Plan, Challenges
    <3>5. result.present[c] = "none"
      BY <3>3, <3>4
    <3> QED BY <2>2, <3>5 DEF PInv, SInv, IInv, Typed
  <2>7. r = "panic"
    <3> SUFFICES ASSUME r # "panic" PROVE FALSE
      OBVIOUS
    <3>1. Tail(calls) = <<>>
      BY <1>3, <2>1, <2>6 DEF Return, Running
    <3>2. Len(calls) = 1
      <4>1. calls \in Seq(Call) /\ calls # <<>>
        BY <2>2 DEF PInv, SInv, IInv, Typed, Running
      <4>2. Len(Tail(calls)) = Len(calls) - 1 /\ Len(calls) \in Nat /\ Tail(calls) \in Seq(Call)
        BY <4>1
      <4>3. \A s \in Seq(Call) : s = <<>> => Len(s) = 0
        OBVIOUS
      <4>4. Len(Tail(calls)) = 0
        BY <3>1, <4>2, <4>3, Zenon
      <4>5. \A n \in Nat : n - 1 = 0 => n = 1
        OBVIOUS
      <4> QED BY <4>2, <4>4, <4>5, Zenon
    <3>3. Plan[5].fn = "cleanup"
      BY ZenonT(30) DEF Plan
    <3> QED BY SMTT(30), <2>3, <2>5, <3>2, <3>3
  <2>8. result.present[c] = "ok" /\ live' = live
    BY ZenonT(30), <2>1, <2>2, <2>7 DEF Exit, PInv, SInv, IInv, Typed
  <2>9. Up(c)
    BY <2>2, <2>3, <2>4, <2>8 DEF BothUp
  <2> QED BY ZenonT(30), <2>8, <2>9 DEF Up
<1> QED BY <1>1, <1>2, <1>3

\* All of it together.
BInv == PInv /\ NewestRolled /\ SecondKept /\ BothUp

\* The values of example.com and *.example.com are in the zone together, for
\* every provider that keeps to the rule: the Present of the second challenge
\* adds to the records of the name, or the two are solved one after the other.
THEOREM BothValues ==
  ASSUME \A n \in DOMAIN Providers \ {"gcloud", "glesys", "rcodezero", "ultradns"} : KeepsBoth(Providers[n])
  PROVE  Spec => []BothStayUp
<1>1. Init => BInv
  <2> SUFFICES ASSUME Init PROVE BInv
    OBVIOUS
  <2>1. PInv
    BY PInitial
  <2>2. ~Rolled
    <3>1. pc = 1
      BY DEF Init
    <3> QED BY <3>1 DEF Rolled
  <2>3. result.present["a"] = "none" /\ result.present["b"] = "none"
    BY DEF Init, Challenges
  <2> QED BY <2>1, <2>2, <2>3 DEF BInv, NewestRolled, SecondKept, Second, BothUp, Challenges
<1>2. BInv /\ [Next]_vars => BInv'
  <2> SUFFICES ASSUME BInv, [Next]_vars PROVE BInv'
    OBVIOUS
  <2>1. PInv /\ IInv /\ Barred /\ Move
    BY Moves DEF BInv, PInv, SInv
  <2>2. PInv'
    BY <2>1, PStep
  <2>3. Scheduled' /\ NewestRolled'
    BY <2>1, <2>2, NewestRolledOK DEF BInv, PInv, SInv
  <2>4. SecondKept'
    BY ZenonT(30), <2>1, <2>2, <2>3, WentKept, StoodKept, OtherKept, LeftKept DEF BInv, PInv, SInv, Move
  <2>5. BothUp'
    BY ZenonT(30), <2>1, <2>2, <2>3, <2>4, BothUpOK DEF BInv, PInv, SInv
  <2> QED BY <2>2, <2>3, <2>4, <2>5 DEF BInv
<1>3. BInv => BothStayUp
  BY SMTT(30) DEF BInv, PInv, SInv, IInv, Typed, BothUp, BothStayUp, But
<1> QED BY <1>1, <1>2, <1>3, PTL DEF Spec

=============================================================================
