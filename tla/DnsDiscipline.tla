---------------------------- MODULE DnsDiscipline ----------------------------
(***************************************************************************)
(* Rules for the programs of DNS providers that can be read off their text. *)
(***************************************************************************)
EXTENDS DnsSteps

Programs(p) == {p.setup, p.present, p.cleanup}
UsesIn(p, ops) == \E prog \in Programs(p) : \E i \in DOMAIN prog : prog[i].op \in ops
\* Changes are made in a copy of the zone and put into service later.
StagesIn(p) == UsesIn(p, {"publish", "clone"})

\* The steps after which the code has other records in hand than before.
Alters == {"list", "listOwn", "pick", "ownOnly"} \cup Loops

JudgeIn(p, m) == IF m \in DOMAIN p.client THEN p.client[m] ELSE Status
\* No refusal of the step passes for a good answer, and none is only logged.
\* Only a delete can be refused because there is nothing to delete.
Heeded(p, s) ==
  /\ ~s.tolerated
  /\ \A kind \in JudgeIn(p, s.m).speaks :
       kind \in JudgeIn(p, s.m).sees \/ (kind = "notFound" /\ s.op \notin Deletes)

\* Before step i the code has all records of the name in hand.
Full(p, prog, i) ==
  \E j \in 1..(i - 1) :
    /\ prog[j].op = "list" /\ prog[j].cond = "always" /\ Heeded(p, prog[j])
    /\ \A k \in (j + 1)..(i - 1) :
         prog[k].op \in Alters => prog[k].op = "list" /\ Heeded(p, prog[k])

\* Nothing was written since they were read.
Current(p, prog, i) ==
  \E j \in 1..(i - 1) :
    /\ prog[j].op = "list" /\ prog[j].cond = "always" /\ Heeded(p, prog[j])
    /\ \A k \in (j + 1)..(i - 1) : prog[k].op \notin Alters \cup Writes

\* It has in hand only records with the value of the challenge.
Narrow(prog, i) ==
  \A k \in 1..(i - 1) : prog[k].op = "list" =>
    \E j \in (k + 1)..(i - 1) : prog[j].op \in {"listOwn", "ownOnly"} /\ prog[j].cond = "always"

\* One of the tests has been passed with the records in hand.
Tested(prog, i, ops) ==
  \E j \in 1..(i - 1) :
    /\ prog[j].op \in ops /\ prog[j].cond = "always"
    /\ \A k \in (j + 1)..(i - 1) : prog[k].op \notin Alters

\* What is deleted record by record has the value of the challenge.
Narrows(p) ==
  \A prog \in Programs(p) : \A i \in DOMAIN prog :
    prog[i].op \in Loops \cup {"pick"} => Narrow(prog, i)

KeepsStanding(p) ==
  Narrows(p) /\ \A prog \in Programs(p) : \A i \in DOMAIN prog :
    /\ prog[i].op \notin {"replace", "roll"}
    /\ prog[i].op \in {"putMore", "putRest", "deleteSet"} => Full(p, prog, i)
    /\ prog[i].op = "deleteSet" =>
         \/ prog[i].cond = "noRest"
         \/ prog[i].cond = "one" /\ Tested(prog, i, {"needOwn", "doneUnlessOwn"})
         \/ Tested(prog, i, {"doneIfSome"})

KeepsLate(p) ==
  Narrows(p) /\ \A prog \in Programs(p) : \A i \in DOMAIN prog :
    /\ prog[i].op \notin {"replace", "roll", "deleteSet", "clone", "swap"}
    /\ prog[i].op \in {"putMore", "putRest"} => prog[i].cas /\ Current(p, prog, i)

\* Present writes the set of the name anew, or CleanUp deletes all of it, all
\* of its TXT records, or the first one whatever its value.
TakesOver == {
    "acmedns", "alidns", "azure_private", "azure_public", "azuredns_private",
    "azuredns_public", "bindman", "bluecat", "bunny", "clouddns", "cloudns", "cloudru",
    "designate", "dnsimple", "dnsmadeeasy", "dnspod", "dode", "duckdns", "dyn", "f5xc",
    "freemyip", "gandiv5", "gcloud", "gcore", "huaweicloud", "hurricane", "ibmcloud",
    "iijdpf", "joker_dmapi", "joker_svc", "mijnhost", "mittwald", "namecheap",
    "namedotcom", "ns1", "otc", "rackspace", "rcodezero", "rfc2136", "selectel",
    "selectelv2", "sonic", "stackpath", "tencentcloud", "ultradns", "vegadns", "versio",
    "vultr", "yandexcloud"}

\* The records are read, changed and written back without a version.
ReadModifyWrite == {
    "azion", "beget", "checkdomain", "constellix", "desec", "edgedns", "gandi",
    "godaddy", "hostinger", "hyperone", "ionos", "keyhelp", "loopia", "manageengine",
    "pdns", "rimuhosting", "route53", "servercow", "vinyldns"}

-----------------------------------------------------------------------------
(* When Present has published.                                              *)

\* The steps that take records out of the copy that is edited, or may.
Disturbs == Deletes \cup {"putRest", "replace", "roll", "clone", "swap"}

Undisturbed(prog, i) == \A k \in 1..(i - 1) : prog[k].op \notin Disturbs

\* Whether the list is empty stays as it is over step k.
SameKind(p, prog, k) ==
  \/ prog[k].op \notin Alters
  \/ prog[k].op = "list" /\ prog[k].cond = "some" /\ Heeded(p, prog[k]) /\ Undisturbed(prog, k)

\* The value was written, always or where the condition held, and no step has
\* taken it out.
Wrote(p, prog, i) ==
  \E j \in 1..(i - 1) :
    /\ prog[j].op \in Creates /\ prog[j].cond = "always" /\ Heeded(p, prog[j])
    /\ \A k \in (j + 1)..(i - 1) : prog[k].op \notin Disturbs
WroteIf(p, prog, i, cond) ==
  \E j \in 1..(i - 1) :
    /\ prog[j].op \in Creates /\ prog[j].cond = cond /\ Heeded(p, prog[j])
    /\ \A k \in (j + 1)..(i - 1) : prog[k].op \notin Disturbs /\ SameKind(p, prog, k)

\* Before step i the value of the challenge is in the copy that is edited.
Secured(p, prog, i) ==
  \/ Wrote(p, prog, i)
  \/ /\ WroteIf(p, prog, i, "none")
     /\ WroteIf(p, prog, i, "some") \/ (Undisturbed(prog, i) /\ Narrow(prog, i))

\* It has been put into service.
Issued(p, prog, i) ==
  \E j \in 1..(i - 1) :
    /\ prog[j].op \in {"publish", "swap"} /\ prog[j].cond = "always" /\ Heeded(p, prog[j])
    /\ ~prog[j].retried /\ Secured(p, prog, j)
    /\ \A k \in (j + 1)..(i - 1) : prog[k].op \notin Disturbs \cup {"publish"}

InService(p, prog, i) == IF StagesIn(p) THEN Issued(p, prog, i) ELSE Secured(p, prog, i)

\* Steps at which a call returns nil.
EarlyOk == {"done", "doneIfNone", "doneUnlessOwn", "recallOrDone", "doneIfSome", "doneIfOwn"}

\* Where Present returns nil, the value is in service, or was found there.
Publishes(p) ==
  LET prog == p.present IN
  \/ p.setup = <<Fail>>
  \/ /\ InService(p, prog, Len(prog) + 1)
     /\ \A i \in DOMAIN prog : prog[i].op \in EarlyOk =>
          \/ InService(p, prog, i)
          \/ /\ Undisturbed(prog, i) /\ ~StagesIn(p)
             /\ prog[i].op = "doneIfOwn" \/ (prog[i].op = "doneIfSome" /\ Narrow(prog, i))

-----------------------------------------------------------------------------
(* When the second Present leaves the record of the first in place.         *)

\* The code has all records of the name in hand, or none.
FullIfSome(prog, i) ==
  \E j \in 1..(i - 1) :
    /\ prog[j].op = "list" /\ prog[j].cond = "always"
    /\ \A k \in (j + 1)..(i - 1) : prog[k].op \in Alters => prog[k].op = "list"

Cloned(p, prog, i) ==
  \E j \in 1..(i - 1) : prog[j].op = "clone" /\ prog[j].cond = "always" /\ Heeded(p, prog[j])
Copies(prog) == \E i \in DOMAIN prog : prog[i].op = "clone"

\* acme-dns keeps two values: one update for each Present.
Rolls(prog) == \E i \in DOMAIN prog : prog[i].op = "roll"
RollsOnce(p, prog) ==
  \E i \in DOMAIN prog :
    /\ prog[i].op = "roll" /\ prog[i].cond = "always" /\ Heeded(p, prog[i]) /\ ~prog[i].retried
    /\ \A k \in DOMAIN prog \ {i} : prog[k].op \notin Writes \cup EarlyOk

KeepsOther(p, prog) ==
  /\ \A i \in DOMAIN prog :
       /\ prog[i].op \notin Deletes \cup {"putRest"}
       /\ prog[i].op = "replace" => prog[i].cond = "none" /\ Full(p, prog, i)
       /\ prog[i].op = "putMore" =>
            Full(p, prog, i) \/ (prog[i].cond = "some" /\ FullIfSome(prog, i))
       /\ prog[i].op \in {"list", "publish", "swap"} /\ Copies(prog) => Cloned(p, prog, i)
       /\ prog[i].op = "swap" => Copies(prog)
       /\ prog[i].op \in EarlyOk => ~StagesIn(p)
  /\ StagesIn(p) => Copies(prog) \/ Secured(p, prog, Len(prog) + 1)
  /\ Rolls(prog) => RollsOnce(p, prog) /\ ~StagesIn(p)

KeepsBoth(p) ==
  Publishes(p) /\ (p.sequential \/ p.setup = <<Fail>> \/ KeepsOther(p, p.present))

-----------------------------------------------------------------------------
(* When CleanUp has removed what Present put there.                         *)

\* Only "there is no such record" may pass for a good answer.
Minded(p, s) ==
  /\ ~s.tolerated
  /\ \A kind \in JudgeIn(p, s.m).speaks : kind \in JudgeIn(p, s.m).sees \/ kind = "notFound"

Adds(prog) == \E i \in DOMAIN prog : prog[i].op \in Creates

\* A challenge gets at most one record: only Present adds one, it is not sent
\* again, and a second write is for the other outcome of the same list.
CreatesOnce(p) ==
  /\ ~Adds(p.setup) /\ ~Adds(p.cleanup)
  /\ \A i \in DOMAIN p.present : p.present[i].op \in Creates =>
       /\ ~p.present[i].retried
       /\ \A j \in 1..(i - 1) : p.present[j].op \in Creates =>
            /\ {p.present[i].cond, p.present[j].cond} = {"none", "some"}
            /\ \A k \in (j + 1)..(i - 1) : p.present[k].op \notin Alters

\* Before step i at most one record is in hand: the code gives up on several.
Alone(prog, i) ==
  \E j \in 1..(i - 1) :
    /\ prog[j].op = "fail" /\ prog[j].cond = "many"
    /\ \A k \in (j + 1)..(i - 1) : prog[k].op \notin Alters

\* The code has in hand all records with the value of the challenge.
Covers(p, prog, i) ==
  \E j \in 1..(i - 1) :
    /\ prog[j].op \in {"list", "listOwn"} /\ prog[j].cond = "always" /\ Heeded(p, prog[j])
    /\ \A k \in (j + 1)..(i - 1) : prog[k].op \in Alters =>
         \/ prog[k].op \in {"list", "listOwn"} /\ Heeded(p, prog[k])
         \/ prog[k].op \in Loops \cup {"ownOnly"}
         \/ prog[k].op = "pick" /\ (Alone(prog, k) \/ (CreatesOnce(p) /\ Narrow(prog, k)))

\* A loop has been through all of them.
Emptied(prog, i) ==
  \E j \in 1..(i - 1) :
    /\ prog[j].op \in Loops /\ prog[j].cond = "always"
    /\ \A k \in (j + 1)..(i - 1) : prog[k].op \notin Alters

\* The steps that get hold of an identifier; it is that of the record in hand,
\* the one remembered for the challenge, the one of the record just written.
Gets == Creates \cup {"pick", "recall", "recallOrDone", "recallOrZero"}
ByToken == {"token", "value"}
Picked(prog, i) ==
  \E j \in 1..(i - 1) :
    /\ prog[j].op = "pick" /\ prog[j].cond = "always"
    /\ \A k \in (j + 1)..(i - 1) : prog[k].op \notin Gets \cup Alters
Recalled(prog, i) ==
  \E j \in 1..(i - 1) :
    /\ prog[j].op = "recall" /\ prog[j].m \in ByToken /\ prog[j].cond = "always"
    /\ \A k \in (j + 1)..(i - 1) : prog[k].op \notin Gets
Named(p, prog, i) ==
  \E j \in 1..(i - 1) :
    /\ prog[j].op \in Creates /\ prog[j].cond = "always" /\ Heeded(p, prog[j])
    /\ \A k \in (j + 1)..(i - 1) : prog[k].op \notin Gets

\* What is remembered for a challenge is the identifier of its one record.
Remembers(p) ==
  /\ CreatesOnce(p)
  /\ \A prog \in Programs(p) : \A i \in DOMAIN prog :
       prog[i].op = "remember" /\ prog[i].m \in ByToken => Named(p, prog, i)

\* The step takes the value out of the copy that is edited.
Wipes(p, prog, i) ==
  /\ Minded(p, prog[i])
  /\ \/ prog[i].op \in {"deleteOwn", "deleteSet", "putRest"}
     \/ prog[i].op = "deleteById" /\ Recalled(prog, i) /\ Remembers(p)
     \/ prog[i].op = "deletePicked" /\ Picked(prog, i) /\ Covers(p, prog, i)
Wiped(p, prog, i) == \E j \in 1..(i - 1) : Wipes(p, prog, j) /\ prog[j].cond = "always"
WipedIf(p, prog, i, cond) ==
  \E j \in 1..(i - 1) :
    /\ Wipes(p, prog, j) /\ prog[j].cond = cond
    /\ \A k \in (j + 1)..(i - 1) : prog[k].op \notin Alters

\* Before step i the value is not in that copy.
Clear(p, prog, i) ==
  \/ Wiped(p, prog, i)
  \/ WipedIf(p, prog, i, "rest") /\ WipedIf(p, prog, i, "noRest")
  \/ /\ Covers(p, prog, i)
     /\ \/ Emptied(prog, i)
        \/ WipedIf(p, prog, i, "some")
        \/ WipedIf(p, prog, i, "one") /\ WipedIf(p, prog, i, "many")

\* Nor do the name servers answer with it.
Withdrawn(p, prog, i) ==
  \E j \in 1..(i - 1) :
    prog[j].op = "publish" /\ prog[j].cond = "always" /\ Heeded(p, prog[j]) /\ Clear(p, prog, j)
OutOfService(p, prog, i) == IF StagesIn(p) THEN Withdrawn(p, prog, i) ELSE Clear(p, prog, i)

\* What is in service for a challenge stays in the copy until its CleanUp.
SparesDraft(p) ==
  /\ Undisturbed(p.setup, Len(p.setup) + 1) /\ Undisturbed(p.present, Len(p.present) + 1)
  /\ \A i \in DOMAIN p.cleanup :
       p.cleanup[i].op \in Disturbs => p.cleanup[i].op \in Loops /\ Narrow(p.cleanup, i)
  /\ \A prog \in Programs(p) : \A i \in DOMAIN prog : prog[i].op # "putMore"

\* Conditions on the records in hand.
OnFound == {"some", "none", "rest", "noRest", "one", "many"}

\* Where CleanUp returns nil, the value is out of service, or was not there.
Clears(p) ==
  LET prog == p.cleanup IN
  \/ p.setup = <<Fail>>
  \/ /\ OutOfService(p, prog, Len(prog) + 1)
     /\ \A i \in DOMAIN prog :
          /\ prog[i].op \notin Creates \cup {"clone", "swap"}
          /\ prog[i].op \in Loops => Minded(p, prog[i])
          /\ prog[i].op \in EarlyOk =>
               /\ \A k \in DOMAIN prog : prog[k].op # "deleteAll"
               /\ \/ OutOfService(p, prog, i)
                  \/ /\ prog[i].op = "done" /\ prog[i].cond \in OnFound
                     /\ WipedIf(p, prog, i, prog[i].cond) /\ ~StagesIn(p)
                  \/ /\ prog[i].op \in {"doneIfNone", "doneUnlessOwn"} /\ Covers(p, prog, i)
                     /\ StagesIn(p) => SparesDraft(p) /\ Undisturbed(prog, i)

\* CleanUp leaves the record to the service or the operator (acmedns, dyndnsfree,
\* manual, myaddr), only logs a failed delete (cloudflare, stackpath), takes the
\* first record of the name (bluecat, bunny, clouddns, ibmcloud, vegadns), or
\* returns nil for a challenge it does not remember.
LeavesBehind == {
    "acmedns", "dyndnsfree", "manual", "myaddr", "cloudflare", "stackpath", "bluecat", "bunny",
    "clouddns", "ibmcloud", "vegadns", "dyn", "easydns", "gandi", "gandiv5", "glesys", "loopia"}
=============================================================================
