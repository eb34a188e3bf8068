---------------------------- MODULE DnsPrograms ----------------------------
(***************************************************************************)
(* The vocabulary in which the programs of the DNS providers are written    *)
(* down in DnsProvidersA to DnsProvidersG.                                  *)
(***************************************************************************)
EXTENDS DnsSteps, TLC

\* A request that leaves the TXT records alone: a session, a zone, a job.
Ask(m) == Step("ask", m)
\* The same, answered from a cache of the client after the first success.
Once(m) == Step("once", m)
\* The same with a token that expires: the cache may have to be filled again.
Token(m) == Step("token", m)
\* dns01.FindZoneByFqdn, the walk up the labels (module Propagation).
Zone == Ask("FindZoneByFqdn")
\* Read the TXT records of the name: all of them, or those with this value.
List(m) == Step("list", m)
ListOwn(m) == Step("listOwn", m)
\* Keep only the first record of the list the service sent, and its identifier.
Pick == Step("pick", "")
\* "record not found": an error, or nothing left to do.
NeedFound == Step("need", "")
DoneIfNone == Step("doneIfNone", "")
DoneIfSome == Step("doneIfSome", "")
DoneUnlessOwn == Step("doneUnlessOwn", "")
DoneIfOwn == Step("doneIfOwn", "")
NeedOwn == Step("needOwn", "")
FailIfOwn == Step("failIfOwn", "")
\* The code reads through a nil pointer when nothing was found.
Deref == Step("deref", "")
\* Of the records read, keep those with this value.
OwnOnly == Step("ownOnly", "")
\* Return nil before any request is made.
Done == Step("done", "")
\* Add a record; its identifier is in the answer.
Create(m) == Step("create", m)
\* Make the record set of the name the one value.
Replace(m) == Step("replace", m)
\* Write back the records that were read, with the value added or without it.
PutMore(m) == Step("putMore", m)
PutRest(m) == Step("putRest", m)
\* Delete every record that was read, one request each.
DeleteEach(m) == Step("deleteEach", m)
\* The same, where a failed request does not stop the loop: the error is
\* returned after the last one.
DeleteAll(m) == Step("deleteAll", m)
\* Delete the record that was picked; when there is none the request goes out
\* with an empty identifier.
DeletePicked(m) == Step("deletePicked", m)
\* Delete by name and value, by name alone, by the remembered identifier.
DeleteOwn(m) == Step("deleteOwn", m)
DeleteSet(m) == Step("deleteSet", m)
DeleteById(m) == Step("deleteById", m)
\* The provider's map of identifiers, keyed by the token or by the name.
Remember(k) == Step("remember", k)
\* Recall fails when the key is unknown, RecallOrDone returns nil, RecallOrZero
\* goes on with the zero identifier; FailIfKnown refuses a second challenge
\* under the same key.
Recall(k) == Step("recall", k)
RecallOrDone(k) == Step("recallOrDone", k)
RecallOrZero(k) == Step("recallOrZero", k)
FailIfKnown(k) == Step("failIfKnown", k)
Forget(k) == Step("forget", k)
\* Put the staged changes of the zone into service.
Publish(m) == Step("publish", m)
\* Copy the zone; exchange the zone in service and the copy.
Clone(m) == Step("clone", m)
Swap(m) == Step("swap", m)
\* Carry out the step only when the last list was empty, or was not; when the
\* records read hold another value than this one, or do not.
IfSome(s) == [s EXCEPT !.cond = "some"]
IfNone(s) == [s EXCEPT !.cond = "none"]
IfRest(s) == [s EXCEPT !.cond = "rest"]
IfNoRest(s) == [s EXCEPT !.cond = "noRest"]
IfOne(s) == [s EXCEPT !.cond = "one"]
IfMany(s) == [s EXCEPT !.cond = "many"]
IfUnknown(s) == [s EXCEPT !.cond = "unknown"]
\* The error of the step is logged, or dropped, and the program goes on.
Tolerate(s) == [s EXCEPT !.tolerated = TRUE]
\* The request is sent again when no answer came.
Retried(s) == [s EXCEPT !.retried = TRUE]
\* The request carries the serial or version that was read with the records,
\* and the service refuses it when they have changed since.
Versioned(s) == [s EXCEPT !.cas = TRUE]

-----------------------------------------------------------------------------
(* Clients, and how they judge.                                             *)
\* The service also refuses in the body of a 200, and the code reads it there.
StatusAndBody == Judge({"status", "body"}, {"status", "body"})

\* One of its two ways of refusing is not looked at.
BodyUnread == Judge({"status", "body"}, {"status"})
StatusUnread == Judge({"status", "body"}, {"body"})
\* "404 not found" counts as success.
NotFoundIsFine == Judge({"status", "notFound"}, {"status"})

Calls(judge, methods) == [m \in methods |-> judge]
\* The vendor's own library, which reports every refusal it is told of.
Sdk == [m \in {} |-> Status]

Provider(client, present, cleanup) ==
    [client |-> client, setup |-> <<>>, present |-> present, cleanup |-> cleanup,
     sequential |-> FALSE]
\* The provider implements Sequential(): one challenge is solved at a time.
Sequential(p) == [p EXCEPT !.sequential = TRUE]
\* Requests made while the provider is constructed.
WithSetup(steps, p) == [p EXCEPT !.setup = steps]
=============================================================================
