----------------------------- MODULE SignedPost -----------------------------
(***************************************************************************)
(* The request layer of the ACME client: Core.post, Core.postAsGet and     *)
(* Core.retrievablePost (acme/api/api.go), the pool of anti-replay nonces  *)
(* shared by every goroutine (acme/api/internal/nonces), the HTTP sender   *)
(* (acme/api/internal/sender) and the resending transport that the command *)
(* line installs below it (cmd/setup.go, checkRetry); a behaviour has      *)
(* either that transport or a plain http.Client.                           *)
(*                                                                         *)
(* A member of Posts is one call of retrievablePost.  All of them share    *)
(* one pool; they run in as many goroutines as the caller likes.           *)
(***************************************************************************)
EXTENDS Naturals, Sequences, FiniteSets

CONSTANTS
  Posts,      \* the calls of retrievablePost
  RetryMax,   \* resends of one signed body by the transport of cmd/setup.go (5 in the code)
  MaxSigned,  \* bound: how often one call may sign before its 20s have elapsed
  MaxCliCalls \* bound: the calls made over that transport

ASSUME SignedPostAssumption ==
  /\ IsFiniteSet(Posts)
  /\ RetryMax \in Nat
  /\ MaxSigned \in Nat \ {0}
  /\ MaxCliCalls \in Nat

VARIABLES
  cli,         \* the transport of cmd/setup.go, rather than a plain http.Client
  pool,        \* Manager.nonces: a stack, its top is the last element
  phase,       \* where each call is
  sig,         \* the nonce inside the body the call waits for, else 0
  try,         \* how often the transport has resent this body
  signings,    \* how often the call has signed
  inbox,       \* the HTTP answer that reached the call
  \* the ACME server and the network
  net,         \* requests in flight: a request outlives the wait for its answer
  redeemable,  \* nonces issued and not redeemed yet
  lastNonce,   \* nonces are 1 .. lastNonce, issued in this order
  \* history
  effects,     \* how often the server has carried out each call
  resends,     \* how often the transport has resent a body of each call
  used         \* nonces some body has been signed with

client == <<pool, phase, sig, try, signings, inbox, resends, used>>
server == <<net, redeemable, lastNonce, effects>>
postVars == <<cli, client, server>>

PC == {"idle", "nonce", "head", "sent", "backoff", "ok", "failed"}

NoAnswer == [kind |-> "none", nonce |-> 0]

\* The classes of answer that do, checkError and checkRetry tell apart.
\* "garbled": a 2xx whose body cannot be read; "retryable": 5xx or 429;
\* "problem": any other error status.  Nonce 0: no Replay-Nonce header.
Kinds == {"ok", "garbled", "problem", "badNonce", "retryable"}

Request(p) == [post |-> p, nonce |-> sig[p], try |-> try[p]]

PostInit ==
  /\ cli \in BOOLEAN
  /\ pool = <<>>
  /\ phase = [p \in Posts |-> "idle"]
  /\ sig = [p \in Posts |-> 0]
  /\ try = [p \in Posts |-> 0]
  /\ signings = [p \in Posts |-> 0]
  /\ inbox = [p \in Posts |-> NoAnswer]
  /\ net = {}
  /\ redeemable = {}
  /\ lastNonce = 0
  /\ effects = [p \in Posts |-> 0]
  /\ resends = [p \in Posts |-> 0]
  /\ used = {}

-----------------------------------------------------------------------------
(* The nonce pool *)

\* Pop takes the nonce pushed last, under the manager's mutex.
Pop == pool[Len(pool)]

PoppedPeek == pool

Popped == SubSeq(pool, 1, Len(pool) - 1)

\* GetFromResponse and Push: a response without the header leaves the pool
\* alone, and so does a nil response, which has no nonce either.
Push(n) == IF n = 0 THEN pool ELSE Append(pool, n)

-----------------------------------------------------------------------------
(* The client *)

Start(p) ==
  /\ phase[p] = "idle"
  /\ cli => Cardinality({q \in Posts : phase[q] # "idle"}) < MaxCliCalls
  /\ phase' = [phase EXCEPT ![p] = "nonce"]
  /\ UNCHANGED <<cli, pool, sig, try, signings, inbox, resends, used, server>>

\* SignContent with nonce n, then the first transmission of the body.
SignAndSend(p, n) ==
  /\ sig' = [sig EXCEPT ![p] = n]
  /\ try' = [try EXCEPT ![p] = 0]
  /\ signings' = [signings EXCEPT ![p] = @ + 1]
  /\ used' = used \cup {n}
  /\ net' = net \cup {[post |-> p, nonce |-> n, try |-> 0]}
  /\ phase' = [phase EXCEPT ![p] = "sent"]
  /\ UNCHANGED <<inbox, resends, effects>>

NonceFromPool(p) ==
  /\ phase[p] = "nonce"
  /\ pool # <<>>
  /\ pool' = Popped
  /\ SignAndSend(p, Pop)
  /\ UNCHANGED <<redeemable, lastNonce>>

PoolEmptyWait(p) ==
  /\ phase[p] = "nonce"
  /\ pool = <<>>
  /\ UNCHANGED postVars

\* Pop finds the pool empty; the lock is released before the HEAD request.
PoolEmpty(p) ==
  /\ phase[p] = "nonce"
  /\ pool = <<>>
  /\ phase' = [phase EXCEPT ![p] = "head"]
  /\ UNCHANGED <<pool, sig, try, signings, inbox, resends, used, server>>

GetNonce(p) ==
  /\ phase[p] = "head"
  /\ lastNonce' = lastNonce + 1
  /\ redeemable' = redeemable \cup {lastNonce + 1}
  /\ SignAndSend(p, lastNonce + 1)
  /\ UNCHANGED pool

\* The HEAD request fails or its answer has no Replay-Nonce: an error that is
\* not a NonceError is permanent.
NoNonce(p) ==
  /\ phase[p] = "head"
  /\ phase' = [phase EXCEPT ![p] = "failed"]
  /\ UNCHANGED <<pool, sig, try, signings, inbox, resends, used, server>>

\* Doer.Post returned: err is nil, a NonceError, or permanent.  The nonce of
\* the response is pushed whatever the error, when there is a response.
Returned(p, outcome, n) ==
  /\ phase' = [phase EXCEPT ![p] = outcome]
  /\ pool' = Push(n)
  /\ inbox' = [inbox EXCEPT ![p] = NoAnswer]
  /\ sig' = [sig EXCEPT ![p] = 0]
  /\ try' = [try EXCEPT ![p] = 0]
  /\ UNCHANGED <<signings, resends, used, server>>

\* What retrievablePost makes of an answer: only a NonceError is retried.
OutcomeRetryServerErrors(kind) ==
  CASE kind = "ok" -> "ok"
    [] kind \in {"badNonce", "retryable"} -> "backoff"
    [] OTHER -> "failed"

OutcomeNil(kind) ==
  CASE kind = "ok" -> "ok"
    [] kind = "badNonce" -> "backoff"
    [] OTHER -> "nil"

OutcomeIgnoreStatus(kind) ==
  CASE kind \in {"ok", "problem"} -> "ok"
    [] kind = "badNonce" -> "backoff"
    [] OTHER -> "failed"

Outcome(kind) ==
  CASE kind = "ok" -> "ok"
    [] kind = "badNonce" -> "backoff"
    [] OTHER -> "failed"

\* The nonce signedPost finds in the response: the transport of the command
\* line turns an error status into an error without a response.
ResponseNonce(a) == IF cli /\ a.kind \notin {"ok", "garbled"} THEN 0 ELSE a.nonce

\* retryablehttp sends the same signed body again.
MayResend(p) == cli /\ try[p] < RetryMax

Resend(p) ==
  /\ MayResend(p)
  /\ try' = [try EXCEPT ![p] = @ + 1]
  /\ resends' = [resends EXCEPT ![p] = @ + 1]
  /\ inbox' = [inbox EXCEPT ![p] = NoAnswer]
  /\ net' = net \cup {[post |-> p, nonce |-> sig[p], try |-> try[p] + 1]}
  /\ UNCHANGED <<pool, phase, sig, signings, used, redeemable, lastNonce, effects>>

ReceiveAnswer(p) ==
  LET a == inbox[p] IN
  /\ phase[p] = "sent"
  /\ a # NoAnswer
  /\ IF a.kind = "retryable" /\ MayResend(p)
     THEN Resend(p)
     ELSE Returned(p, Outcome(a.kind), ResponseNonce(a))

TransportErrorRetried(p) ==
  /\ phase[p] = "sent"
  /\ Resend(p) \/ Returned(p, "backoff", 0)

\* The connection breaks or the HTTP timeout strikes.  Some connection errors
\* (a bad certificate, too many redirects) are never retried.
TransportError(p) ==
  /\ phase[p] = "sent"
  /\ Resend(p) \/ Returned(p, "failed", 0)

\* backoff.Retry: another signedPost, unless the 20 seconds have elapsed.
Backoff(p) ==
  /\ phase[p] = "backoff"
  /\ \/ signings[p] < MaxSigned /\ phase' = [phase EXCEPT ![p] = "nonce"]
     \/ phase' = [phase EXCEPT ![p] = "failed"]
  /\ UNCHANGED <<pool, sig, try, signings, inbox, resends, used, server>>

-----------------------------------------------------------------------------
(* The server and the network *)

Awaited(m) == phase[m.post] = "sent" /\ m = Request(m.post)

\* The answer to a request whose call still waits; it may carry a new nonce,
\* and left is what stays redeemable besides it.  An answer that is lost on its
\* way is one the call drops in TransportError.
Answer(m, kind, left) ==
  /\ net' = net \ {m}
  /\ \E fresh \in BOOLEAN :
       LET n == IF fresh THEN lastNonce + 1 ELSE 0 IN
       /\ lastNonce' = IF fresh THEN n ELSE lastNonce
       /\ redeemable' = IF fresh THEN left \cup {n} ELSE left
       /\ inbox' = [inbox EXCEPT ![m.post] = [kind |-> kind, nonce |-> n]]
  /\ UNCHANGED <<pool, phase, sig, try, signings, resends, used>>

\* The nonce is good: the request is carried out, awaited or not.
Execute(m) ==
  /\ m.nonce \in redeemable
  /\ effects' = [effects EXCEPT ![m.post] = @ + 1]
  /\ IF Awaited(m)
     THEN \E kind \in {"ok", "garbled", "retryable"} :
            Answer(m, kind, redeemable \ {m.nonce})
     ELSE /\ net' = net \ {m}
          /\ redeemable' = redeemable \ {m.nonce}
          /\ UNCHANGED <<client, lastNonce>>

\* The request is refused for another reason than its nonce.  Whether that uses
\* the nonce up is left open: RejectNonce may follow.
Refuse(m) ==
  /\ Awaited(m)
  /\ \E kind \in {"problem", "retryable"} : Answer(m, kind, redeemable)
  /\ UNCHANGED effects

\* The nonce was redeemed before, or the server has forgotten it.
RejectNonce(m) ==
  /\ Awaited(m)
  /\ Answer(m, "badNonce", redeemable \ {m.nonce})
  /\ UNCHANGED effects

-----------------------------------------------------------------------------
Call(p) ==
  /\ \/ NonceFromPool(p)
     \/ PoolEmpty(p)
     \/ GetNonce(p)
     \/ NoNonce(p)
     \/ ReceiveAnswer(p)
     \/ TransportError(p)
     \/ Backoff(p)
  /\ UNCHANGED cli

\* A request that never arrives is one that is never served.
Serve(m) == (Execute(m) \/ Refuse(m) \/ RejectNonce(m)) /\ UNCHANGED cli

PostNext ==
  \/ \E p \in Posts : Start(p) \/ Call(p)
  \/ \E m \in net : Serve(m)

PostSpec == PostInit /\ [][PostNext]_postVars

\* A call that has begun goes on: no step of it waits without a timeout
\* (the HTTP client has one), and its goroutine is scheduled.
FairPostSpec == PostSpec /\ \A p \in Posts : WF_postVars(Call(p))

-----------------------------------------------------------------------------
(* Properties *)

Nonces == 1 .. lastNonce

RequestSet == [post : Posts, nonce : Nat, try : Nat]

AnswerSet == [kind : Kinds, nonce : Nat] \cup {NoAnswer}

\* Type correctness of the client, the network and the server.
PostTypeOK ==
  /\ cli \in BOOLEAN
  /\ pool \in Seq(Nat)
  /\ phase \in [Posts -> PC]
  /\ sig \in [Posts -> Nat]
  /\ try \in [Posts -> Nat]
  /\ signings \in [Posts -> Nat]
  /\ inbox \in [Posts -> AnswerSet]
  /\ net \subseteq RequestSet
  /\ lastNonce \in Nat
  /\ redeemable \subseteq Nonces
  /\ effects \in [Posts -> Nat]
  /\ resends \in [Posts -> Nat]
  /\ used \subseteq Nat

\* No body is ever signed with a nonce that signed another body, whichever
\* goroutines race for the pool (Manager.Pop, Push and Nonce) and whatever
\* the answers to the earlier bodies were.
FreshSignature ==
  [][\A p \in Posts : signings'[p] # signings[p] => sig'[p] \notin used]_postVars

\* With a plain http.Client a call of retrievablePost is carried out at most
\* once, even when an answer is lost or late: only a badNonce answer makes it
\* sign again, and the server carried out nothing then.
AtMostOnce == ~cli => \A p \in Posts : effects[p] <= 1

\* With the transport of the command line a call may be carried out again,
\* but only as often as that transport has resent one of its bodies.
EffectsBounded == \A p \in Posts : effects[p] <= 1 + resends[p]

\* A call that returns without error was carried out by the server.
OkIsExecuted == \A p \in Posts : phase[p] = "ok" => effects[p] >= 1

\* Every call returns: the loop over bad nonces, the HEAD request and the
\* resending transport all come to an end, and no call waits for a nonce that
\* another goroutine may never push.
PostReturns == \A p \in Posts : phase[p] = "nonce" ~> phase[p] \in {"ok", "failed"}
=============================================================================
