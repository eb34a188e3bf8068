-------------------------- MODULE ChallengeServer --------------------------
(***************************************************************************)
(* The servers that answer the http-01 and tls-alpn-01 challenges          *)
(* (challenge/http01, challenge/tlsalpn01): Solve of the one, the          *)
(* goroutine that Present starts, the listener they share through the      *)
(* ProviderServer, and the requests of the CA.  Challenges are solved one  *)
(* after the other with the same ProviderServer.                           *)
(***************************************************************************)
EXTENDS Naturals

CONSTANT N      \* bound: challenges solved

ASSUME NAssumption == N \in Nat \ {0}

Chal == 1 .. N
Nil == 0        \* a nil listener

VARIABLES
  kind,      \* "http", "unix" (http-01 on a socket file) or "tls"
  cur,       \* the challenge Solve works on
  at,        \* where Solve is
  listener,  \* s.listener, named after the challenge it was opened for
  open,      \* the listener that has the address, Nil if it is free
  leaked,    \* a socket file was opened and its chmod failed
  gor,       \* per challenge: the goroutine that Present started
  served,    \* per challenge: the listener that goroutine serves
  req,       \* per challenge: the request of the CA for it
  via,       \* per challenge: the listener the request came in by
  by         \* per challenge: the goroutine that accepted the request

serverVars == <<kind, cur, at, listener, open, leaked, gor, served, req, via, by>>
requests == <<req, via, by>>

ServerInit ==
  /\ kind \in {"http", "unix", "tls"}
  /\ cur = 1 /\ at = "present"
  /\ listener = Nil /\ open = Nil /\ leaked = FALSE
  /\ gor = [c \in Chal |-> "none"] /\ served = [c \in Chal |-> Nil]
  /\ req = [c \in Chal |-> "none"] /\ via = [c \in Chal |-> Nil] /\ by = [c \in Chal |-> Nil]

-----------------------------------------------------------------------------
(* Solve, Present and CleanUp *)

\* Solve returns and the next challenge is solved.
NextChallenge ==
  IF cur < N THEN cur' = cur + 1 /\ at' = "present" ELSE cur' = cur /\ at' = "end"

\* net.Listen fails: the address is taken, by this process or another.
ListenFails ==
  /\ at = "present"
  /\ listener' = Nil
  /\ NextChallenge
  /\ UNCHANGED <<kind, open, leaked, gor, served, requests>>

Listen ==
  /\ at = "present" /\ open = Nil
  /\ listener' = cur /\ open' = cur

ChmodFails ==
  /\ kind = "unix"
  /\ Listen
  /\ leaked' = TRUE
  /\ NextChallenge
  /\ UNCHANGED <<kind, gor, served, requests>>

ServerPresent ==
  /\ Listen
  /\ gor' = [gor EXCEPT ![cur] = "started"]
  /\ at' = "validate"
  /\ UNCHANGED <<kind, cur, leaked, served, requests>>

\* A closed listener resets the connections that nobody has accepted.
CloseListener(l) ==
  /\ open' = IF open = l THEN Nil ELSE open
  /\ req' = [c \in Chal |-> IF req[c] = "queued" /\ via[c] = l THEN "reset" ELSE req[c]]

\* validate has returned, with or without an error.  The http-01 server waits
\* for its goroutine, the tls-alpn-01 server does not.
CleanUpForgetsClose ==
  /\ at = "validate"
  /\ IF kind = "tls" THEN NextChallenge /\ UNCHANGED <<open, req>>
     ELSE CloseListener(listener) /\ at' = "wait" /\ UNCHANGED cur
  /\ UNCHANGED <<kind, listener, leaked, gor, served, via, by>>

CleanUpWaitsFirst ==
  /\ at = "validate"
  /\ IF kind = "tls" THEN CloseListener(listener) /\ NextChallenge
     ELSE at' = "wait" /\ UNCHANGED <<cur, open, req>>
  /\ UNCHANGED <<kind, listener, leaked, gor, served, via, by>>

CleanUpForgetsDone ==
  /\ at = "validate"
  /\ CloseListener(listener) /\ NextChallenge
  /\ UNCHANGED <<kind, listener, leaked, gor, served, via, by>>

ServerCleanUp ==
  /\ at = "validate"
  /\ CloseListener(listener)
  /\ IF kind = "tls" THEN NextChallenge ELSE at' = "wait" /\ UNCHANGED cur
  /\ UNCHANGED <<kind, listener, leaked, gor, served, via, by>>

\* <-s.done in CleanUp meets s.done <- true in serve.
DoneReceived ==
  /\ at = "wait" /\ gor[cur] = "sending"
  /\ gor' = [gor EXCEPT ![cur] = "ended"]
  /\ NextChallenge
  /\ UNCHANGED <<kind, listener, open, leaked, served, requests>>

-----------------------------------------------------------------------------
(* The goroutine: serve, and the function literal of the tls-alpn-01 Present *)

\* Serve reads s.listener now; it panics without one.
Serve(g) ==
  /\ gor[g] = "started"
  /\ served' = [served EXCEPT ![g] = listener]
  /\ gor' = [gor EXCEPT ![g] = IF listener = Nil THEN "panic" ELSE "serving"]
  /\ UNCHANGED <<kind, cur, at, listener, open, leaked, requests>>

Accept(g) ==
  /\ gor[g] = "serving"
  /\ \E c \in Chal :
       /\ req[c] = "queued" /\ via[c] = served[g]
       /\ req' = [req EXCEPT ![c] = "accepted"]
       /\ by' = [by EXCEPT ![c] = g]
  /\ UNCHANGED <<kind, cur, at, listener, open, leaked, gor, served, via>>

\* Serve has returned: the http-01 goroutine goes on to s.done <- true.
Returned == IF kind = "tls" THEN "ended" ELSE "sending"

ServeReturns(g) ==
  /\ gor[g] = "serving" /\ open # served[g]
  /\ gor' = [gor EXCEPT ![g] = Returned]
  /\ UNCHANGED <<kind, cur, at, listener, open, leaked, served, requests>>

\* Accept fails for good, and Serve closes the listener itself.
ServeFails(g) ==
  /\ gor[g] = "serving" /\ open = served[g]
  /\ CloseListener(served[g])
  /\ gor' = [gor EXCEPT ![g] = Returned]
  /\ UNCHANGED <<kind, cur, at, listener, leaked, served, via, by>>

\* The handler of a connection runs on, also after CleanUp.  http-01 answers
\* from the variables of the goroutine, tls-alpn-01 with the certificate the
\* listener was opened with.
AnswersFor(c) == IF kind = "tls" THEN via[c] = c ELSE by[c] = c

Answer(c) ==
  /\ req[c] = "accepted"
  /\ req' = [req EXCEPT ![c] = IF AnswersFor(c) THEN "right" ELSE "wrong"]
  /\ UNCHANGED <<kind, cur, at, listener, open, leaked, gor, served, via, by>>

-----------------------------------------------------------------------------
\* The CA connects, once validate has asked it to, early or long after.
Connect(c) ==
  /\ req[c] = "none" /\ gor[c] # "none" /\ open # Nil
  /\ req' = [req EXCEPT ![c] = "queued"]
  /\ via' = [via EXCEPT ![c] = open]
  /\ UNCHANGED <<kind, cur, at, listener, open, leaked, gor, served, by>>

Panicked == \E g \in Chal : gor[g] = "panic"

\* All challenges are solved, or the process has ended in a panic.
Stopped == (at = "end" \/ Panicked) /\ UNCHANGED serverVars

Goroutine(g) == Serve(g) \/ Accept(g) \/ ServeReturns(g) \/ Answer(g)

ServerSolve == ListenFails \/ ChmodFails \/ ServerPresent \/ ServerCleanUp \/ DoneReceived

ServerNext ==
  \/ ~Panicked /\ (ServerSolve \/ \E g \in Chal : Goroutine(g) \/ ServeFails(g) \/ Connect(g))
  \/ Stopped

\* The Go scheduler runs every goroutine that can proceed.
Fairness ==
  /\ WF_serverVars(~Panicked /\ ServerSolve)
  /\ \A g \in Chal : WF_serverVars(~Panicked /\ Goroutine(g))

ServerSpec == ServerInit /\ [][ServerNext]_serverVars
ServerFairSpec == ServerSpec /\ Fairness

-----------------------------------------------------------------------------
(* Properties *)

\* Type correctness.
ServerTypeOK ==
  /\ kind \in {"http", "unix", "tls"} /\ cur \in Chal
  /\ at \in {"present", "validate", "wait", "end"}
  /\ listener \in Chal \cup {Nil} /\ open \in Chal \cup {Nil} /\ leaked \in BOOLEAN
  /\ gor \in [Chal -> {"none", "started", "serving", "sending", "ended", "panic"}]
  /\ served \in [Chal -> Chal \cup {Nil}]
  /\ req \in [Chal -> {"none", "queued", "reset", "accepted", "right", "wrong"}]
  /\ via \in [Chal -> Chal \cup {Nil}] /\ by \in [Chal -> Chal \cup {Nil}]

\* A request that came in while its challenge was presented is answered with
\* the key authorization of that challenge, also when its handler, or the
\* goroutine that serves, is so late that the next challenge is presented.
RightAnswer == \A c \in Chal : req[c] = "wrong" => via[c] # c

\* Between two challenges the address is free for the next Present, unless a
\* chmod has failed: Present then returns without closing its listener.
AddressReleased == at \in {"present", "end"} /\ ~leaked => open = Nil

\* Solving comes to its end: CleanUp, which waits for the goroutine, is never
\* left waiting, whether Serve has failed before or has not even begun.
Finishes == <>(at = "end" \/ Panicked)
=============================================================================
