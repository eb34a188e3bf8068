---------------------------- MODULE ObtainProofs ----------------------------
(***************************************************************************)
(* Certifier.Obtain and the requests below it.                              *)
(*                                                                          *)
(* SignedPost, for every set of calls, both transports and every bound:     *)
(* type correctness, freshness of the nonces, and the number of times the   *)
(* server carries a call out.                                               *)
(*                                                                          *)
(* Certifier, for any finite set of domains: the fetching of the            *)
(* authorizations, the certificate of a success, the deactivation.          *)
(***************************************************************************)
EXTENDS SignedPost, Certifier, FiniteSetTheorems, SequenceTheorems, TLAPS

\* The time the provers have for a step that names none of them.
USE ZenonT(10), SMTT(30)

USE SignedPostAssumption


-----------------------------------------------------------------------------
(* Type correctness *)

\* Push and Popped keep the pool a sequence of nonces.
LEMMA PoolType ==
  ASSUME pool \in Seq(Nat)
  PROVE  /\ \A n \in Nat : Push(n) \in Seq(Nat)
         /\ pool # <<>> => Pop \in Nat /\ Popped \in Seq(Nat)
BY DEF Push, Pop, Popped

\* What the sets of requests and answers contain.
LEMMA Records ==
  /\ \A p \in Posts, n \in Nat, t \in Nat : [post |-> p, nonce |-> n, try |-> t] \in RequestSet
  /\ \A m \in RequestSet : m.post \in Posts /\ m.nonce \in Nat /\ m.try \in Nat
  /\ \A k \in Kinds, n \in Nat : [kind |-> k, nonce |-> n] \in AnswerSet
  /\ \A a \in AnswerSet : a.kind \in Kinds \cup {"none"} /\ a.nonce \in Nat
  /\ NoAnswer \in AnswerSet
BY SMTT(30) DEF RequestSet, AnswerSet, NoAnswer, Kinds

\* Every step of a call and of the server preserves the types.
LEMMA TypeStep == PostTypeOK /\ [PostNext]_postVars => PostTypeOK'
<1> SUFFICES ASSUME PostTypeOK, [PostNext]_postVars PROVE PostTypeOK'
  OBVIOUS
<1>0. cli' = cli
  BY DEF PostNext, Start, Call, Serve, postVars
<1> USE <1>0, Records DEF PostTypeOK, client, server, Nonces
<1>1. ASSUME NEW p \in Posts, Start(p) \/ PoolEmpty(p) \/ NoNonce(p) \/ Backoff(p)
      PROVE PostTypeOK'
  BY ZenonT(30), <1>1 DEF Start, PoolEmpty, NoNonce, Backoff, PC
<1>2. ASSUME NEW p \in Posts, NEW n \in Nat, SignAndSend(p, n), pool' \in Seq(Nat),
             lastNonce' \in Nat, redeemable' \subseteq 1 .. lastNonce'
      PROVE PostTypeOK'
  <2>1. signings' \in [Posts -> Nat]
    BY SMT, <1>2 DEF SignAndSend
  <2>2. net' \subseteq RequestSet
    <3>1. [post |-> p, nonce |-> n, try |-> 0] \in RequestSet
      BY Records, <1>2
    <3> QED BY ZenonT(30), <1>2, <3>1 DEF SignAndSend
  <2>3. sig' \in [Posts -> Nat] /\ try' \in [Posts -> Nat] /\ used' \subseteq Nat
    BY SMT, <1>2 DEF SignAndSend
  <2> QED BY ZenonT(30), <1>2, <2>1, <2>2, <2>3 DEF SignAndSend, PC
<1>3. ASSUME NEW p \in Posts, NonceFromPool(p) PROVE PostTypeOK'
  <2>1. Pop \in Nat /\ Popped \in Seq(Nat)
    BY <1>3, PoolType DEF NonceFromPool
  <2>2. QED
    BY ZenonT(30), <1>2, <1>3, <2>1 DEF NonceFromPool
<1>4. ASSUME NEW p \in Posts, GetNonce(p) PROVE PostTypeOK'
  <2>1. lastNonce + 1 \in Nat /\ redeemable \cup {lastNonce + 1} \subseteq 1 .. (lastNonce + 1)
    BY SMTT(30)
  <2>2. SignAndSend(p, lastNonce + 1) /\ pool' \in Seq(Nat) /\ lastNonce' \in Nat
        /\ redeemable' \subseteq 1 .. lastNonce'
    BY <1>4, <2>1 DEF GetNonce
  <2>3. QED
    BY ZenonT(30), <1>2, <2>1, <2>2
<1>5. ASSUME NEW p \in Posts, NEW o \in PC, NEW n \in Nat, Returned(p, o, n) PROVE PostTypeOK'
  <2>1. Push(n) \in Seq(Nat)
    BY PoolType
  <2>2. QED
    BY ZenonT(30), <1>5, <2>1 DEF Returned
<1>6. ASSUME NEW p \in Posts, Resend(p) PROVE PostTypeOK'
  BY SMTT(30), <1>6 DEF Resend
<1>7. ASSUME NEW p \in Posts, ReceiveAnswer(p) PROVE PostTypeOK'
  <2>1. Outcome(inbox[p].kind) \in PC
    BY DEF Outcome, PC
  <2>2. ResponseNonce(inbox[p]) \in Nat
    BY DEF ResponseNonce
  <2>3. CASE Resend(p)
    BY ZenonT(30), <1>6, <2>3
  <2>4. CASE Returned(p, Outcome(inbox[p].kind), ResponseNonce(inbox[p]))
    BY ZenonT(30), <1>5, <2>1, <2>2, <2>4
  <2>5. QED
    BY ZenonT(30), <1>7, <2>3, <2>4 DEF ReceiveAnswer
<1>8. ASSUME NEW p \in Posts, TransportError(p) PROVE PostTypeOK'
  <2>1. "failed" \in PC
    BY DEF PC
  <2>2. QED
    BY ZenonT(30), <1>5, <1>6, <1>8, <2>1 DEF TransportError
<1>9. ASSUME NEW m \in net, NEW k \in Kinds, NEW left \in SUBSET redeemable,
             Answer(m, k, left), effects' \in [Posts -> Nat]
      PROVE PostTypeOK'
  <2>1. PICK fresh \in BOOLEAN :
          LET n == IF fresh THEN lastNonce + 1 ELSE 0 IN
          /\ lastNonce' = IF fresh THEN n ELSE lastNonce
          /\ redeemable' = IF fresh THEN left \cup {n} ELSE left
          /\ inbox' = [inbox EXCEPT ![m.post] = [kind |-> k, nonce |-> n]]
    BY ZenonT(30), <1>9 DEF Answer
  <2>2. lastNonce' \in Nat /\ redeemable' \subseteq 1 .. lastNonce'
    BY SMTT(30), <2>1
  <2>3. inbox' \in [Posts -> AnswerSet]
    BY SMTT(30), <2>1
  <2>4. QED
    BY <1>9, <2>2, <2>3 DEF Answer
<1>10. ASSUME NEW m \in net, Execute(m) PROVE PostTypeOK'
  <2>1. effects' \in [Posts -> Nat]
    BY SMTT(30), <1>10 DEF Execute
  <2>2. CASE Awaited(m)
    <3>1. PICK k \in {"ok", "garbled", "retryable"} : Answer(m, k, redeemable \ {m.nonce})
      BY <1>10, <2>2 DEF Execute
    <3>2. k \in Kinds
      BY DEF Kinds
    <3>3. QED
      BY ZenonT(30), <1>9, <2>1, <3>1, <3>2
  <2>3. CASE ~Awaited(m)
    BY ZenonT(30), <1>10, <2>1, <2>3 DEF Execute
  <2>4. QED
    BY <2>2, <2>3
<1>11. ASSUME NEW m \in net, Refuse(m) \/ RejectNonce(m) PROVE PostTypeOK'
  <2>1. effects' \in [Posts -> Nat]
    BY <1>11 DEF Refuse, RejectNonce
  <2>2. PICK k \in {"problem", "retryable", "badNonce"}, left \in SUBSET redeemable :
          Answer(m, k, left)
    BY <1>11 DEF Refuse, RejectNonce
  <2>3. k \in Kinds
    BY DEF Kinds
  <2>4. QED
    BY ZenonT(30), <1>9, <2>1, <2>2, <2>3
<1>12. CASE UNCHANGED postVars
  BY <1>12 DEF postVars
<1>13. QED
  BY ZenonT(30), <1>1, <1>3, <1>4, <1>7, <1>8, <1>10, <1>11, <1>12 DEF PostNext, Call, Serve

\* SignedPost keeps its state within its types.
THEOREM PostTypeCorrect == PostSpec => []PostTypeOK
<1>1. PostInit => PostTypeOK
  BY SMTT(30) DEF PostInit, PostTypeOK, PC, AnswerSet, NoAnswer
<1>2. QED
  BY <1>1, TypeStep, PTL DEF PostSpec

-----------------------------------------------------------------------------
(* Freshness of the nonces *)

\* The nonces the client holds, in the pool or in an answer it has not handled
\* yet, are distinct, were issued, and have signed nothing.
NonceInv ==
  /\ used \subseteq Nonces
  /\ \A i \in DOMAIN pool : pool[i] \in Nonces \ used
  /\ \A i, j \in DOMAIN pool : pool[i] = pool[j] => i = j
  /\ \A p \in Posts : inbox[p].nonce # 0 =>
       /\ inbox[p].nonce \in Nonces \ used
       /\ \A i \in DOMAIN pool : pool[i] # inbox[p].nonce
       /\ \A q \in Posts : inbox[q].nonce = inbox[p].nonce => q = p

\* Pushing a nonce that is nowhere else keeps the pool free of duplicates.
LEMMA PushInv ==
  ASSUME PostTypeOK, NonceInv, NEW n \in Nat,
         n # 0 => n \in Nonces \ used /\ \A i \in DOMAIN pool : pool[i] # n
  PROVE  /\ Push(n) \in Seq(Nat)
         /\ \A i \in DOMAIN Push(n) : Push(n)[i] \in Nonces \ used
         /\ \A i, j \in DOMAIN Push(n) : Push(n)[i] = Push(n)[j] => i = j
         /\ \A i \in DOMAIN Push(n) :
              Push(n)[i] = n \/ \E j \in DOMAIN pool : Push(n)[i] = pool[j]
BY SMTT(30) DEF PostTypeOK, NonceInv, Push, Nonces

\* Popping takes a nonce that is then in the pool no more.
LEMMA PopInv ==
  ASSUME PostTypeOK, NonceInv, pool # <<>>
  PROVE  /\ Pop \in Nonces \ used
         /\ \A p \in Posts : inbox[p].nonce # Pop
         /\ \A i \in DOMAIN Popped : Popped[i] = pool[i] /\ i \in DOMAIN pool /\ Popped[i] # Pop
<1>1. Len(pool) \in Nat \ {0} /\ DOMAIN pool = 1 .. Len(pool)
  BY SMTT(30) DEF PostTypeOK
<1>2. DOMAIN Popped = 1 .. (Len(pool) - 1) /\ \A i \in DOMAIN Popped : Popped[i] = pool[i]
  BY <1>1 DEF PostTypeOK, Popped
<1>3. Pop \in Nonces \ used
  BY SMTT(30), <1>1 DEF NonceInv, Pop
<1>4. ASSUME NEW p \in Posts, inbox[p].nonce = Pop PROVE FALSE
  <2>1. inbox[p].nonce # 0
    BY SMTT(30), <1>3, <1>4 DEF Nonces, PostTypeOK
  <2>2. QED
    BY SMTT(30), <1>1, <1>4, <2>1 DEF NonceInv, Pop
<1>5. \A i \in DOMAIN Popped : i \in DOMAIN pool /\ i # Len(pool)
  BY <1>1, <1>2
<1>6. QED
  BY SMTT(30), <1>1, <1>2, <1>3, <1>4, <1>5 DEF NonceInv, Pop

\* Every step keeps the held nonces fresh.
LEMMA NonceStep == PostTypeOK /\ NonceInv /\ [PostNext]_postVars => NonceInv'
<1> SUFFICES ASSUME PostTypeOK, NonceInv, [PostNext]_postVars PROVE NonceInv'
  OBVIOUS
<1>1. ASSUME NEW p \in Posts, Start(p) \/ PoolEmpty(p) \/ NoNonce(p) \/ Backoff(p)
      PROVE NonceInv'
  BY ZenonT(30), <1>1 DEF Start, PoolEmpty, NoNonce, Backoff, server, NonceInv, Nonces
<1>2. ASSUME NEW p \in Posts, NonceFromPool(p) PROVE NonceInv'
  <2>1. pool # <<>> /\ pool' = Popped /\ used' = used \cup {Pop} /\ inbox' = inbox
        /\ lastNonce' = lastNonce
    BY <1>2 DEF NonceFromPool, SignAndSend
  <2>2. QED
    <3>1. Nonces' = Nonces
      BY <2>1 DEF Nonces
    <3>2. \A i \in DOMAIN Popped : Popped[i] = pool[i] /\ i \in DOMAIN pool /\ Popped[i] # Pop
      BY <2>1, PopInv
    <3>3. Pop \in Nonces \ used /\ \A q \in Posts : inbox[q].nonce # Pop
      BY <2>1, PopInv
    <3>4. QED
      BY SMTT(30), <2>1, <3>1, <3>2, <3>3 DEF NonceInv
<1>3. ASSUME NEW p \in Posts, GetNonce(p) PROVE NonceInv'
  <2>1. pool' = pool /\ used' = used \cup {lastNonce + 1} /\ inbox' = inbox
        /\ lastNonce' = lastNonce + 1
    BY <1>3 DEF GetNonce, SignAndSend
  <2>2. Nonces' = Nonces \cup {lastNonce + 1} /\ lastNonce + 1 \notin Nonces
    BY <2>1 DEF Nonces, PostTypeOK
  <2>3. QED
    BY <2>1, <2>2 DEF NonceInv
<1>4. ASSUME NEW p \in Posts, NEW o, NEW n \in {0, inbox[p].nonce}, Returned(p, o, n)
      PROVE NonceInv'
  <2>1. n \in Nat /\ (n # 0 => n \in Nonces \ used /\ \A i \in DOMAIN pool : pool[i] # n)
    <3>1. inbox[p].nonce \in Nat
      BY Records DEF PostTypeOK
    <3>2. QED
      BY SMTT(30), <3>1 DEF NonceInv
  <2>2. \A q \in Posts : inbox'[q] = IF q = p THEN NoAnswer ELSE inbox[q]
    BY <1>4 DEF Returned, PostTypeOK
  <2>3. \A q \in Posts : inbox'[q].nonce # 0 => q # p /\ inbox'[q].nonce = inbox[q].nonce
    BY <2>2 DEF NoAnswer
  <2>4. pool' = Push(n) /\ used' = used /\ lastNonce' = lastNonce
    BY <1>4 DEF Returned, server
  <2>5. ASSUME NEW q \in Posts, inbox'[q].nonce # 0, NEW i \in DOMAIN pool'
        PROVE pool'[i] # inbox'[q].nonce
    BY SMTT(30), <2>1, <2>3, <2>4, <2>5, PushInv DEF NonceInv
  <2>6. ASSUME NEW q \in Posts, inbox'[q].nonce # 0
        PROVE /\ inbox'[q].nonce \in Nonces' \ used'
              /\ \A r \in Posts : inbox'[r].nonce = inbox'[q].nonce => r = q
    BY <2>3, <2>4, <2>6 DEF NonceInv, Nonces
  <2>7. /\ \A i \in DOMAIN pool' : pool'[i] \in Nonces' \ used'
        /\ \A i, j \in DOMAIN pool' : pool'[i] = pool'[j] => i = j
    <3>1. Nonces' = Nonces
      BY <2>4 DEF Nonces
    <3>2. QED
      BY <2>1, <2>4, <3>1, PushInv
  <2>8. used' \subseteq Nonces'
    BY <2>4 DEF NonceInv, Nonces
  <2>9. QED
    BY <2>5, <2>6, <2>7, <2>8 DEF NonceInv
<1>5. ASSUME NEW p \in Posts, Resend(p) PROVE NonceInv'
  <2>1. \A q \in Posts : inbox'[q] = IF q = p THEN NoAnswer ELSE inbox[q]
    BY <1>5 DEF Resend, PostTypeOK
  <2>2. \A q \in Posts : inbox'[q].nonce # 0 => inbox'[q] = inbox[q]
    BY <2>1 DEF NoAnswer
  <2>3. pool' = pool /\ used' = used /\ lastNonce' = lastNonce
    BY <1>5 DEF Resend
  <2>4. QED
    BY <2>2, <2>3 DEF NonceInv, Nonces
<1>6. ASSUME NEW p \in Posts, ReceiveAnswer(p) PROVE NonceInv'
  <2>1. ResponseNonce(inbox[p]) \in {0, inbox[p].nonce}
    BY DEF ResponseNonce
  <2>2. QED
    BY <1>4, <1>5, <1>6, <2>1 DEF ReceiveAnswer
<1>7. ASSUME NEW p \in Posts, TransportError(p) PROVE NonceInv'
  BY <1>4, <1>5, <1>7 DEF TransportError
<1>8. ASSUME NEW m \in net, NEW k, NEW left, Answer(m, k, left) PROVE NonceInv'
  <2>1. PICK n \in {0, lastNonce + 1} :
          /\ lastNonce' = IF n = 0 THEN lastNonce ELSE n
          /\ inbox' = [inbox EXCEPT ![m.post] = [kind |-> k, nonce |-> n]]
    <3>1. PICK fresh \in BOOLEAN :
            LET n == IF fresh THEN lastNonce + 1 ELSE 0 IN
            /\ lastNonce' = IF fresh THEN n ELSE lastNonce
            /\ inbox' = [inbox EXCEPT ![m.post] = [kind |-> k, nonce |-> n]]
      BY ZenonT(30), <1>8 DEF Answer
    <3>2. lastNonce + 1 # 0
      BY DEF PostTypeOK
    <3>3. CASE fresh
      BY <3>1, <3>2, <3>3
    <3>4. CASE ~fresh
      BY <3>1, <3>4
    <3>5. QED
      BY <3>3, <3>4
  <2>2. \A q \in Posts : inbox'[q].nonce = IF q = m.post THEN n ELSE inbox[q].nonce
    BY <2>1 DEF PostTypeOK
  <2>3. pool' = pool /\ used' = used
    BY <1>8 DEF Answer
  <2>4. lastNonce \in Nat /\ Nonces \subseteq Nonces' /\ lastNonce + 1 \notin Nonces
        /\ (n # 0 => n \in Nonces')
    BY SMTT(30), <2>1 DEF PostTypeOK, Nonces
  <2>5. QED
    BY SMTT(30), <2>2, <2>3, <2>4 DEF NonceInv
<1>9. ASSUME NEW m \in net, Serve(m) PROVE NonceInv'
  <2>1. CASE Execute(m) /\ ~Awaited(m)
    BY ZenonT(30), <2>1 DEF Execute, client, NonceInv, Nonces
  <2>2. CASE \E k, left : Answer(m, k, left)
    BY <1>8, <2>2
  <2>3. QED
    BY <1>9, <2>1, <2>2 DEF Serve, Execute, Refuse, RejectNonce
<1>10. CASE UNCHANGED postVars
  BY <1>10 DEF postVars, client, server, NonceInv, Nonces
<1>11. QED
  BY <1>1, <1>2, <1>3, <1>6, <1>7, <1>9, <1>10 DEF PostNext, Call

\* The inductive invariant behind FreshSignature holds throughout.
THEOREM NoncesFresh == PostSpec => []NonceInv
<1>1. PostInit => NonceInv
  BY SMTT(30) DEF PostInit, NonceInv, NoAnswer, Nonces
<1>2. QED
  BY <1>1, NonceStep, PostTypeCorrect, PTL DEF PostSpec

\* No body is signed with a nonce that signed another one: FreshSignature for
\* any number of goroutines over the pool of the nonce manager.
THEOREM SignaturesFresh == PostSpec => FreshSignature
<1>1. PostTypeOK /\ NonceInv /\ [PostNext]_postVars =>
        [\A p \in Posts : signings'[p] # signings[p] => sig'[p] \notin used]_postVars
  <2> SUFFICES ASSUME PostTypeOK, NonceInv, PostNext, NEW p \in Posts, signings'[p] # signings[p]
               PROVE sig'[p] \notin used
    OBVIOUS
  <2>1. PICK q \in Posts : NonceFromPool(q) \/ GetNonce(q)
    BY ZenonT(30) DEF PostNext, Call, Serve, Start, PoolEmpty, NoNonce, ReceiveAnswer, Returned, Resend,
           TransportError, Backoff, Execute, Refuse, RejectNonce, Answer, client
  <2>2. CASE NonceFromPool(q)
    BY <2>2, PopInv DEF NonceFromPool, SignAndSend, PostTypeOK
  <2>3. CASE GetNonce(q)
    BY SMTT(30), <2>3 DEF GetNonce, SignAndSend, PostTypeOK, NonceInv, Nonces
  <2>4. QED
    BY <2>1, <2>2, <2>3
<1>2. QED
  BY <1>1, PostTypeCorrect, NoncesFresh, PTL DEF PostSpec, FreshSignature

-----------------------------------------------------------------------------
(* How often a call is carried out *)

\* The requests of call p that are still in flight.
Copies(p) == {m \in net : m.post = p}

\* The one transmission that is no resend: none while the call has nothing
\* signed that the server could still accept.
Credit(p) ==
  IF phase[p] \in {"idle", "nonce", "head", "backoff"} \/ inbox[p].kind = "badNonce"
  THEN 0 ELSE 1

\* Every execution of a call, past or to come, is paid for by its first
\* transmission since the last badNonce answer or by a resend.
CountInv ==
  /\ IsFiniteSet(net)
  /\ \A p \in Posts : inbox[p] # NoAnswer => phase[p] = "sent"
  /\ \A p \in Posts : effects[p] + Cardinality(Copies(p)) <= Credit(p) + resends[p]

\* How adding a request to the network or taking one away changes the copies.
LEMMA CopiesChange ==
  ASSUME IsFiniteSet(net), NEW m, NEW p
  PROVE  /\ IsFiniteSet(Copies(p)) /\ Cardinality(Copies(p)) \in Nat
         /\ IsFiniteSet(net \cup {m}) /\ IsFiniteSet(net \ {m})
         /\ net' = net => Copies(p)' = Copies(p)
         /\ net' = net \cup {m} =>
              /\ m.post # p => Copies(p)' = Copies(p)
              /\ Cardinality(Copies(p)') <= Cardinality(Copies(p)) + 1
              /\ Cardinality(Copies(p)') \in Nat
         /\ net' = net \ {m} /\ m \in net =>
              /\ m.post # p => Copies(p)' = Copies(p)
              /\ m.post = p => /\ Cardinality(Copies(p)') = Cardinality(Copies(p)) - 1
                               /\ Cardinality(Copies(p)') \in Nat
<1>1. Copies(p) \subseteq net
  BY DEF Copies
<1>2. IsFiniteSet(Copies(p))
  BY <1>1, FS_Subset
<1>3. Cardinality(Copies(p)) \in Nat
  BY <1>2, FS_CardinalityType
<1>4. IsFiniteSet(net \cup {m}) /\ IsFiniteSet(net \ {m})
  BY FS_AddElement, FS_RemoveElement
<1>5. net' = net => Copies(p)' = Copies(p)
  BY DEF Copies
<1>6. ASSUME net' = net \cup {m}
      PROVE  /\ m.post # p => Copies(p)' = Copies(p)
             /\ Cardinality(Copies(p)') <= Cardinality(Copies(p)) + 1
             /\ Cardinality(Copies(p)') \in Nat
  <2>1. CASE m.post # p
    <3>1. Copies(p)' = Copies(p)
      BY <1>6, <2>1 DEF Copies
    <3>2. QED
      BY <1>3, <2>1, <3>1
  <2>2. CASE m.post = p
    <3>1. Copies(p)' = Copies(p) \cup {m}
      BY <1>6, <2>2 DEF Copies
    <3>2. Cardinality(Copies(p) \cup {m}) \in {Cardinality(Copies(p)), Cardinality(Copies(p)) + 1}
      BY ZenonT(30), <1>2, FS_AddElement
    <3>3. QED
      BY SMTT(30), <1>3, <2>2, <3>1, <3>2
  <2>3. QED
    BY <2>1, <2>2
<1>7. ASSUME net' = net \ {m}, m \in net
      PROVE  /\ m.post # p => Copies(p)' = Copies(p)
             /\ m.post = p => /\ Cardinality(Copies(p)') = Cardinality(Copies(p)) - 1
                              /\ Cardinality(Copies(p)') \in Nat
  <2>1. CASE m.post # p
    BY SMTT(30), <1>7, <2>1 DEF Copies
  <2>2. CASE m.post = p
    <3>1. Copies(p)' = Copies(p) \ {m} /\ m \in Copies(p)
      BY <1>7, <2>2 DEF Copies
    <3>2. IsFiniteSet(Copies(p) \ {m}) /\ Cardinality(Copies(p) \ {m}) = Cardinality(Copies(p)) - 1
      BY <1>2, <3>1, FS_RemoveElement
    <3>3. Cardinality(Copies(p) \ {m}) \in Nat
      BY <3>2, FS_CardinalityType
    <3>4. QED
      BY <2>2, <3>1, <3>2, <3>3
  <2>3. QED
    BY <2>1, <2>2
<1>8. QED
  BY <1>2, <1>3, <1>4, <1>5, <1>6, <1>7

\* Every step keeps the account balanced.
LEMMA CountStep == PostTypeOK /\ CountInv /\ [PostNext]_postVars => CountInv'
<1> SUFFICES ASSUME PostTypeOK, CountInv, [PostNext]_postVars PROVE CountInv'
  OBVIOUS
<1>a. \A q \in Posts : /\ effects[q] \in Nat /\ resends[q] \in Nat
                       /\ Cardinality(Copies(q)) \in Nat
                       /\ effects[q] + Cardinality(Copies(q)) <= Credit(q) + resends[q]
                       /\ Credit(q) \in {0, 1}
  BY ZenonT(30), CopiesChange DEF PostTypeOK, CountInv, Credit
<1>1. ASSUME NEW p \in Posts, Start(p) \/ PoolEmpty(p) \/ NoNonce(p) \/ Backoff(p)
      PROVE CountInv'
  <2>1. net' = net /\ inbox' = inbox /\ effects' = effects /\ resends' = resends
    BY <1>1 DEF Start, PoolEmpty, NoNonce, Backoff, server
  <2>2. \A q \in Posts : Copies(q)' = Copies(q)
    BY <2>1 DEF Copies
  <2>3. phase[p] \in {"idle", "nonce", "head", "backoff"} /\ \A q \in Posts \ {p} : phase'[q] = phase[q]
    BY <1>1 DEF Start, PoolEmpty, NoNonce, Backoff, PostTypeOK
  <2>4. \A q \in Posts : Credit(q)' \in {0, 1} /\ (Credit(q)' = Credit(q) \/ Credit(q) = 0)
    BY <2>1, <2>3 DEF Credit
  <2>5. ASSUME NEW q \in Posts
        PROVE effects'[q] + Cardinality(Copies(q)') <= Credit(q)' + resends'[q]
    BY SMTT(30), <1>a, <2>1, <2>2, <2>4
  <2>6. \A q \in Posts : inbox'[q] # NoAnswer => phase'[q] = "sent"
    BY <2>1, <2>3 DEF CountInv
  <2>7. QED
    BY <2>1, <2>5, <2>6 DEF CountInv
<1>2. ASSUME NEW p \in Posts, NEW n, SignAndSend(p, n), phase[p] \in {"nonce", "head"}
      PROVE CountInv'
  <2> DEFINE m == [post |-> p, nonce |-> n, try |-> 0]
  <2>1. /\ net' = net \cup {m} /\ m.post = p
        /\ inbox' = inbox /\ effects' = effects /\ resends' = resends
        /\ phase'[p] = "sent" /\ \A q \in Posts \ {p} : phase'[q] = phase[q]
    BY <1>2 DEF SignAndSend, PostTypeOK
  <2>2. inbox[p] = NoAnswer
    BY <1>2 DEF CountInv
  <2>3. Credit(p) = 0 /\ Credit(p)' = 1 /\ \A q \in Posts \ {p} : Credit(q)' = Credit(q)
    BY SMTT(30), <1>2, <2>1, <2>2 DEF Credit, NoAnswer
  <2>4. ASSUME NEW q \in Posts
        PROVE effects'[q] + Cardinality(Copies(q)') <= Credit(q)' + resends'[q]
    <3>1. CASE q = p
      <4>1. Cardinality(Copies(p)') <= Cardinality(Copies(p)) + 1 /\ Cardinality(Copies(p)') \in Nat
        BY ZenonT(30), <2>1, CopiesChange DEF CountInv
      <4>2. QED
        BY SMTT(30), <1>a, <2>1, <2>3, <3>1, <4>1
    <3>2. CASE q # p
      <4>1. Copies(q)' = Copies(q)
        BY ZenonT(30), <2>1, <3>2, CopiesChange DEF CountInv
      <4>2. QED
        BY <1>a, <2>1, <2>3, <3>2, <4>1
    <3>3. QED
      BY <3>1, <3>2
  <2>5. IsFiniteSet(net')
    BY ZenonT(30), <2>1, CopiesChange DEF CountInv
  <2>6. QED
    BY <2>1, <2>4, <2>5 DEF CountInv
<1>3. ASSUME NEW p \in Posts, NEW o, NEW n, Returned(p, o, n), phase[p] = "sent",
             o \in {"ok", "failed"} \/ inbox[p].kind = "badNonce"
      PROVE CountInv'
  <2>1. /\ net' = net /\ effects' = effects /\ resends' = resends
        /\ phase'[p] = o /\ inbox'[p] = NoAnswer
        /\ \A q \in Posts \ {p} : phase'[q] = phase[q] /\ inbox'[q] = inbox[q]
    BY <1>3 DEF Returned, server, PostTypeOK
  <2>2. \A q \in Posts : Copies(q)' = Copies(q)
    BY <2>1 DEF Copies
  <2>3. Credit(p)' \in {0, 1} /\ (Credit(p)' = 1 \/ Credit(p) = 0)
    BY SMTT(30), <1>3, <2>1 DEF Credit, NoAnswer
  <2>4. \A q \in Posts \ {p} : Credit(q)' = Credit(q)
    BY <2>1 DEF Credit
  <2>5. ASSUME NEW q \in Posts
        PROVE effects'[q] + Cardinality(Copies(q)') <= Credit(q)' + resends'[q]
    BY SMTT(30), <1>a, <2>1, <2>2, <2>3, <2>4
  <2>6. QED
    BY <2>1, <2>5 DEF CountInv
<1>4. ASSUME NEW p \in Posts, Resend(p), phase[p] = "sent" PROVE CountInv'
  <2> DEFINE m == [post |-> p, nonce |-> sig[p], try |-> try[p] + 1]
  <2>1. /\ net' = net \cup {m} /\ m.post = p
        /\ effects' = effects /\ resends' = [resends EXCEPT ![p] = @ + 1]
        /\ phase' = phase /\ inbox'[p] = NoAnswer
        /\ \A q \in Posts \ {p} : inbox'[q] = inbox[q] /\ resends'[q] = resends[q]
        /\ resends'[p] = resends[p] + 1
    BY ZenonT(30), <1>4 DEF Resend, PostTypeOK
  <2>2. Credit(p)' = 1 /\ \A q \in Posts \ {p} : Credit(q)' = Credit(q)
    <3>1. inbox'[p].kind # "badNonce"
      BY <2>1 DEF NoAnswer
    <3> QED BY ZenonT(30), <1>4, <2>1, <3>1 DEF Credit
  <2>3. ASSUME NEW q \in Posts
        PROVE effects'[q] + Cardinality(Copies(q)') <= Credit(q)' + resends'[q]
    <3>1. CASE q = p
      <4>1. Cardinality(Copies(p)') <= Cardinality(Copies(p)) + 1 /\ Cardinality(Copies(p)') \in Nat
        BY ZenonT(30), <2>1, CopiesChange DEF CountInv
      <4>2. QED
        BY SMTT(30), <1>a, <2>1, <2>2, <3>1, <4>1
    <3>2. CASE q # p
      <4>1. Copies(q)' = Copies(q)
        BY ZenonT(30), <2>1, <3>2, CopiesChange DEF CountInv
      <4>2. QED
        BY ZenonT(30), <1>a, <2>1, <2>2, <3>2, <4>1
    <3>3. QED
      BY <3>1, <3>2
  <2>4. IsFiniteSet(net')
    BY ZenonT(30), <2>1, CopiesChange DEF CountInv
  <2>5. QED
    BY <2>1, <2>3, <2>4 DEF CountInv
<1>5. ASSUME NEW p \in Posts, ReceiveAnswer(p) PROVE CountInv'
  <2>1. phase[p] = "sent" /\ (\/ Resend(p)
                           \/ Returned(p, Outcome(inbox[p].kind), ResponseNonce(inbox[p])))
    BY <1>5 DEF ReceiveAnswer
  <2>2. Outcome(inbox[p].kind) \in {"ok", "failed"} \/ inbox[p].kind = "badNonce"
    BY DEF Outcome
  <2>3. QED
    BY <1>3, <1>4, <2>1, <2>2
<1>6. ASSUME NEW p \in Posts, TransportError(p) PROVE CountInv'
  BY <1>3, <1>4, <1>6 DEF TransportError
<1>7. ASSUME NEW m \in net, NEW k, NEW left, Answer(m, k, left), Awaited(m),
             \/ effects' = [effects EXCEPT ![m.post] = @ + 1] /\ k # "badNonce"
             \/ effects' = effects
      PROVE CountInv'
  <2> DEFINE p == m.post
  <2>0. p \in Posts
    BY Records DEF PostTypeOK
  <2>1. /\ net' = net \ {m} /\ phase' = phase /\ resends' = resends /\ phase[p] = "sent"
        /\ \A q \in Posts \ {p} : inbox'[q] = inbox[q] /\ effects'[q] = effects[q]
        /\ inbox'[p].kind = k
        /\ effects'[p] \in {effects[p], effects[p] + 1}
        /\ k = "badNonce" => effects'[p] = effects[p]
    BY SMTT(30), <1>7, <2>0 DEF Answer, Awaited, PostTypeOK
  <2>2. Credit(p) \in {0, 1} /\ Credit(p)' = (IF k = "badNonce" THEN 0 ELSE 1)
        /\ \A q \in Posts \ {p} : Credit(q)' = Credit(q)
    BY ZenonT(30), <2>1 DEF Credit
  <2>3. ASSUME NEW q \in Posts
        PROVE effects'[q] + Cardinality(Copies(q)') <= Credit(q)' + resends'[q]
    <3>1. CASE q = p
      <4>1. Cardinality(Copies(p)') = Cardinality(Copies(p)) - 1 /\ Cardinality(Copies(p)') \in Nat
        BY ZenonT(30), <1>7, <2>1, CopiesChange DEF CountInv
      <4>2. QED
        BY SMTT(30), <1>a, <2>0, <2>1, <2>2, <3>1, <4>1
    <3>2. CASE q # p
      <4>1. Copies(q)' = Copies(q)
        BY ZenonT(30), <1>7, <2>1, <3>2, CopiesChange DEF CountInv
      <4>2. QED
        BY ZenonT(30), <1>a, <2>1, <2>2, <3>2, <4>1
    <3>3. QED
      BY <3>1, <3>2
  <2>4. IsFiniteSet(net')
    BY <2>1, CopiesChange DEF CountInv
  <2>5. \A q \in Posts : inbox'[q] # NoAnswer => phase'[q] = "sent"
    BY <2>1 DEF CountInv
  <2>6. QED
    BY <2>3, <2>4, <2>5 DEF CountInv
<1>8. ASSUME NEW m \in net, Execute(m), ~Awaited(m) PROVE CountInv'
  <2> DEFINE p == m.post
  <2>0. p \in Posts
    BY Records DEF PostTypeOK
  <2>1. /\ net' = net \ {m} /\ phase' = phase /\ resends' = resends /\ inbox' = inbox
        /\ \A q \in Posts \ {p} : effects'[q] = effects[q]
        /\ effects'[p] = effects[p] + 1
    BY <1>8, <2>0 DEF Execute, client, PostTypeOK
  <2>2. \A q \in Posts : Credit(q)' = Credit(q)
    BY ZenonT(30), <2>1 DEF Credit
  <2>3. ASSUME NEW q \in Posts
        PROVE effects'[q] + Cardinality(Copies(q)') <= Credit(q)' + resends'[q]
    <3>1. CASE q = p
      <4>1. Cardinality(Copies(p)') = Cardinality(Copies(p)) - 1 /\ Cardinality(Copies(p)') \in Nat
        BY ZenonT(30), <1>8, <2>1, CopiesChange DEF CountInv
      <4>2. QED
        BY SMTT(30), <1>a, <2>0, <2>1, <2>2, <3>1, <4>1
    <3>2. CASE q # p
      <4>1. Copies(q)' = Copies(q)
        BY ZenonT(30), <1>8, <2>1, <3>2, CopiesChange DEF CountInv
      <4>2. QED
        BY ZenonT(30), <1>a, <2>1, <2>2, <3>2, <4>1
    <3>3. QED
      BY <3>1, <3>2
  <2>4. IsFiniteSet(net')
    BY <2>1, CopiesChange DEF CountInv
  <2>5. QED
    BY <2>1, <2>3, <2>4 DEF CountInv
<1>9. ASSUME NEW m \in net, Serve(m) PROVE CountInv'
  <2>1. CASE Execute(m) /\ Awaited(m)
    <3>1. PICK k \in {"ok", "garbled", "retryable"} : Answer(m, k, redeemable \ {m.nonce})
      BY <2>1 DEF Execute
    <3>2. QED
      BY ZenonT(30), <1>7, <2>1, <3>1 DEF Execute
  <2>2. CASE Execute(m) /\ ~Awaited(m)
    BY <1>8, <2>2
  <2>3. CASE Refuse(m) \/ RejectNonce(m)
    <3>1. Awaited(m) /\ effects' = effects /\ \E k, left : Answer(m, k, left)
      BY <2>3 DEF Refuse, RejectNonce
    <3>2. QED
      BY <1>7, <3>1
  <2>4. QED
    BY <1>9, <2>1, <2>2, <2>3 DEF Serve
<1>10. ASSUME NEW p \in Posts, NonceFromPool(p) \/ GetNonce(p) PROVE CountInv'
  BY <1>2, <1>10 DEF NonceFromPool, GetNonce
<1>11. CASE UNCHANGED postVars
  <2>1. \A q \in Posts : Copies(q)' = Copies(q) /\ Credit(q)' = Credit(q)
    BY <1>11 DEF postVars, client, server, Copies, Credit
  <2>2. QED
    BY <1>11, <2>1 DEF postVars, client, server, CountInv
<1>12. QED
  BY ZenonT(30), <1>1, <1>5, <1>6, <1>9, <1>10, <1>11 DEF PostNext, Call

\* The account of transmissions and executions is an invariant.
THEOREM CountCorrect == PostSpec => []CountInv
<1>1. PostInit => CountInv
  <2> SUFFICES ASSUME PostInit PROVE CountInv
    OBVIOUS
  <2>1. \A p \in Posts : Copies(p) = {}
    BY DEF PostInit, Copies
  <2>2. IsFiniteSet(net) /\ \A p \in Posts : Cardinality(Copies(p)) = 0
    BY ZenonT(30), <2>1, FS_EmptySet DEF PostInit
  <2>3. \A p \in Posts : effects[p] = 0 /\ resends[p] = 0 /\ Credit(p) = 0 /\ inbox[p] = NoAnswer
    BY DEF PostInit, Credit
  <2>4. QED
    BY <2>2, <2>3 DEF CountInv
<1>2. QED
  BY <1>1, CountStep, PostTypeCorrect, PTL DEF PostSpec

\* The server carries a call out at most once more than its transport resent
\* one of its bodies (cmd/setup.go), for every number of calls and resends.
THEOREM EffectsAreBounded == PostSpec => []EffectsBounded
<1>1. PostTypeOK /\ CountInv => EffectsBounded
  <2> SUFFICES ASSUME PostTypeOK, CountInv, NEW p \in Posts
               PROVE effects[p] <= 1 + resends[p]
    BY DEF EffectsBounded
  <2>1. Cardinality(Copies(p)) \in Nat /\ Credit(p) \in {0, 1}
    BY ZenonT(30), CopiesChange DEF CountInv, Credit
  <2>2. effects[p] + Cardinality(Copies(p)) <= Credit(p) + resends[p]
    BY DEF CountInv
  <2>3. QED
    BY <2>1, <2>2 DEF PostTypeOK
<1>2. QED
  BY <1>1, PostTypeCorrect, CountCorrect, PTL

\* A plain http.Client never resends.
LEMMA NoResends == PostSpec => [](~cli => \A p \in Posts : resends[p] = 0)
<1> DEFINE I == ~cli => \A p \in Posts : resends[p] = 0
<1>1. PostInit => I
  BY DEF PostInit
<1>2. ASSUME I, [PostNext]_postVars PROVE I'
  <2>1. cli' = cli
    BY <1>2 DEF PostNext, Start, Call, Serve, postVars
  <2>2. ASSUME NEW p \in Posts, ReceiveAnswer(p) \/ TransportError(p) PROVE cli \/ resends' = resends
    BY <2>2 DEF ReceiveAnswer, TransportError, Returned, Resend, MayResend
  <2>3. cli \/ resends' = resends
    BY <1>2, <2>2 DEF PostNext, Call, Serve, Start, PoolEmpty, NoNonce, Backoff, Execute, Refuse,
       RejectNonce, Answer, client, postVars, NonceFromPool, GetNonce, SignAndSend
  <2>4. QED
    BY <1>2, <2>1, <2>3
<1>3. QED
  BY <1>1, <1>2, PTL DEF PostSpec

\* With a plain http.Client retrievablePost has its effect at most once.
THEOREM CarriedOutAtMostOnce == PostSpec => []AtMostOnce
<1>1. PostTypeOK /\ EffectsBounded /\ (~cli => \A p \in Posts : resends[p] = 0) => AtMostOnce
  BY DEF PostTypeOK, EffectsBounded, AtMostOnce
<1>2. QED
  BY <1>1, PostTypeCorrect, EffectsAreBounded, NoResends, PTL

-----------------------------------------------------------------------------
(* Success *)

\* A 2xx answer is the answer to a request that was carried out.
OkInv ==
  \A p \in Posts : phase[p] = "ok" \/ inbox[p].kind = "ok" => effects[p] >= 1

\* Every step keeps success and execution together.
LEMMA OkStep == PostTypeOK /\ OkInv /\ [PostNext]_postVars => OkInv'
<1> SUFFICES ASSUME PostTypeOK, OkInv, [PostNext]_postVars PROVE OkInv'
  OBVIOUS
<1>1. ASSUME NEW p \in Posts, Start(p) \/ PoolEmpty(p) \/ NoNonce(p) \/ Backoff(p)
      PROVE OkInv'
  BY <1>1 DEF Start, PoolEmpty, NoNonce, Backoff, server, OkInv, PostTypeOK
<1>2. ASSUME NEW p \in Posts, NonceFromPool(p) \/ GetNonce(p) PROVE OkInv'
  BY ZenonT(30), <1>2 DEF NonceFromPool, GetNonce, SignAndSend, OkInv, PostTypeOK
<1>3. ASSUME NEW p \in Posts, NEW o, NEW n, Returned(p, o, n), o = "ok" => inbox[p].kind = "ok"
      PROVE OkInv'
  <2>1. /\ effects' = effects /\ phase'[p] = o /\ inbox'[p] = NoAnswer
        /\ \A q \in Posts \ {p} : phase'[q] = phase[q] /\ inbox'[q] = inbox[q]
    BY ZenonT(30), <1>3 DEF Returned, server, PostTypeOK
  <2>2. QED
    BY SMTT(30), <1>3, <2>1 DEF OkInv, NoAnswer
<1>4. ASSUME NEW p \in Posts, Resend(p) PROVE OkInv'
  <2>1. /\ effects' = effects /\ phase' = phase /\ inbox'[p] = NoAnswer
        /\ \A q \in Posts \ {p} : inbox'[q] = inbox[q]
    BY ZenonT(30), <1>4 DEF Resend, PostTypeOK
  <2>2. QED
    BY SMTT(30), <2>1 DEF OkInv, NoAnswer
<1>5. ASSUME NEW p \in Posts, ReceiveAnswer(p) \/ TransportError(p) PROVE OkInv'
  <2>1. Outcome(inbox[p].kind) = "ok" => inbox[p].kind = "ok"
    BY DEF Outcome
  <2>2. QED
    BY <1>3, <1>4, <1>5, <2>1 DEF ReceiveAnswer, TransportError
<1>6. ASSUME NEW m \in net, Serve(m) PROVE OkInv'
  <2>0. m.post \in Posts
    BY Records DEF PostTypeOK
  <2>1. CASE Execute(m)
    <3>1. /\ phase' = phase /\ effects'[m.post] = effects[m.post] + 1 /\ effects[m.post] \in Nat
          /\ \A q \in Posts \ {m.post} : inbox'[q] = inbox[q] /\ effects'[q] = effects[q]
      BY ZenonT(30), <2>0, <2>1 DEF Execute, Answer, client, PostTypeOK
    <3>2. QED
      BY SMTT(30), <3>1 DEF OkInv
  <2>2. CASE Refuse(m) \/ RejectNonce(m)
    <3>1. /\ phase' = phase /\ effects' = effects /\ inbox'[m.post].kind # "ok"
          /\ \A q \in Posts \ {m.post} : inbox'[q] = inbox[q]
      <4>1. PICK k \in {"problem", "retryable", "badNonce"} : \E left : Answer(m, k, left)
        BY <2>2 DEF Refuse, RejectNonce
      <4>2. effects' = effects
        BY <2>2 DEF Refuse, RejectNonce
      <4>3. phase' = phase /\ \E n : inbox' = [inbox EXCEPT ![m.post] = [kind |-> k, nonce |-> n]]
        BY ZenonT(30), <4>1 DEF Answer
      <4>4. QED
        BY SMTT(30), <2>0, <4>2, <4>3 DEF PostTypeOK
    <3>2. QED
      BY <3>1 DEF OkInv
  <2>3. QED
    BY <1>6, <2>1, <2>2 DEF Serve
<1>7. CASE UNCHANGED postVars
  BY <1>7 DEF postVars, client, server, OkInv
<1>8. QED
  BY <1>1, <1>2, <1>5, <1>6, <1>7 DEF PostNext, Call

\* A call that returns without error was carried out: OkIsExecuted.
THEOREM SuccessIsExecuted == PostSpec => []OkIsExecuted
<1>1. PostInit => OkInv
  BY SMTT(30) DEF PostInit, OkInv, NoAnswer
<1>2. OkInv => OkIsExecuted
  BY DEF OkInv, OkIsExecuted
<1>3. QED
  BY <1>1, <1>2, OkStep, PostTypeCorrect, PTL DEF PostSpec

-----------------------------------------------------------------------------
(* Obtain: the invariant                                                    *)

\* The goroutines whose result was taken from a channel.
Ended == {d \in authzs : worker[d] = "done"}

\* The loop of getAuthorizations counts the goroutines that have sent.
CountOK ==
  /\ received = Cardinality(Ended)
  /\ \A d \in Domains \ authzs : worker[d] = "idle"

\* The loop keeps every authorization or a failure, no result is taken before
\* all goroutines run, and all of them have ended when it is left.
FetchOK ==
  /\ pc \in {"new", "spawn"} => Ended = {} /\ responses = {} /\ failures = {}
  /\ pc = "new" => \A d \in Domains : worker[d] = "idle"
  /\ pc \notin {"new", "spawn"} => failures # {} \/ responses = Ended
  /\ pc = "collect" => \A d \in authzs : worker[d] # "idle"
  /\ pc \in {"solve", "unlimited", "finalize", "poll"} => responses = authzs
  /\ pc \in {"panicked", "solve", "unlimited", "finalize", "poll", "deactivate"} => Ended = authzs
  /\ pc = "done" => Ended = authzs \/ \A d \in Domains : worker[d] = "idle"

\* The order is for the sanitized domains, and once it is valid so is the
\* certificate.
OrderOK ==
  /\ pc \in {"spawn", "collect", "solve", "unlimited", "finalize", "poll", "deactivate"} =>
       names = Sanitized
  /\ order = "valid" => cert = names
  /\ pc \in {"finalize", "poll"} => \A d \in authzs : status[d] = "valid"
  /\ pc = "new" => names = {} /\ authzs = {} /\ order = None /\ cert = {}

\* The result of Obtain.
ResultOK ==
  /\ pc \notin {"deactivate", "done"} => res = None /\ ~err
  /\ res = "certificate" => cert = names /\ names = Sanitized
  /\ pc \in {"deactivate", "done"} /\ ~err /\ authzs # {} => res = "certificate"

\* The authorization is of no more use.
Released(d) == status[d] \in {"invalid", "deactivated"} \cup (IF always THEN {} ELSE {"valid"})

\* The loop of deactivateAuthorizations has released what it has passed.
ReleaseOK ==
  /\ pc \notin {"unlimited", "deactivate"} => cur = None
  /\ pc \notin {"deactivate", "done"} => unreleased = {} /\ todo = {}
  /\ pc = "deactivate" => \A d \in authzs \ (todo \cup {cur} \cup unreleased) : Released(d)
  /\ pc = "done" => \/ \A d \in Domains : worker[d] = "idle"
                    \/ \A d \in authzs \ unreleased : Released(d)

IInv == TypeOK /\ CountOK /\ FetchOK /\ OrderOK /\ ResultOK /\ ReleaseOK

\* The sets of authorizations are finite, and counting them tells when all
\* results were received.
LEMMA Counting ==
  ASSUME TypeOK
  PROVE  /\ IsFiniteSet(authzs) /\ IsFiniteSet(Ended) /\ Ended \subseteq authzs
         /\ Cardinality(Ended) = Cardinality(authzs) => Ended = authzs
         /\ Cardinality(Ended) \in Nat
         /\ \A d \in authzs \ Ended : Cardinality(Ended \cup {d}) = Cardinality(Ended) + 1
<1>1. IsFiniteSet(authzs)
  BY CertifierAssumption, FS_Subset DEF TypeOK
<1>2. Ended \subseteq authzs
  BY DEF Ended
<1>3. IsFiniteSet(Ended) /\ (Cardinality(Ended) = Cardinality(authzs) => Ended = authzs)
  BY <1>1, <1>2, FS_Subset
<1>4. Cardinality(Ended) \in Nat
  BY <1>3, FS_CardinalityType
<1>5. ASSUME NEW d \in authzs \ Ended PROVE Cardinality(Ended \cup {d}) = Cardinality(Ended) + 1
  BY <1>3, <1>5, FS_AddElement
<1> QED BY <1>1, <1>2, <1>3, <1>4, <1>5

\* The number of results fits its type.
LEMMA CountBounded ==
  ASSUME NEW S, S \subseteq Domains
  PROVE  Cardinality(S) \in 0 .. Cardinality(Domains)
<1>1. IsFiniteSet(S) /\ Cardinality(S) <= Cardinality(Domains)
  BY CertifierAssumption, FS_Subset
<1>2. Cardinality(S) \in Nat /\ Cardinality(Domains) \in Nat
  BY <1>1, CertifierAssumption, FS_CardinalityType
<1> QED BY <1>1, <1>2

\* Every step preserves the invariant.
LEMMA Inductive ==
  ASSUME IInv, [Next]_vars
  PROVE  IInv'
<1>0. TypeOK /\ CountOK /\ FetchOK /\ OrderOK /\ ResultOK /\ ReleaseOK
  BY DEF IInv
<1>a. None \notin Domains
  BY CertifierAssumption
<1> USE <1>0, <1>a DEF request, fetching, deactivating, result, ca
<1>1. ASSUME AlreadyReplaced PROVE IInv'
  <2> USE <1>1 DEF AlreadyReplaced
  <2>1. TypeOK'
    BY ZenonT(60) DEF TypeOK
  <2>2. CountOK'
    BY DEF CountOK, Ended
  <2>3. FetchOK'
    BY DEF FetchOK, Ended, TypeOK
  <2>4. OrderOK'
    BY DEF OrderOK, Sanitized, TypeOK, None
  <2>5. ResultOK'
    BY DEF ResultOK, Sanitized, TypeOK, None
  <2>6. ReleaseOK'
    BY DEF ReleaseOK, Released, TypeOK
  <2> QED BY <2>1, <2>2, <2>3, <2>4, <2>5, <2>6 DEF IInv
<1>2. ASSUME NewOrder PROVE IInv'
  <2> USE <1>2 DEF NewOrder
  <2>1. TypeOK'
    <3>1. /\ names' \subseteq Domains /\ authzs' \subseteq Domains
          /\ status' \in [Domains -> {None, "pending", "valid"}]
          /\ order' \in {"ready", "pending"}
      BY DEF CreateOrder
    <3>2. responses = {} /\ todo = {} /\ cur = None /\ unreleased = {} /\ cert = {}
      BY DEF FetchOK, ReleaseOK, OrderOK
    <3>3. pc' \in {"spawn", "done"} /\ err' \in BOOLEAN
      BY ZenonT(60) DEF TypeOK
    <3> QED BY <3>1, <3>2, <3>3 DEF TypeOK
  <2>2. CountOK'
    BY ZenonT(60) DEF CountOK, Ended, CreateOrder, OrderOK, FetchOK
  <2>3. FetchOK'
    BY SMTT(30) DEF FetchOK, Ended, TypeOK, CreateOrder, OrderOK
  <2>4. OrderOK'
    BY DEF OrderOK, Sanitized, TypeOK, None, CreateOrder, SameIdentifiers, ResultOK
  <2>5. ResultOK'
    BY DEF ResultOK, Sanitized, TypeOK, None, CreateOrder, SameIdentifiers
  <2>6. ReleaseOK'
    BY DEF ReleaseOK, Released, TypeOK, CreateOrder, FetchOK
  <2> QED BY <2>1, <2>2, <2>3, <2>4, <2>5, <2>6 DEF IInv
<1>3. ASSUME NewOrderFails PROVE IInv'
  <2> USE <1>3 DEF NewOrderFails
  <2>1. TypeOK'
    BY DEF TypeOK
  <2>2. CountOK'
    BY DEF CountOK, Ended
  <2>3. FetchOK'
    BY DEF FetchOK, Ended, TypeOK, OrderOK
  <2>4. OrderOK'
    BY DEF OrderOK, Sanitized, TypeOK, None
  <2>5. ResultOK'
    BY DEF ResultOK, Sanitized, TypeOK, None, OrderOK
  <2>6. ReleaseOK'
    BY DEF ReleaseOK, Released, TypeOK, FetchOK, OrderOK
  <2> QED BY <2>1, <2>2, <2>3, <2>4, <2>5, <2>6 DEF IInv
<1>4. ASSUME Spawn PROVE IInv'
  <2> USE <1>4 DEF Spawn
  <2>a. Ended' = Ended
    BY DEF Ended, TypeOK
  <2>1. TypeOK'
    BY SMTT(30) DEF TypeOK
  <2>2. CountOK'
    BY <2>a DEF CountOK, TypeOK
  <2>3. FetchOK'
    BY <2>a DEF FetchOK, TypeOK
  <2>4. OrderOK'
    BY DEF OrderOK, Sanitized, TypeOK, None
  <2>5. ResultOK'
    BY DEF ResultOK, Sanitized, TypeOK, None
  <2>6. ReleaseOK'
    BY DEF ReleaseOK, Released, TypeOK
  <2> QED BY <2>1, <2>2, <2>3, <2>4, <2>5, <2>6 DEF IInv
<1>5. ASSUME NEW d \in Domains, WorkerGet(d) PROVE IInv'
  <2> USE <1>5 DEF WorkerGet
  <2>1. TypeOK'
    BY SMTT(30) DEF TypeOK
  <2>2. CountOK'
    BY SMTT(30) DEF CountOK, Ended
  <2>3. FetchOK'
    BY SMTT(30) DEF FetchOK, Ended, TypeOK
  <2>4. OrderOK'
    BY DEF OrderOK, Sanitized, TypeOK, None
  <2>5. ResultOK'
    BY DEF ResultOK, Sanitized, TypeOK, None
  <2>6. ReleaseOK'
    BY DEF ReleaseOK, Released, TypeOK
  <2> QED BY <2>1, <2>2, <2>3, <2>4, <2>5, <2>6 DEF IInv
<1>6. ASSUME Receive PROVE IInv'
  <2> USE <1>6 DEF Receive
  <2>a. PICK d \in authzs :
           /\ worker[d] \in {"result", "error"}
           /\ worker' = [worker EXCEPT ![d] = "done"]
           /\ IF worker[d] = "result" THEN responses' = responses \cup {d} /\ UNCHANGED failures
              ELSE failures' = failures \cup {None} /\ UNCHANGED responses
    BY ZenonT(60)
  <2>b. pc = "collect" /\ received' = received + 1
        /\ UNCHANGED <<request, replaces, pc, authzs, deactivating, result, ca>>
    OBVIOUS
  <2>c. Ended' = Ended \cup {d} /\ d \in authzs \ Ended
    BY SMTT(30), <2>a, <2>b DEF Ended, TypeOK
  <2>d. received' = Cardinality(Ended')
    BY <2>b, <2>c, Counting DEF CountOK
  <2>e. Ended' \subseteq Domains
    BY <2>b, <2>c DEF Ended, TypeOK
  <2> HIDE <1>6 DEF Receive
  <2>1. TypeOK'
    <3>1. received' \in 0 .. Cardinality(Domains)
      BY <2>d, <2>e, CountBounded
    <3> QED BY SMTT(30), <2>a, <2>b, <3>1 DEF TypeOK
  <2>2. CountOK'
    BY <2>a, <2>b, <2>d DEF CountOK, TypeOK
  <2>3. FetchOK'
    BY <2>a, <2>b, <2>c DEF FetchOK, TypeOK
  <2>4. OrderOK'
    BY <2>a, <2>b DEF OrderOK, Sanitized, TypeOK, None
  <2>5. ResultOK'
    BY <2>a, <2>b DEF ResultOK, Sanitized, TypeOK, None
  <2>6. ReleaseOK'
    BY <2>a, <2>b DEF ReleaseOK, Released, TypeOK
  <2> QED BY <2>1, <2>2, <2>3, <2>4, <2>5, <2>6 DEF IInv
<1>7. ASSUME Close PROVE IInv'
  <2> USE <1>7 DEF Close
  <2>1. TypeOK'
    BY ZenonT(60) DEF TypeOK, Abort
  <2>2. CountOK'
    BY DEF CountOK, Ended
  <2>3. FetchOK'
    <3>1. Ended = authzs
      BY Counting DEF AllReceived, CountOK
    <3>2. Ended' = Ended
      BY DEF Ended, fetching
    <3>3. UNCHANGED <<authzs, worker, responses, failures>> /\ pc' \in {"panicked", "solve", "deactivate"}
      BY DEF fetching, Abort
    <3>4. responses = authzs \/ failures # {}
      BY <3>1 DEF FetchOK
    <3>5. pc' = "solve" => failures = {}
      BY DEF Abort
    <3> HIDE <1>7 DEF Close
    <3> QED BY <3>1, <3>2, <3>3, <3>4, <3>5 DEF FetchOK
  <2>4. OrderOK'
    BY DEF OrderOK, Sanitized, TypeOK, None, Abort
  <2>5. ResultOK'
    BY DEF ResultOK, Sanitized, TypeOK, None, Abort
  <2>6. ReleaseOK'
    BY SMTT(30) DEF ReleaseOK, Released, TypeOK, Abort
  <2> QED BY <2>1, <2>2, <2>3, <2>4, <2>5, <2>6 DEF IInv
<1>8a. ASSUME SolveFails, SolveLeaves, pc \in {"solve", "unlimited"} PROVE IInv'
  <2> USE <1>8a DEF SolveFails, SolveLeaves
  <2>1. TypeOK'
    BY ZenonT(60) DEF TypeOK, Abort
  <2>2. CountOK'
    BY DEF CountOK, Ended
  <2>3. FetchOK'
    <3>1. Ended = authzs /\ responses = authzs
      BY DEF FetchOK
    <3>2. UNCHANGED <<authzs, worker, responses, failures>> /\ pc' = "deactivate" /\ Ended' = Ended
      BY DEF Abort, Ended
    <3> HIDE <1>8a DEF SolveFails, SolveLeaves
    <3> QED BY <3>1, <3>2 DEF FetchOK
  <2>4. OrderOK'
    BY DEF OrderOK, Sanitized, TypeOK, None, Abort
  <2>5. ResultOK'
    BY DEF ResultOK, Sanitized, TypeOK, None, Abort
  <2>6. ReleaseOK'
    BY SMTT(30) DEF ReleaseOK, Released, TypeOK, Abort
  <2> QED BY <2>1, <2>2, <2>3, <2>4, <2>5, <2>6 DEF IInv
<1>8. ASSUME Solve PROVE IInv'
  <2>a. CASE pc' = "finalize"
    <3> USE <1>8, <2>a DEF Solve, SolveFails, SolveLeaves, Abort
    <3>0. /\ pc = "solve" /\ pc' = "finalize" /\ SolveLeaves
          /\ status' = [d \in Domains |-> IF d \in responses THEN "valid" ELSE status[d]]
          /\ UNCHANGED <<deactivating, result>>
      OBVIOUS
    <3> HIDE <1>8, <2>a DEF Solve, SolveFails, Abort
    <3> USE <3>0
    <3>1. TypeOK'
      BY ZenonT(60) DEF TypeOK
    <3>2. CountOK'
      BY DEF CountOK, Ended
    <3>3. FetchOK'
      <4>1. Ended' = Ended
        BY DEF Ended
      <4> QED BY <4>1 DEF FetchOK
    <3>4. OrderOK'
      BY DEF OrderOK, Sanitized, TypeOK, None, FetchOK
    <3>5. ResultOK'
      BY DEF ResultOK, Sanitized, TypeOK, None
    <3>6. ReleaseOK'
      BY DEF ReleaseOK, Released, TypeOK
    <3> QED BY <3>1, <3>2, <3>3, <3>4, <3>5, <3>6 DEF IInv
  <2>b. CASE SolveFails
    BY <1>8, <1>8a, <2>b DEF Solve
  <2> QED BY <1>8, <2>a, <2>b DEF Solve
<1>8b. ASSUME PollWithoutLimit PROVE IInv'
  <2> USE <1>8b DEF PollWithoutLimit
  <2>1. TypeOK'
    BY DEF TypeOK
  <2>2. CountOK'
    BY DEF CountOK, Ended
  <2>3. FetchOK'
    BY DEF FetchOK, Ended, TypeOK
  <2>4. OrderOK'
    BY DEF OrderOK, Sanitized, TypeOK, None
  <2>5. ResultOK'
    BY DEF ResultOK, Sanitized, TypeOK, None
  <2>6. ReleaseOK'
    BY DEF ReleaseOK, Released, TypeOK
  <2> QED BY <2>1, <2>2, <2>3, <2>4, <2>5, <2>6 DEF IInv
<1>8c. ASSUME PollDecided PROVE IInv'
  <2> USE <1>8c DEF PollDecided
  <2>1. TypeOK'
    BY DEF TypeOK
  <2>2. CountOK'
    BY DEF CountOK, Ended
  <2>3. FetchOK'
    BY DEF FetchOK, Ended, TypeOK
  <2>4. OrderOK'
    BY DEF OrderOK, Sanitized, TypeOK, None
  <2>5. ResultOK'
    BY DEF ResultOK, Sanitized, TypeOK, None
  <2>6. ReleaseOK'
    BY DEF ReleaseOK, Released, TypeOK
  <2> QED BY <2>1, <2>2, <2>3, <2>4, <2>5, <2>6 DEF IInv
<1>8d. ASSUME PollFails PROVE IInv'
  BY <1>8a, <1>8d DEF PollFails
<1>9. ASSUME Finalize PROVE IInv'
  <2> USE <1>9 DEF Finalize
  <2>a. /\ UNCHANGED <<names, status>>
        /\ \/ UNCHANGED <<order, cert>>
           \/ order' \in {"processing", "valid", "invalid"} /\ cert' = IF order' = "valid" THEN names ELSE cert
    BY DEF CaFinalize
  <2>b. \/ Got(None, TRUE)
        \/ order' = "valid" /\ Got("certificate", FALSE)
        \/ pc' = "poll" /\ UNCHANGED <<deactivating, result>>
    BY ZenonT(60)
  <2>c. pc = "finalize" /\ UNCHANGED <<request, replaces, authzs, fetching>>
    OBVIOUS
  <2> HIDE <1>9 DEF Finalize
  <2>1. TypeOK'
    <3>1. /\ pc' \in {"poll", "deactivate", "done"} /\ todo' \subseteq authzs
          /\ cur' = cur /\ unreleased' = unreleased
          /\ res' \in {None, "partial", "certificate"} /\ err' \in BOOLEAN
      BY ZenonT(60), <2>b DEF Got, TypeOK
    <3>2. /\ order' \in {None, "pending", "ready", "processing", "valid", "invalid"}
          /\ cert' \subseteq names
      BY <2>a DEF TypeOK
    <3> QED BY <2>a, <2>c, <3>1, <3>2 DEF TypeOK
  <2>2. CountOK'
    BY <2>a, <2>b, <2>c DEF CountOK, Ended, Got
  <2>3. FetchOK'
    BY <2>a, <2>b, <2>c DEF FetchOK, Ended, TypeOK, Got
  <2>4. OrderOK'
    BY <2>a, <2>b, <2>c DEF OrderOK, Sanitized, TypeOK, None, Got
  <2>5. ResultOK'
    <3>1. order' = "valid" => cert' = names
      BY <2>4, <2>a DEF OrderOK
    <3>2. names' = names /\ Sanitized' = Sanitized /\ names = Sanitized /\ responses = authzs
      BY <2>a, <2>c DEF OrderOK, Sanitized, FetchOK
    <3>3. res = None /\ ~err
      BY <2>c DEF ResultOK
    <3>4. CASE Got(None, TRUE)
      BY ZenonT(60), <2>c, <3>2, <3>4 DEF ResultOK, Got, None
    <3>5. CASE order' = "valid" /\ Got("certificate", FALSE)
      BY <2>c, <3>1, <3>2, <3>5 DEF ResultOK, Got
    <3>6. CASE pc' = "poll" /\ UNCHANGED <<deactivating, result>>
      BY <3>3, <3>6 DEF ResultOK, None
    <3> QED BY ZenonT(60), <2>b, <3>4, <3>5, <3>6
  <2>6. ReleaseOK'
    BY <2>a, <2>b, <2>c DEF ReleaseOK, Released, TypeOK, Got, OrderOK
  <2> QED BY <2>1, <2>2, <2>3, <2>4, <2>5, <2>6 DEF IInv
<1>10. ASSUME Poll PROVE IInv'
  <2> USE <1>10 DEF Poll
  <2>1. TypeOK'
    BY DEF TypeOK, Got
  <2>2. CountOK'
    BY DEF CountOK, Ended
  <2>3. FetchOK'
    BY DEF FetchOK, Ended, TypeOK, Got
  <2>4. OrderOK'
    BY DEF OrderOK, Sanitized, TypeOK, None, Got
  <2>5. ResultOK'
    BY DEF ResultOK, Sanitized, TypeOK, None, Got, OrderOK, Downloadable, FetchOK
  <2>6. ReleaseOK'
    BY DEF ReleaseOK, Released, TypeOK, Got, OrderOK
  <2> QED BY <2>1, <2>2, <2>3, <2>4, <2>5, <2>6 DEF IInv
<1>11. ASSUME TimeUp PROVE IInv'
  <2> USE <1>11 DEF TimeUp
  <2>1. TypeOK'
    BY DEF TypeOK, Got
  <2>2. CountOK'
    BY DEF CountOK, Ended
  <2>3. FetchOK'
    BY DEF FetchOK, Ended, TypeOK, Got
  <2>4. OrderOK'
    BY DEF OrderOK, Sanitized, TypeOK, None, Got
  <2>5. ResultOK'
    BY ZenonT(30) DEF ResultOK, Sanitized, TypeOK, None, Got, FetchOK
  <2>6. ReleaseOK'
    BY DEF ReleaseOK, Released, TypeOK, Got, OrderOK
  <2> QED BY <2>1, <2>2, <2>3, <2>4, <2>5, <2>6 DEF IInv
<1>12. ASSUME DeactivateGet PROVE IInv'
  <2> USE <1>12 DEF DeactivateGet
  <2>1. TypeOK'
    BY DEF TypeOK, Unreleased
  <2>2. CountOK'
    BY ZenonT(30) DEF CountOK, Ended
  <2>3. FetchOK'
    BY DEF FetchOK, Ended, TypeOK
  <2>4. OrderOK'
    BY DEF OrderOK, Sanitized, TypeOK, None
  <2>5. ResultOK'
    BY DEF ResultOK, Sanitized, TypeOK, None
  <2>6. ReleaseOK'
    BY SMTT(30) DEF ReleaseOK, Released, TypeOK, Unreleased, None, Skip
  <2> QED BY <2>1, <2>2, <2>3, <2>4, <2>5, <2>6 DEF IInv
<1>13. ASSUME Deactivate PROVE IInv'
  <2> USE <1>13 DEF Deactivate
  <2>1. TypeOK'
    BY DEF TypeOK, Unreleased
  <2>2. CountOK'
    BY DEF CountOK, Ended
  <2>3. FetchOK'
    BY DEF FetchOK, Ended, TypeOK
  <2>4. OrderOK'
    BY DEF OrderOK, Sanitized, TypeOK, None
  <2>5. ResultOK'
    BY DEF ResultOK, Sanitized, TypeOK, None
  <2>6. ReleaseOK'
    BY SMTT(40) DEF ReleaseOK, Released, TypeOK, Unreleased
  <2> QED BY <2>1, <2>2, <2>3, <2>4, <2>5, <2>6 DEF IInv
<1>14. ASSUME DeactivateEnd PROVE IInv'
  <2> USE <1>14 DEF DeactivateEnd
  <2>1. TypeOK'
    BY DEF TypeOK
  <2>2. CountOK'
    BY DEF CountOK, Ended
  <2>3. FetchOK'
    BY DEF FetchOK, Ended, TypeOK
  <2>4. OrderOK'
    BY DEF OrderOK, Sanitized, TypeOK, None
  <2>5. ResultOK'
    BY DEF ResultOK, Sanitized, TypeOK, None
  <2>6. ReleaseOK'
    BY SMTT(30) DEF ReleaseOK, Released, TypeOK
  <2> QED BY <2>1, <2>2, <2>3, <2>4, <2>5, <2>6 DEF IInv
<1>15. ASSUME NEW d \in Domains, CaCheck(d) PROVE IInv'
  <2> USE <1>15 DEF CaCheck
  <2>1. TypeOK'
    BY SMTT(30) DEF TypeOK
  <2>2. CountOK'
    BY SMTT(40) DEF CountOK, Ended
  <2>3. FetchOK'
    BY DEF FetchOK, Ended, TypeOK
  <2>4. OrderOK'
    BY DEF OrderOK, Sanitized, TypeOK, None
  <2>5. ResultOK'
    BY DEF ResultOK, Sanitized, TypeOK, None
  <2>6. ReleaseOK'
    BY SMTT(30) DEF ReleaseOK, Released, TypeOK
  <2> QED BY ZenonT(30), <2>1, <2>2, <2>3, <2>4, <2>5, <2>6 DEF IInv
<1>16. ASSUME CaIssue PROVE IInv'
  <2> USE <1>16 DEF CaIssue
  <2>1. TypeOK'
    BY SMTT(30) DEF TypeOK
  <2>2. CountOK'
    BY DEF CountOK, Ended
  <2>3. FetchOK'
    BY SMTT(30) DEF FetchOK, Ended, TypeOK
  <2>4. OrderOK'
    BY DEF OrderOK, Sanitized, TypeOK, None
  <2>5. ResultOK'
    BY DEF ResultOK, Sanitized, TypeOK, None
  <2>6. ReleaseOK'
    BY DEF ReleaseOK, Released, TypeOK
  <2> QED BY <2>1, <2>2, <2>3, <2>4, <2>5, <2>6 DEF IInv
<1>17. ASSUME UNCHANGED vars PROVE IInv'
  <2>1. UNCHANGED <<requested, inexpressible, csr, always, replaces, pc, authzs, worker, received,
                    responses, failures, todo, cur, unreleased, res, err, names, order, status, cert>>
    BY <1>17 DEF vars
  <2>2. Ended' = Ended /\ Sanitized' = Sanitized /\ \A d : Released(d)' <=> Released(d)
    BY <2>1 DEF Ended, Sanitized, Released
  <2>3. TypeOK'
    BY SMTT(30), <2>1 DEF TypeOK
  <2>4. CountOK' /\ FetchOK'
    BY <2>1, <2>2 DEF CountOK, FetchOK
  <2>5. OrderOK' /\ ResultOK'
    BY <2>1, <2>2 DEF OrderOK, ResultOK
  <2>6. ReleaseOK'
    BY <2>1, <2>2 DEF ReleaseOK
  <2> QED BY <2>3, <2>4, <2>5, <2>6 DEF IInv
<1> QED BY <1>1, <1>2, <1>3, <1>4, <1>5, <1>6, <1>7, <1>8, <1>8b, <1>8c, <1>8d, <1>9, <1>10, <1>11, <1>12, <1>13, <1>14, <1>15, <1>16, <1>17 DEF Next, Step

\* The invariant holds in every state.
THEOREM Invariance == Spec => []IInv
<1>1. Init => IInv
  <2> SUFFICES ASSUME Init PROVE IInv
    OBVIOUS
  <2> USE DEF Init
  <2>1. TypeOK
    BY ZenonT(60), CountBounded, FS_EmptySet DEF TypeOK
  <2>2. CountOK
    BY FS_EmptySet DEF CountOK, Ended
  <2>3. FetchOK
    BY DEF FetchOK, Ended
  <2>4. OrderOK /\ ResultOK /\ ReleaseOK
    BY DEF OrderOK, ResultOK, ReleaseOK, None
  <2> QED BY <2>1, <2>2, <2>3, <2>4 DEF IInv
<1> QED BY <1>1, Inductive, PTL DEF Spec

\* Certifier stays within its types.
THEOREM TypeCorrect == Spec => []TypeOK
BY Invariance, PTL DEF IInv

\* Obtain reports success only with the certificate for the domains of the
\* request that sanitizeDomain keeps.
THEOREM SuccessIsCertificate == Spec => []SuccessHasCertificate
<1>1. IInv => SuccessHasCertificate
  BY DEF IInv, TypeOK, ResultOK, Sanitized, SuccessHasCertificate
<1> QED BY <1>1, Invariance, PTL

\* The channels of getAuthorizations deliver every authorization to Solve.
THEOREM AllSolved == Spec => []SolveSeesAll
<1>1. IInv => SolveSeesAll
  BY DEF IInv, FetchOK, SolveSeesAll
<1> QED BY <1>1, Invariance, PTL

\* No goroutine sends on a closed channel.
THEOREM ChannelsSafe == Spec => []NoSendOnClosed
<1>1. IInv => NoSendOnClosed
  <2> SUFFICES ASSUME IInv, pc \notin {"new", "spawn", "collect"}, NEW d \in Domains
               PROVE  worker[d] \in {"idle", "done"}
    BY DEF NoSendOnClosed
  <2>1. Ended = authzs \/ worker[d] = "idle"
    BY DEF IInv, TypeOK, FetchOK
  <2> QED BY <2>1 DEF IInv, CountOK, Ended
<1> QED BY <1>1, Invariance, PTL

\* deactivateAuthorizations leaves no authorization in use.
THEOREM AllReleased == Spec => []AuthorizationsReleased
<1>1. IInv => AuthorizationsReleased
  <2> SUFFICES ASSUME IInv, pc = "done", worker # [d \in Domains |-> "idle"]
               PROVE  \A d \in authzs \ unreleased : Released(d)
    BY DEF AuthorizationsReleased, Released
  <2>1. ~ \A d \in Domains : worker[d] = "idle"
    BY DEF IInv, TypeOK
  <2> QED BY <2>1 DEF IInv, ReleaseOK
<1> QED BY <1>1, Invariance, PTL
=============================================================================
