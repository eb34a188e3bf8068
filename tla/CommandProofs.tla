---------------------------- MODULE CommandProofs ----------------------------
(***************************************************************************)
(* What the commands keep on disk, and when they renew: the certificate     *)
(* files (module CertStore) for any domains and any number of commands,     *)
(* certificates and crashes, the account and its key (module AccountStore), *)
(* and the decision of renew (module Renewal).                              *)
(***************************************************************************)
EXTENDS CertStore, AccountStore, Renewal, Integers, TLAPS

\* The time the provers have for a step that names none of them.
USE ZenonT(10), SMTT(30)

\* No file holds a certificate that was not issued yet.
OldFiles == \A n \in Names : files[n][".crt"] \in Issued => files[n][".crt"] <= issued

\* How far a save is: what it has written, and that the base name is unpaired
\* from the certificate to the key.  With --reuse-key the key file of the domain
\* holds the old key, which is the new one, or is being written.
SaveOK ==
  /\ pc \in {"save", "write"} =>
       /\ issued \in Issued /\ keyOf[issued] \in Issued
       /\ ".crt" \in plan /\ cmd.key # None => ".key" \in plan
       /\ ".crt" \notin plan => files[Base][".crt"] = issued
       /\ ".key" \notin plan /\ cmd.key # None => files[Base][".key"] = cmd.key
       /\ ".crt" \notin plan =>
            Base \in unpaired \/ (".key" \notin plan /\ cmd.key = keyOf[issued])
       /\ cmd.reuse => cmd.key = keyOf[issued]
       /\ cmd.reuse /\ Base = cmd.domain => files[Base][".key"] \in {cmd.key, Torn}
  /\ pc = "write" /\ ".crt" \in plan => Base \in unpaired

\* Only what is revoked is archived.
RevokeOK == pc = "archive" => cur \in Domains /\ files[cur][".crt"] \in revoked \cup {None}

IInv ==
  /\ TypeOK /\ OldFiles /\ SaveOK /\ RevokeOK
  /\ SavedPairMatches /\ ArchivedIsRevoked

\* Facts about the constants.
LEMMA Constants ==
  /\ None \notin Issued /\ Torn \notin Issued /\ None # Torn
  /\ Custom \notin Domains
  /\ ".crt" \in Exts /\ ".key" \in Exts
BY CertStoreAssumption DEF None, Torn, Issued, Custom, Exts

\* No command is given, and no revoke reported.
LEMMA IdleType ==
  /\ Idle \in Commands /\ ~Idle.reuse
  /\ NoResult \in Results
  /\ \A b \in BOOLEAN : [Idle EXCEPT !.kind = "revoke", !.keep = b] \in Commands
  /\ \A r \in Results, b \in BOOLEAN : [r EXCEPT !.ok = b] \in Results
<1>1. Custom \in Names
  BY DEF Names
<1>2. Idle \in Commands /\ ~Idle.reuse
  BY <1>1 DEF Idle, Commands
<1>3. NoResult \in Results
  BY DEF NoResult, Results
<1>4. \A b \in BOOLEAN : [Idle EXCEPT !.kind = "revoke", !.keep = b] \in Commands
  BY <1>2 DEF Commands
<1>5. \A r \in Results, b \in BOOLEAN : [r EXCEPT !.ok = b] \in Results
  BY DEF Results
<1> QED BY <1>2, <1>3, <1>4, <1>5

\* SaveResource writes the certificate first.
LEMMA CrtFirst ==
  ASSUME NEW e \in Exts, NEW rest, e \in rest, \A f \in rest : Rank[e] <= Rank[f]
  PROVE  e = ".crt" \/ ".crt" \notin rest
<1>1. Rank[".crt"] = 1
  BY DEF Rank, Exts
<1>2. e # ".crt" => Rank[e] \in {2, 3, 4, 5, 6}
  BY DEF Rank, Exts
<1> QED BY <1>1, <1>2

\* SaveResource writes the certificate before the key.
LEMMA CrtBeforeKey == ~(Rank[".key"] <= Rank[".crt"])
BY DEF Rank, Exts

\* The number of the next certificate.
LEMMA NextIssued ==
  ASSUME issued \in 0 .. MaxIssued, issued < MaxIssued
  PROVE  /\ issued + 1 \in Issued /\ issued + 1 \in 0 .. MaxIssued
         /\ issued \in Nat /\ ~(issued + 1 <= issued)
         /\ \A c \in Issued : c <= issued => c # issued + 1 /\ c <= issued + 1
         /\ 1 .. issued \subseteq 1 .. issued + 1
BY CertStoreAssumption DEF Issued

\* A certificate is issued and about to be saved; with --reuse-key it has the
\* key in the file of the domain.
LEMMA Obtained ==
  ASSUME IInv, pc = "idle", issued < MaxIssued,
         NEW d \in Domains, NEW base \in Names, NEW what \in {"run", "renew"},
         NEW reuse \in BOOLEAN, NEW issuer \in BOOLEAN, NEW pem \in BOOLEAN, NEW pfx \in BOOLEAN,
         NEW k \in Issued, NEW pk \in Issued \cup {None},
         reuse => pk = k /\ k = files[d][".key"],
         Obtain(k, pk, issuer, pem, pfx),
         cmd' = [kind |-> what, domain |-> d, base |-> base, reuse |-> reuse, key |-> pk,
                 fatal |-> Fatal(pk, issuer, pem, pfx), keep |-> FALSE]
  PROVE  IInv'
<1>0. /\ TypeOK /\ OldFiles /\ SaveOK /\ RevokeOK
      /\ SavedPairMatches /\ ArchivedIsRevoked
  BY DEF IInv
<1>1. /\ issued + 1 \in Issued /\ issued + 1 \in 0 .. MaxIssued
      /\ \A c \in Issued : c <= issued => c # issued + 1 /\ c <= issued + 1
      /\ 1 .. issued \subseteq 1 .. issued + 1
  BY <1>0, NextIssued DEF TypeOK
<1>2. /\ issued' = issued + 1 /\ keyOf' = [keyOf EXCEPT ![issued + 1] = k]
      /\ pc' = "save" /\ result' = NoResult
      /\ UNCHANGED <<files, archive, revoked, todo, cur, unpaired>>
  BY DEF Obtain, store
<1>3. /\ plan' \subseteq Exts /\ ".crt" \in plan' /\ (pk # None => ".key" \in plan')
  BY Constants DEF Obtain, WritesKey
<1>4. cmd' \in Commands /\ cmd'.key = pk /\ cmd'.reuse = reuse /\ cmd'.base = base /\ cmd'.domain = d
  BY DEF Commands, Fatal, Names
<1>5. keyOf' \in [Issued -> Issued \cup {None}] /\ keyOf'[issued'] = k
      /\ \A c \in Issued : c <= issued => keyOf'[c] = keyOf[c]
  BY <1>0, <1>1, <1>2 DEF TypeOK
<1>6. TypeOK'
  BY <1>0, <1>1, <1>2, <1>3, <1>4, <1>5, IdleType DEF TypeOK
<1>7. OldFiles'
  BY <1>0, <1>1, <1>2 DEF OldFiles
<1>8. SaveOK'
  BY <1>1, <1>2, <1>3, <1>4, <1>5 DEF SaveOK, Base
<1>9. RevokeOK' /\ ArchivedIsRevoked'
  BY <1>0, <1>2 DEF RevokeOK, ArchivedIsRevoked
<1>10. SavedPairMatches'
  BY <1>0, <1>2, <1>5 DEF SavedPairMatches, Match, Intact, OldFiles
<1> QED BY <1>6, <1>7, <1>8, <1>9, <1>10 DEF IInv

\* Every step preserves the invariant.
LEMMA Inductive ==
  ASSUME IInv, [Next]_vars
  PROVE  IInv'
<1>0. /\ TypeOK /\ OldFiles /\ SaveOK /\ RevokeOK
      /\ SavedPairMatches /\ ArchivedIsRevoked
  BY DEF IInv
<1> USE <1>0, Constants DEF store, server, revoking, End
<1>1. ASSUME NEW d \in Domains, Run(d) PROVE IInv'
  <2>1. pc = "idle" /\ issued < MaxIssued /\ 1 .. issued + 1 \subseteq Issued
    BY <1>1, CertStoreAssumption DEF Run, TypeOK, Issued
  <2>2. PICK base \in Names, k \in 1 .. issued + 1, csr, issuer, pem, pfx \in BOOLEAN :
          \E pk \in IF csr THEN {None} \cup 1 .. issued + 1 ELSE {k} :
            /\ Obtain(k, pk, issuer, pem, pfx)
            /\ cmd' = [kind |-> "run", domain |-> d, base |-> base, reuse |-> FALSE, key |-> pk,
                       fatal |-> Fatal(pk, issuer, pem, pfx), keep |-> FALSE]
    BY <1>1 DEF Run
  <2>3. PICK pk \in Issued \cup {None} :
          /\ Obtain(k, pk, issuer, pem, pfx)
          /\ cmd' = [kind |-> "run", domain |-> d, base |-> base, reuse |-> FALSE, key |-> pk,
                     fatal |-> Fatal(pk, issuer, pem, pfx), keep |-> FALSE]
    BY <2>1, <2>2
  <2>4. PICK kk \in Issued, reuse \in BOOLEAN :
          /\ reuse => pk = kk /\ kk = files[d][".key"]
          /\ Obtain(kk, pk, issuer, pem, pfx)
          /\ cmd' = [kind |-> "run", domain |-> d, base |-> base, reuse |-> reuse, key |-> pk,
                     fatal |-> Fatal(pk, issuer, pem, pfx), keep |-> FALSE]
    <3>1. k \in Issued
      BY <2>1
    <3> QED BY <2>3, <3>1
  <2> QED BY <2>1, <2>4, Obtained
<1>2. ASSUME NEW d \in Domains, Renew(d) PROVE IInv'
  <2>1. pc = "idle" /\ issued < MaxIssued /\ 1 .. issued + 1 \subseteq Issued /\ issued + 1 \in Issued
    BY <1>2, CertStoreAssumption DEF Renew, TypeOK, Issued
  <2>2. PICK base \in Names, csr, reuse, issuer, pem, pfx \in BOOLEAN :
          \E k \in IF csr THEN 1 .. issued + 1 ELSE {KeyToUse(d, reuse)} :
            /\ csr => ~reuse
            /\ reuse => Intact(files[d][".key"])
            /\ Obtain(k, IF csr THEN None ELSE k, issuer, pem, pfx)
            /\ cmd' = [kind |-> "renew", domain |-> d, base |-> base, reuse |-> reuse,
                       key |-> IF csr THEN None ELSE k,
                       fatal |-> Fatal(IF csr THEN None ELSE k, issuer, pem, pfx), keep |-> FALSE]
    BY <1>2 DEF Renew
  <2>3. PICK k \in Issued, pk \in Issued \cup {None} :
          /\ reuse => pk = k /\ k = files[d][".key"]
          /\ Obtain(k, pk, issuer, pem, pfx)
          /\ cmd' = [kind |-> "renew", domain |-> d, base |-> base, reuse |-> reuse, key |-> pk,
                     fatal |-> Fatal(pk, issuer, pem, pfx), keep |-> FALSE]
    <3>1. PICK k \in IF csr THEN 1 .. issued + 1 ELSE {KeyToUse(d, reuse)} :
            /\ csr => ~reuse
            /\ reuse => Intact(files[d][".key"])
            /\ Obtain(k, IF csr THEN None ELSE k, issuer, pem, pfx)
            /\ cmd' = [kind |-> "renew", domain |-> d, base |-> base, reuse |-> reuse,
                       key |-> IF csr THEN None ELSE k,
                       fatal |-> Fatal(IF csr THEN None ELSE k, issuer, pem, pfx), keep |-> FALSE]
      BY <2>2
    <3>2. k \in Issued /\ (reuse => ~csr /\ k = files[d][".key"])
      BY <2>1, <3>1 DEF KeyToUse, Intact
    <3> DEFINE pk == IF csr THEN None ELSE k
    <3>3. pk \in Issued \cup {None} /\ (reuse => pk = k)
      BY <3>2
    <3> QED BY <3>1, <3>2, <3>3
  <2> QED BY <2>1, <2>3, Obtained
<1>3. ASSUME NEW d \in Domains, RevokeFirst(d) PROVE IInv'
  <2> USE <1>3 DEF RevokeFirst
  <2>1. TypeOK'
    <3>1. Intact(files[d][".crt"]) => files[d][".crt"] \in 1 .. issued
      BY SMTT(30), CertStoreAssumption DEF OldFiles, Intact, Names, Issued, TypeOK
    <3>2. revoked' \subseteq 1 .. issued
      BY <3>1 DEF TypeOK
    <3>3. cmd' \in Commands /\ result' \in Results
      BY IdleType DEF TypeOK
    <3>4. /\ pc' \in {"idle", "archive"} /\ cur' \in Names /\ todo' \subseteq Domains
          /\ UNCHANGED <<files, archive, issued, keyOf, plan, unpaired>>
      BY DEF TypeOK, Names
    <3> HIDE <1>3 DEF RevokeFirst
    <3> QED BY <3>2, <3>3, <3>4 DEF TypeOK
  <2>2. OldFiles'
    BY DEF OldFiles, TypeOK
  <2>3. SaveOK'
    BY SMTT(40) DEF SaveOK, TypeOK, Base
  <2>4. RevokeOK'
    BY DEF RevokeOK, TypeOK
  <2>5. SavedPairMatches'
    BY DEF SavedPairMatches, Match, TypeOK, Intact
  <2>6. ArchivedIsRevoked'
    BY DEF ArchivedIsRevoked, TypeOK
  <2> QED BY <2>1, <2>2, <2>3, <2>4, <2>5, <2>6 DEF IInv
<1>4. ASSUME NEW d \in Domains, RevokeFails(d) PROVE IInv'
  <2> USE <1>4 DEF RevokeFails
  <2>1. TypeOK'
    <3>1. Intact(files[d][".crt"]) => files[d][".crt"] \in 1 .. issued
      BY SMTT(30), CertStoreAssumption DEF OldFiles, Intact, Names, Issued, TypeOK
    <3>2. revoked' \subseteq 1 .. issued
      BY ZenonT(60), <3>1 DEF TypeOK
    <3>3. cmd' \in Commands
      BY IdleType
    <3> QED BY <3>2, <3>3 DEF TypeOK
  <2>2. OldFiles'
    BY DEF OldFiles, TypeOK
  <2>3. SaveOK'
    BY DEF SaveOK, TypeOK, Base
  <2>4. RevokeOK'
    BY DEF RevokeOK, TypeOK
  <2>5. SavedPairMatches'
    BY DEF SavedPairMatches, Match, TypeOK, Intact
  <2>6. ArchivedIsRevoked'
    BY DEF ArchivedIsRevoked, TypeOK
  <2> QED BY <2>1, <2>2, <2>3, <2>4, <2>5, <2>6 DEF IInv
<1>5. ASSUME Truncate PROVE IInv'
  <2>1. PICK e \in Exts :
          /\ e \in plan /\ \A f \in plan : Rank[e] <= Rank[f]
          /\ files' = [files EXCEPT ![Base][e] = Torn]
          /\ unpaired' = IF e = ".crt" THEN unpaired \cup {Base} ELSE unpaired
    BY <1>5 DEF Truncate, NextFile
  <2>2. /\ pc = "save" /\ pc' = "write"
        /\ UNCHANGED <<archive, issued, keyOf, revoked, cmd, plan, todo, cur, result>>
    BY <1>5 DEF Truncate
  <2>3. Base \in Names /\ Base' = Base /\ files \in [Names -> [Exts -> Contents]]
    BY <2>2 DEF TypeOK, Commands, Base
  <2>4. /\ files' \in [Names -> [Exts -> Contents]]
        /\ files'[Base][e] = Torn
        /\ \A x \in Exts : x # e => files'[Base][x] = files[Base][x]
        /\ \A n \in Names : n # Base => files'[n] = files[n]
    BY SMTT(30), <2>1, <2>3 DEF Contents
  <2>5. e = ".crt" \/ ".crt" \notin plan
    BY <2>1, CrtFirst
  <2>6. TypeOK'
    BY <2>1, <2>2, <2>3, <2>4 DEF TypeOK
  <2>7. OldFiles'
    BY <2>2, <2>4 DEF OldFiles
  <2>8. SaveOK'
    BY SMTT(30), <2>1, <2>2, <2>3, <2>4, <2>5 DEF SaveOK
  <2>9. RevokeOK' /\ ArchivedIsRevoked'
    BY <2>2 DEF RevokeOK, ArchivedIsRevoked
  <2>10. SavedPairMatches'
    BY SMTT(30), <2>1, <2>2, <2>3, <2>4 DEF SavedPairMatches, Match, Intact
  <2> QED BY <2>6, <2>7, <2>8, <2>9, <2>10 DEF IInv
<1>6. ASSUME Write PROVE IInv'
  <2>1. PICK e \in Exts :
          /\ e \in plan /\ \A f \in plan : Rank[e] <= Rank[f]
          /\ files' = [files EXCEPT ![Base][e] = Content(e)]
          /\ plan' = plan \ {e}
    BY <1>6 DEF Write, NextFile
  <2>2. /\ pc = "write"
        /\ UNCHANGED <<archive, issued, keyOf, revoked, todo, cur, result>>
        /\ unpaired' = IF Paired THEN unpaired \ {Base} ELSE unpaired
    BY <1>6 DEF Write
  <2>3. (pc' \in {"idle", "hook"} /\ cmd' \in Commands) \/ (pc' = "save" /\ UNCHANGED cmd)
    BY <1>6, IdleType DEF Write, TypeOK
  <2>4. Base \in Names /\ files \in [Names -> [Exts -> Contents]] /\ cmd.key \in Issued \cup {None}
    BY <2>2 DEF TypeOK, Commands, Base
  <2>5. issued \in Issued /\ keyOf[issued] \in Issued
    BY <2>2 DEF SaveOK
  <2>6. Content(e) \in Contents
    BY <2>4, <2>5 DEF Content, Contents
  <2>7. /\ files' \in [Names -> [Exts -> Contents]]
        /\ files'[Base][e] = Content(e)
        /\ \A x \in Exts : x # e => files'[Base][x] = files[Base][x]
        /\ \A n \in Names : n # Base => files'[n] = files[n]
    BY SMTT(30), <2>1, <2>4, <2>6
  <2>8. e = ".crt" \/ ".crt" \notin plan
    BY <2>1, CrtFirst
  <2>9. /\ ".crt" \notin plan'
        /\ files'[Base][".crt"] = issued
        /\ ".key" \notin plan' /\ cmd.key # None => files'[Base][".key"] = cmd.key
        /\ Base \in unpaired' \/ (".key" \notin plan' /\ cmd.key = keyOf[issued])
        /\ cmd.reuse /\ Base = cmd.domain => files'[Base][".key"] \in {cmd.key, Torn}
    <3>1. ".crt" \notin plan'
      BY <2>1, <2>8
    <3>2. files'[Base][".crt"] = issued
      BY <2>1, <2>2, <2>7, <2>8 DEF SaveOK, Content
    <3>3. ".key" \notin plan' /\ cmd.key # None => files'[Base][".key"] = cmd.key
      <4>1. CASE e = ".key"
        BY <2>7, <4>1 DEF Content
      <4>2. CASE e # ".key"
        BY <2>1, <2>2, <2>7, <4>2 DEF SaveOK
      <4> QED BY <4>1, <4>2
    <3>4. Base \in unpaired' \/ (".key" \notin plan' /\ cmd.key = keyOf[issued])
      <4>1. CASE Paired
        BY <4>1 DEF Paired
      <4>2. CASE ~Paired /\ ".crt" \in plan
        BY <2>2, <4>2 DEF SaveOK
      <4>3. CASE ~Paired /\ ".crt" \notin plan
        BY <2>1, <2>2, <4>3 DEF SaveOK, Paired
      <4> QED BY <4>1, <4>2, <4>3
    <3>5. cmd.reuse /\ Base = cmd.domain => files'[Base][".key"] \in {cmd.key, Torn}
      <4>1. CASE e = ".key"
        BY <2>7, <4>1 DEF Content
      <4>2. CASE e # ".key"
        BY <2>2, <2>7, <4>2 DEF SaveOK
      <4> QED BY <4>1, <4>2
    <3> QED BY <3>1, <3>2, <3>3, <3>4, <3>5
  <2>10. TypeOK'
    <3>1. pc' \in {"idle", "hook", "save"} /\ cmd' \in Commands
      BY <2>3 DEF TypeOK
    <3>2. plan' \subseteq Exts /\ unpaired' \subseteq Names
      BY <2>1, <2>2 DEF TypeOK
    <3> QED BY <2>2, <2>7, <3>1, <3>2 DEF TypeOK
  <2>11. OldFiles'
    <3>1. issued <= issued
      BY <2>5 DEF Issued
    <3> QED BY <2>2, <2>7, <2>9, <3>1 DEF OldFiles
  <2>12. SaveOK'
    <3>1. CASE pc' \in {"idle", "hook"}
      BY <3>1 DEF SaveOK
    <3>2. CASE pc' = "save" /\ UNCHANGED cmd
      <4>1. Base' = Base /\ (cmd.reuse => cmd.key = keyOf[issued])
        BY <2>2, <3>2 DEF Base, SaveOK
      <4> QED BY ZenonT(60), <2>2, <2>5, <2>9, <3>2, <4>1 DEF SaveOK
    <3> QED BY <2>3, <3>1, <3>2
  <2>13. RevokeOK' /\ ArchivedIsRevoked'
    BY <2>2, <2>3 DEF RevokeOK, ArchivedIsRevoked
  <2>14. SavedPairMatches'
    <3>1. ASSUME NEW n \in Names, n # Base, n \notin unpaired' PROVE Match(n)'
      BY <2>2, <2>7, <3>1 DEF SavedPairMatches, Match
    <3>2. ASSUME NEW n \in Names, n = Base, n \notin unpaired' PROVE Match(n)'
      BY <2>2, <2>5, <2>9, <3>2 DEF Match, Intact
    <3> QED BY <3>1, <3>2 DEF SavedPairMatches
  <2> QED BY <2>10, <2>11, <2>12, <2>13, <2>14 DEF IInv
<1>7. ASSUME Hook PROVE IInv'
  <2> USE <1>7 DEF Hook
  <2>1. TypeOK'
    BY IdleType DEF TypeOK
  <2>2. OldFiles'
    BY DEF OldFiles, TypeOK
  <2>3. SaveOK'
    BY DEF SaveOK, TypeOK, Base
  <2>4. RevokeOK'
    BY DEF RevokeOK, TypeOK
  <2>5. SavedPairMatches'
    BY DEF SavedPairMatches, Match, TypeOK, Intact
  <2>6. ArchivedIsRevoked'
    BY DEF ArchivedIsRevoked, TypeOK
  <2> QED BY <2>1, <2>2, <2>3, <2>4, <2>5, <2>6 DEF IInv
<1>8. ASSUME Revoke PROVE IInv'
  <2> USE <1>8 DEF Revoke
  <2>1. TypeOK'
    <3>1. cmd' \in Commands
      BY IdleType
    <3>2. todo' \subseteq Domains /\ result' \in Results
      BY DEF Results
    <3> QED BY <3>1, <3>2 DEF TypeOK
  <2>2. OldFiles'
    BY DEF OldFiles, TypeOK
  <2>3. SaveOK'
    BY DEF SaveOK, TypeOK, Base
  <2>4. RevokeOK'
    BY DEF RevokeOK, TypeOK
  <2>5. SavedPairMatches'
    BY DEF SavedPairMatches, Match, TypeOK, Intact
  <2>6. ArchivedIsRevoked'
    BY DEF ArchivedIsRevoked, TypeOK
  <2> QED BY <2>1, <2>2, <2>3, <2>4, <2>5, <2>6 DEF IInv
<1>9. ASSUME Archive PROVE IInv'
  <2> USE <1>9 DEF Archive
  <2>1. TypeOK'
    BY SMTT(30) DEF TypeOK, Contents, Matches
  <2>2. OldFiles'
    BY SMTT(30) DEF OldFiles, TypeOK, Matches, Content, SaveOK, Base, Contents, NextFile
  <2>3. SaveOK'
    BY DEF SaveOK, TypeOK, Base, Matches
  <2>4. RevokeOK'
    BY SMTT(30) DEF RevokeOK, TypeOK, Matches, Names
  <2>5. SavedPairMatches'
    BY SMTT(30) DEF SavedPairMatches, Match, TypeOK, Intact, RevokeOK, Names
  <2>6. ArchivedIsRevoked'
    BY SMTT(30) DEF ArchivedIsRevoked, TypeOK, Matches, RevokeOK
  <2> QED BY <2>1, <2>2, <2>3, <2>4, <2>5, <2>6 DEF IInv
<1>10. ASSUME ArchiveEnd PROVE IInv'
  <2> USE <1>10 DEF ArchiveEnd
  <2>1. TypeOK'
    <3>1. cmd' \in Commands /\ result' \in Results /\ cur' \in Names /\ pc' \in {"idle", "revoke"}
      BY IdleType DEF TypeOK, Names
    <3> QED BY <3>1 DEF TypeOK
  <2>2. OldFiles'
    BY DEF OldFiles, TypeOK
  <2>3. SaveOK'
    BY DEF SaveOK, TypeOK, Base
  <2>4. RevokeOK'
    BY DEF RevokeOK, TypeOK
  <2>5. SavedPairMatches'
    BY DEF SavedPairMatches, Match, TypeOK, Intact
  <2>6. ArchivedIsRevoked'
    BY DEF ArchivedIsRevoked, TypeOK
  <2> QED BY <2>1, <2>2, <2>3, <2>4, <2>5, <2>6 DEF IInv
<1>11. ASSUME Crash PROVE IInv'
  <2> USE <1>11 DEF Crash
  <2>1. TypeOK'
    BY IdleType DEF TypeOK, Names
  <2>2. OldFiles'
    BY DEF OldFiles, TypeOK
  <2>3. SaveOK'
    BY DEF SaveOK, TypeOK, Base
  <2>4. RevokeOK'
    BY DEF RevokeOK, TypeOK
  <2>5. SavedPairMatches'
    BY DEF SavedPairMatches, Match, TypeOK, Intact
  <2>6. ArchivedIsRevoked'
    BY DEF ArchivedIsRevoked, TypeOK
  <2> QED BY <2>1, <2>2, <2>3, <2>4, <2>5, <2>6 DEF IInv
<1>12. ASSUME UNCHANGED vars PROVE IInv'
  <2>1. UNCHANGED <<files, archive, issued, keyOf, revoked, pc, cmd, plan, todo, cur, unpaired, result>>
    BY <1>12 DEF vars
  <2>2. TypeOK'
    BY <2>1 DEF TypeOK
  <2>3. OldFiles' /\ RevokeOK' /\ ArchivedIsRevoked'
    BY <2>1 DEF OldFiles, RevokeOK, ArchivedIsRevoked
  <2>4. SaveOK'
    BY <2>1 DEF SaveOK, Base
  <2>5. SavedPairMatches'
    BY <2>1 DEF SavedPairMatches, Match
  <2> QED BY <2>2, <2>3, <2>4, <2>5 DEF IInv
<1> QED BY <1>1, <1>2, <1>3, <1>4, <1>5, <1>6, <1>7, <1>8, <1>9, <1>10, <1>11, <1>12 DEF Next

\* The invariant holds in every state.
THEOREM Invariance == Spec => []IInv
<1>1. Init => IInv
  <2> SUFFICES ASSUME Init PROVE IInv
    OBVIOUS
  <2> USE Constants, CertStoreAssumption DEF Init
  <2>1. TypeOK
    <3>1. files \in [Names -> [Exts -> Contents]] /\ keyOf \in [Issued -> Issued \cup {None}]
      BY DEF Contents
    <3>2. issued \in 0 .. MaxIssued /\ cur \in Names
      BY DEF Names
    <3>3. cmd \in Commands /\ result \in Results
      BY IdleType
    <3> QED BY <3>1, <3>2, <3>3 DEF TypeOK
  <2>2. OldFiles /\ SaveOK /\ RevokeOK
    BY DEF OldFiles, SaveOK, RevokeOK, Names
  <2>3. SavedPairMatches /\ ArchivedIsRevoked
    BY DEF SavedPairMatches, ArchivedIsRevoked, Match, Intact
  <2> QED BY <2>1, <2>2, <2>3 DEF IInv
<1> QED BY <1>1, Inductive, PTL DEF Spec

\* CertStore stays within its types.
THEOREM TypeCorrect == Spec => []TypeOK
BY Invariance, PTL DEF IInv

\* SaveResource leaves a certificate and a key that belong together, but for
\* the base names where a certificate was saved and its key did not follow.
THEOREM PairsMatch == Spec => []SavedPairMatches
BY Invariance, PTL DEF IInv

\* MoveToArchive is never reached with a certificate that is not revoked.
THEOREM OnlyRevokedArchived == Spec => []ArchivedIsRevoked
BY Invariance, PTL DEF IInv

\* No step of a renew --reuse-key separates a certificate from its key, but in
\* files that --filename names in place of the domain's.
LEMMA ReuseStep ==
  ASSUME IInv, [Next]_vars, NEW n \in Names, cmd.reuse, Match(n), ~Match(n)'
  PROVE  n = cmd.base /\ n # cmd.domain
<1>0. TypeOK /\ OldFiles /\ SaveOK
  BY DEF IInv
<1> USE <1>0, Constants DEF store, server, revoking, Match, Intact
<1>1. ASSUME NEW d \in Domains, Run(d) \/ Renew(d) PROVE FALSE
  <2>1. issued \in 0 .. MaxIssued /\ issued < MaxIssued /\ files' = files
    BY SMTT(30), <1>1 DEF Run, Renew, Obtain, TypeOK
  <2>2. PICK k : keyOf' = [keyOf EXCEPT ![issued + 1] = k]
    <3>1. CASE Run(d)
      BY ZenonT(60), <3>1 DEF Run, Obtain
    <3>2. CASE Renew(d)
      <4>1. \E k, pk, issuer, pem, pfx : Obtain(k, pk, issuer, pem, pfx)
        BY ZenonT(60), <3>2 DEF Renew
      <4> QED BY <4>1 DEF Obtain
    <3> QED BY <1>1, <3>1, <3>2
  <2> QED BY <2>1, <2>2, NextIssued DEF OldFiles, TypeOK
<1>2. ASSUME Truncate PROVE FALSE
  BY SMTT(30), <1>2 DEF Truncate, TypeOK, Base, Names
<1>3. ASSUME Write PROVE n = cmd.base /\ n # cmd.domain
  <2>1. PICK e \in Exts : /\ e \in plan /\ \A f \in plan : Rank[e] <= Rank[f]
                          /\ files' = [files EXCEPT ![Base][e] = Content(e)]
    BY ZenonT(60), <1>3 DEF Write, NextFile
  <2>2. Base \in Names /\ pc = "write" /\ keyOf' = keyOf /\ cmd.key = keyOf[issued]
    BY <1>3 DEF Write, Base, TypeOK, SaveOK
  <2>3. n = Base
    BY <2>1, <2>2 DEF TypeOK
  <2>4. CASE e = ".crt"
    <3>1. CASE Base = cmd.domain
      <4>1. files[Base][".key"] \in {keyOf[issued], Torn}
        BY <2>2, <3>1 DEF SaveOK
      <4> QED BY <2>1, <2>2, <2>3, <2>4, <4>1 DEF TypeOK, Content
    <3>2. CASE Base # cmd.domain
      BY <2>3, <3>2 DEF Base
    <3> QED BY <3>1, <3>2
  <2>5. CASE e = ".key"
    <3>1. files[Base][".crt"] = issued
      BY <2>1, <2>2, <2>5, CrtBeforeKey DEF SaveOK
    <3> QED BY <2>1, <2>2, <2>3, <2>5, <3>1 DEF TypeOK, Content
  <2>6. CASE e # ".crt" /\ e # ".key"
    BY <2>1, <2>2, <2>3, <2>6 DEF TypeOK
  <2> QED BY <2>4, <2>5, <2>6
<1>4. ASSUME Archive PROVE FALSE
  BY SMTT(30), <1>4 DEF Archive, Matches, TypeOK
<1>5. ASSUME UNCHANGED <<files, keyOf>> PROVE FALSE
  BY <1>5
<1> QED BY <1>1, <1>2, <1>3, <1>4, <1>5 DEF Next, vars, RevokeFirst, RevokeFails, Hook, Revoke, ArchiveEnd, Crash

\* renew --reuse-key never separates a certificate from its key.
THEOREM ReuseSafe == Spec => ReuseKeepsPair
<1>1. IInv /\ [Next]_vars =>
        [\A n \in Names : cmd.reuse /\ Match(n) /\ ~Match(n)' => n = cmd.base /\ n # cmd.domain]_vars
  BY ReuseStep
<1> QED BY <1>1, Invariance, PTL DEF Spec, ReuseKeepsPair

-----------------------------------------------------------------------------
(* The account and its key (module AccountStore) for any number of keys and *)
(* crashes.                                                                 *)

\* Beyond the properties: the key in memory is the one in the key file once it
\* is written or read, and a registration in memory is the account of that key.
MemoryOK ==
  /\ step \in {"getKey", "writeKey"} => registration = Absent
  /\ step = "writeKey" => key \in Keys /\ keyFile = TornFile
  /\ step \in {"loadAccount", "recover", "start", "register", "truncate", "save", "ready"} =>
       key \in Keys /\ keyFile = key
  /\ step # "idle" /\ registration \in Keys => registration = key /\ key \in accounts
  /\ step \in {"truncate", "save", "ready"} => registration # Absent

AccountInv == AccountTypeOK /\ MemoryOK /\ RegisteredKeyKept /\ AccountOfKey

\* The values that are no keys.
LEMMA NoKeys ==
  /\ Absent \notin Keys /\ TornFile \notin Keys /\ Unregistered \notin Keys
  /\ Absent # TornFile /\ Absent # Unregistered /\ TornFile # Unregistered
BY AccountStoreAssumption DEF Absent, TornFile, Unregistered, Keys

\* Generated keys are keys.
LEMMA Generated ==
  ASSUME generated \in 0 .. MaxKeys, generated < MaxKeys
  PROVE  generated + 1 \in Keys /\ generated + 1 \in 0 .. MaxKeys
BY AccountStoreAssumption DEF Keys

\* Every step preserves the invariant.
LEMMA AccountInductive ==
  ASSUME AccountInv, [AccountNext]_accountVars
  PROVE  AccountInv'
<1>0. AccountTypeOK /\ MemoryOK /\ RegisteredKeyKept /\ AccountOfKey
  BY DEF AccountInv
<1> USE <1>0, NoKeys, AccountStoreAssumption DEF Exit, disk, memory
<1>1. ASSUME Command PROVE AccountInv'
  <2> USE <1>1 DEF Command
  <2>1. AccountTypeOK'
    BY DEF AccountTypeOK, MemoryOK
  <2>2. MemoryOK'
    BY DEF AccountTypeOK, MemoryOK, RegisteredKeyKept, AccountOfKey
  <2>3. RegisteredKeyKept' /\ AccountOfKey'
    BY DEF AccountTypeOK, MemoryOK, RegisteredKeyKept, AccountOfKey
  <2> QED BY <2>1, <2>2, <2>3 DEF AccountInv
<1>2. ASSUME CreateKeyFile PROVE AccountInv'
  <2> USE <1>2 DEF CreateKeyFile
  <2>1. AccountTypeOK'
    BY Generated DEF AccountTypeOK, MemoryOK
  <2>2. MemoryOK'
    BY Generated DEF AccountTypeOK, MemoryOK, RegisteredKeyKept, AccountOfKey
  <2>3. RegisteredKeyKept' /\ AccountOfKey'
    BY Generated DEF AccountTypeOK, MemoryOK, RegisteredKeyKept, AccountOfKey
  <2> QED BY <2>1, <2>2, <2>3 DEF AccountInv
<1>3. ASSUME WriteKey PROVE AccountInv'
  <2> USE <1>3 DEF WriteKey
  <2>1. AccountTypeOK'
    BY DEF AccountTypeOK, MemoryOK
  <2>2. MemoryOK'
    BY DEF AccountTypeOK, MemoryOK, RegisteredKeyKept, AccountOfKey
  <2>3. RegisteredKeyKept' /\ AccountOfKey'
    BY DEF AccountTypeOK, MemoryOK, RegisteredKeyKept, AccountOfKey
  <2> QED BY <2>1, <2>2, <2>3 DEF AccountInv
<1>4. ASSUME LoadKey PROVE AccountInv'
  <2> USE <1>4 DEF LoadKey
  <2>1. AccountTypeOK'
    BY DEF AccountTypeOK, MemoryOK
  <2>2. MemoryOK'
    BY DEF AccountTypeOK, MemoryOK, RegisteredKeyKept, AccountOfKey
  <2>3. RegisteredKeyKept' /\ AccountOfKey'
    BY DEF AccountTypeOK, MemoryOK, RegisteredKeyKept, AccountOfKey
  <2> QED BY <2>1, <2>2, <2>3 DEF AccountInv
<1>5. ASSUME LoadAccount PROVE AccountInv'
  <2> USE <1>5 DEF LoadAccount
  <2>1. AccountTypeOK'
    BY DEF AccountTypeOK, MemoryOK
  <2>2. MemoryOK'
    BY DEF AccountTypeOK, MemoryOK, RegisteredKeyKept, AccountOfKey
  <2>3. RegisteredKeyKept' /\ AccountOfKey'
    BY DEF AccountTypeOK, MemoryOK, RegisteredKeyKept, AccountOfKey
  <2> QED BY <2>1, <2>2, <2>3 DEF AccountInv
<1>6. ASSUME Recover PROVE AccountInv'
  <2> USE <1>6 DEF Recover
  <2>1. AccountTypeOK'
    BY DEF AccountTypeOK, MemoryOK
  <2>2. MemoryOK'
    BY DEF AccountTypeOK, MemoryOK, RegisteredKeyKept, AccountOfKey
  <2>3. RegisteredKeyKept' /\ AccountOfKey'
    BY DEF AccountTypeOK, MemoryOK, RegisteredKeyKept, AccountOfKey
  <2> QED BY <2>1, <2>2, <2>3 DEF AccountInv
<1>7. ASSUME Start PROVE AccountInv'
  <2> USE <1>7 DEF Start
  <2>1. AccountTypeOK'
    BY DEF AccountTypeOK, MemoryOK
  <2>2. MemoryOK'
    BY DEF AccountTypeOK, MemoryOK, RegisteredKeyKept, AccountOfKey
  <2>3. RegisteredKeyKept' /\ AccountOfKey'
    BY DEF AccountTypeOK, MemoryOK, RegisteredKeyKept, AccountOfKey
  <2> QED BY <2>1, <2>2, <2>3 DEF AccountInv
<1>8. ASSUME Register PROVE AccountInv'
  <2> USE <1>8 DEF Register
  <2>1. AccountTypeOK'
    BY DEF AccountTypeOK, MemoryOK
  <2>2. MemoryOK'
    BY DEF AccountTypeOK, MemoryOK, RegisteredKeyKept, AccountOfKey
  <2>3. RegisteredKeyKept' /\ AccountOfKey'
    BY DEF AccountTypeOK, MemoryOK, RegisteredKeyKept, AccountOfKey
  <2> QED BY <2>1, <2>2, <2>3 DEF AccountInv
<1>9. ASSUME TruncateAccount PROVE AccountInv'
  <2> USE <1>9 DEF TruncateAccount
  <2>1. AccountTypeOK'
    BY DEF AccountTypeOK, MemoryOK
  <2>2. MemoryOK'
    BY DEF AccountTypeOK, MemoryOK, RegisteredKeyKept, AccountOfKey
  <2>3. RegisteredKeyKept' /\ AccountOfKey'
    BY DEF AccountTypeOK, MemoryOK, RegisteredKeyKept, AccountOfKey
  <2> QED BY <2>1, <2>2, <2>3 DEF AccountInv
<1>10. ASSUME Save PROVE AccountInv'
  <2> USE <1>10 DEF Save
  <2>1. AccountTypeOK'
    BY DEF AccountTypeOK, MemoryOK
  <2>2. MemoryOK'
    BY DEF AccountTypeOK, MemoryOK, RegisteredKeyKept, AccountOfKey
  <2>3. RegisteredKeyKept' /\ AccountOfKey'
    BY DEF AccountTypeOK, MemoryOK, RegisteredKeyKept, AccountOfKey
  <2> QED BY <2>1, <2>2, <2>3 DEF AccountInv
<1>11. ASSUME Work PROVE AccountInv'
  <2> USE <1>11 DEF Work
  <2>1. AccountTypeOK'
    BY DEF AccountTypeOK, MemoryOK
  <2>2. MemoryOK'
    BY DEF AccountTypeOK, MemoryOK, RegisteredKeyKept, AccountOfKey
  <2>3. RegisteredKeyKept' /\ AccountOfKey'
    BY DEF AccountTypeOK, MemoryOK, RegisteredKeyKept, AccountOfKey
  <2> QED BY <2>1, <2>2, <2>3 DEF AccountInv
<1>12. ASSUME Killed PROVE AccountInv'
  <2> USE <1>12 DEF Killed
  <2>1. AccountTypeOK'
    BY SMTT(30) DEF AccountTypeOK, MemoryOK
  <2>2. MemoryOK'
    BY DEF AccountTypeOK, MemoryOK, RegisteredKeyKept, AccountOfKey
  <2>3. RegisteredKeyKept' /\ AccountOfKey'
    BY DEF AccountTypeOK, MemoryOK, RegisteredKeyKept, AccountOfKey
  <2> QED BY <2>1, <2>2, <2>3 DEF AccountInv
<1>13. ASSUME UNCHANGED accountVars PROVE AccountInv'
  BY <1>13 DEF accountVars, AccountInv, AccountTypeOK, MemoryOK, RegisteredKeyKept, AccountOfKey
<1> QED BY <1>1, <1>2, <1>3, <1>4, <1>5, <1>6, <1>7, <1>8, <1>9, <1>10, <1>11, <1>12, <1>13 DEF AccountNext, Step

\* The invariant holds in every state.
THEOREM AccountInvariance == AccountSpec => []AccountInv
<1>1. AccountInit => AccountInv
  <2> SUFFICES ASSUME AccountInit PROVE AccountInv
    OBVIOUS
  <2>1. AccountTypeOK
    BY AccountStoreAssumption DEF AccountInit, AccountTypeOK
  <2> QED BY <2>1, NoKeys DEF AccountInit, AccountInv, MemoryOK, RegisteredKeyKept, AccountOfKey
<1>2. AccountInv /\ [AccountNext]_accountVars => AccountInv'
  BY AccountInductive
<1> QED BY <1>1, <1>2, PTL DEF AccountSpec

\* However often commands are killed, the key of a registered account is in the
\* key file, and there is never a second account.
THEOREM KeyKept == AccountSpec => []RegisteredKeyKept
<1>1. AccountInv => RegisteredKeyKept
  BY DEF AccountInv
<1> QED BY <1>1, AccountInvariance, PTL

\* What the account file names, and what a command works with, is the account of
\* the key in the key file.
THEOREM OwnAccount == AccountSpec => []AccountOfKey
<1>1. AccountInv => AccountOfKey
  BY DEF AccountInv
<1> QED BY <1>1, AccountInvariance, PTL

-----------------------------------------------------------------------------
(* When renew renews (module Renewal), for all lifetimes, values of --days, *)
(* periods and numbers of failures.                                         *)

\* What the configuration grants, and the strengthening: even if all the
\* renewals that may still fail do, the certificate has not expired.
RenewInv ==
  /\ RenewTypeOK
  /\ willing < period
  /\ period * (MaxFailures + 1) <= DueBefore
  /\ age + period * (MaxFailures - failures) <= lifetime

\* DueBefore is at most the lifetime.
LEMMA DueBeforeBound ==
  ASSUME RenewTypeOK
  PROVE  DueBefore \in Int /\ DueBefore <= lifetime
<1>1. lifetime \in Nat \ {0} /\ days \in Int /\ dynamic \in BOOLEAN
  BY RenewalAssumption DEF RenewTypeOK
<1>2. Divisor \in {2, 3}
  BY DEF Divisor
<1>3. lifetime \div Divisor \in Int /\ lifetime \div Divisor <= lifetime
  <2>1. lifetime \div 2 \in Int /\ lifetime \div 2 <= lifetime
    BY <1>1, Z3
  <2>2. lifetime \div 3 \in Int /\ lifetime \div 3 <= lifetime
    BY <1>1, Z3
  <2> QED BY <1>2, <2>1, <2>2
<1> QED BY <1>1, <1>3 DEF DueBefore

\* A certificate that renew leaves alone is not yet due.
LEMMA NotDue ==
  ASSUME RenewTypeOK, age <= lifetime, ~NeedRenewal(age)
  PROVE  age + DueBefore <= lifetime
<1>1. lifetime \in Nat \ {0} /\ days \in Int /\ dynamic \in BOOLEAN /\ age \in Nat
  BY RenewalAssumption DEF RenewTypeOK
<1>2. CASE dynamic
  <2>1. Divisor \in {2, 3}
    BY DEF Divisor
  <2>2. lifetime \div Divisor \in Int
    BY <1>1, <2>1, Z3
  <2>3. ~(lifetime - (lifetime \div Divisor) < age)
    BY <1>2 DEF NeedRenewal, NeedRenewalDynamic
  <2>4. DueBefore = lifetime \div Divisor
    BY <1>2 DEF DueBefore
  <2> HIDE DEF Divisor, DueBefore
  <2> QED BY <1>1, <2>2, <2>3, <2>4
<1>3. CASE ~dynamic
  <2>1. days >= 0 /\ (lifetime - age) \div 24 > days
    BY <1>1, <1>3 DEF NeedRenewal, DaysLeft
  <2>2. lifetime - age >= 24 * (days + 1)
    BY <1>1, <2>1, Z3
  <2>3. DueBefore = (days + 1) * 24
    BY <1>1, <1>3, <2>1, <2>2 DEF DueBefore
  <2> QED BY <1>1, <2>2, <2>3
<1> QED BY <1>2, <1>3

\* The products that occur below.
LEMMA Products ==
  ASSUME NEW p \in Nat, NEW m \in Nat, NEW f \in 0 .. m
  PROVE  /\ p * (m + 1) = p * m + p
         /\ p * (m - f) = p * m - p * f
         /\ p * (m - (f + 1)) = p * m - p * f - p
         /\ p * m \in Nat /\ p * f \in Nat /\ p * f <= p * m
<1>1. p * (m + 1) = p * m + p
  BY Z3
<1>2. p * (m - f) = p * m - p * f /\ p * (m - (f + 1)) = p * m - p * f - p
  BY Z3
<1>3. p * m \in Nat /\ p * f \in Nat
  BY Z3
<1>4. p * (m - f) >= 0
  <2>1. m - f \in Nat
    OBVIOUS
  <2> QED BY <2>1, Z3
<1> QED BY <1>1, <1>2, <1>3, <1>4

\* Renewed, at any time from the run on and before the next, keeps RenewInv.
LEMMA RenewedStep ==
  ASSUME RenewInv, NEW t \in Nat, age <= t, t <= age + period, Renewed(t), UNCHANGED config
  PROVE  RenewInv'
<1>1. period \in Nat /\ age \in Nat /\ lifetime \in Nat /\ MaxFailures \in Nat /\ failures \in 0 .. MaxFailures
  BY RenewalAssumption DEF RenewInv, RenewTypeOK
<1>2. age' = age + period - t /\ failures' = 0
  BY DEF Renewed
<1>3. age' \in Nat /\ age' <= period
  BY <1>1, <1>2
<1>4. DueBefore \in Int /\ DueBefore <= lifetime
  BY DueBeforeBound DEF RenewInv
<1>5. period * (MaxFailures + 1) <= lifetime
  BY <1>1, <1>4 DEF RenewInv
<1>6. age' + period' * (MaxFailures - failures') <= lifetime'
  BY SMTT(30), <1>1, <1>2, <1>3, <1>5, Products DEF config
<1>7. RenewTypeOK'
  BY <1>1, <1>2, <1>3 DEF RenewInv, RenewTypeOK, config
<1>8. (willing < period)' /\ (period * (MaxFailures + 1) <= DueBefore)'
  BY DEF RenewInv, config, DueBefore, Divisor, RoundedDays
<1> QED BY <1>6, <1>7, <1>8 DEF RenewInv

\* So does a renewal that fails.
LEMMA FailedStep ==
  ASSUME RenewInv, Failed, UNCHANGED config
  PROVE  RenewInv'
<1>1. period \in Nat /\ age \in Nat /\ lifetime \in Nat /\ MaxFailures \in Nat /\ failures \in 0 .. MaxFailures
  BY RenewalAssumption DEF RenewInv, RenewTypeOK
<1>2. failures < MaxFailures /\ age' = age + period /\ failures' = failures + 1
  BY DEF Failed
<1>3. age + period * (MaxFailures - failures) <= lifetime
  BY DEF RenewInv
<1>4. age' + period' * (MaxFailures - failures') <= lifetime'
  <2>1. period * (MaxFailures - (failures + 1)) = period * (MaxFailures - failures) - period
    BY SMTT(30), <1>1, Products
  <2>2. period * (MaxFailures - failures) \in Int
    BY SMTT(30), <1>1, Products
  <2> QED BY <1>1, <1>2, <1>3, <2>1, <2>2 DEF config
<1>5. RenewTypeOK'
  BY <1>1, <1>2 DEF RenewInv, RenewTypeOK, config
<1>6. (willing < period)' /\ (period * (MaxFailures + 1) <= DueBefore)'
  BY DEF RenewInv, config, DueBefore, Divisor, RoundedDays
<1> QED BY <1>4, <1>5, <1>6 DEF RenewInv

\* RenewInv implies that the certificate has not expired.
LEMMA RenewInTime == RenewInv => NeverExpired
<1> SUFFICES ASSUME RenewInv PROVE NeverExpired
  OBVIOUS
<1>1. period \in Nat /\ age \in Nat /\ lifetime \in Nat /\ MaxFailures \in Nat /\ failures \in 0 .. MaxFailures
  BY RenewalAssumption DEF RenewInv, RenewTypeOK
<1>2. age + period * (MaxFailures - failures) <= lifetime
  BY DEF RenewInv
<1>3. period * (MaxFailures - failures) >= 0
  BY SMTT(30), <1>1, Products
<1>4. period * (MaxFailures - failures) \in Int
  BY SMTT(30), <1>1, Products
<1> QED BY <1>1, <1>2, <1>3, <1>4 DEF NeverExpired

\* RenewInv is inductive.
LEMMA RenewInductive ==
  RenewInv /\ [RenewNext]_renewVars => RenewInv'
<1> SUFFICES ASSUME RenewInv, [RenewNext]_renewVars PROVE RenewInv'
  OBVIOUS
<1>1. period \in Nat \ {0} /\ age \in Nat /\ lifetime \in Nat /\ willing \in Nat
      /\ MaxFailures \in Nat /\ failures \in 0 .. MaxFailures
  BY RenewalAssumption DEF RenewInv, RenewTypeOK
<1>2. age <= lifetime
  BY RenewInTime DEF NeverExpired
<1>3. CASE RenewByAge
  <2>1. CASE NeedRenewal(age)
    <3>1. Renewed(age) \/ Failed
      BY <1>3, <2>1 DEF RenewByAge
    <3>2. UNCHANGED config
      BY <1>3 DEF RenewByAge
    <3> QED BY <1>1, <3>1, <3>2, RenewedStep, FailedStep
  <2>2. CASE ~NeedRenewal(age)
    <3>1. age' = age + period /\ failures' = failures /\ UNCHANGED config
      BY <1>3, <2>2 DEF RenewByAge
    <3>2. age + DueBefore <= lifetime
      BY <1>2, <2>2, NotDue DEF RenewInv
    <3>3. DueBefore \in Int /\ period * (MaxFailures + 1) <= DueBefore
      BY DueBeforeBound DEF RenewInv
    <3>4. age' + period' * (MaxFailures - failures') <= lifetime'
      BY SMTT(30), <1>1, <3>1, <3>2, <3>3, Products DEF config
    <3>5. RenewTypeOK'
      BY <1>1, <3>1 DEF RenewInv, RenewTypeOK, config
    <3>6. (willing < period)' /\ (period * (MaxFailures + 1) <= DueBefore)'
      BY <3>1 DEF RenewInv, config, DueBefore, Divisor, RoundedDays
    <3> QED BY <3>4, <3>5, <3>6 DEF RenewInv
  <2> QED BY <2>1, <2>2
<1>4. CASE RenewByAri
  <2>1. PICK rt \in 0 .. lifetime :
          /\ ShouldRenewAt(age, rt) # NoTime
          /\ Renewed(ShouldRenewAt(age, rt)) \/ Failed
    BY <1>4 DEF RenewByAri
  <2>2. UNCHANGED config
    BY <1>4 DEF RenewByAri
  <2>3. willing < period
    BY DEF RenewInv
  <2>4. /\ ShouldRenewAt(age, rt) \in Nat
        /\ age <= ShouldRenewAt(age, rt)
        /\ ShouldRenewAt(age, rt) <= age + period
    BY <1>1, <2>1, <2>3 DEF ShouldRenewAt, NoTime
  <2> QED BY <2>1, <2>2, <2>4, RenewedStep, FailedStep
<1>5. CASE RenewForced
  BY <1>1, <1>5, RenewedStep, FailedStep DEF RenewForced
<1>6. CASE UNCHANGED renewVars
  BY <1>6 DEF RenewInv, RenewTypeOK, renewVars, DueBefore, Divisor, RoundedDays
<1> QED BY <1>3, <1>4, <1>5, <1>6 DEF RenewNext

\* The initial configurations satisfy RenewInv.
LEMMA RenewInitial == RenewInit => RenewInv
<1> SUFFICES ASSUME RenewInit PROVE RenewInv
  OBVIOUS
<1>1. RenewTypeOK
  BY SMTT(30), RenewalAssumption DEF RenewInit, RenewTypeOK
<1>2. period \in Nat \ {0} /\ lifetime \in Nat /\ MaxFailures \in Nat
  BY <1>1, RenewalAssumption DEF RenewTypeOK
<1>3. DueBefore \in Int /\ DueBefore <= lifetime
  BY <1>1, DueBeforeBound
<1>4. period * (MaxFailures + 1) <= DueBefore /\ age = period /\ failures = 0
  BY DEF RenewInit
<1>5. age + period * (MaxFailures - failures) <= lifetime
  BY SMTT(30), <1>2, <1>3, <1>4, Products
<1>6. willing < period
  BY <1>2 DEF RenewInit
<1> QED BY <1>1, <1>4, <1>5, <1>6 DEF RenewInv

\* Renewal stays within its types: no run sleeps past the next.
THEOREM RenewTypeCorrect == RenewSpec => []RenewTypeOK
<1>1. RenewInv => RenewTypeOK
  BY DEF RenewInv
<1> QED BY <1>1, RenewInitial, RenewInductive, PTL DEF RenewSpec

\* renew never comes too late, for all lifetimes, values of --days, periods
\* and numbers of failing renewals that fit together.
THEOREM RenewedInTime == RenewSpec => []NeverExpired
BY RenewInitial, RenewInductive, RenewInTime, PTL DEF RenewSpec
=============================================================================
