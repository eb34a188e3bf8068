----------------------------- MODULE CertStore -----------------------------
(***************************************************************************)
(* The certificate files of the command line (cmd/certs_storage.go) under  *)
(* the commands run, renew and revoke (cmd/cmd_run.go, cmd_renew.go,       *)
(* cmd_revoke.go), each of which may be killed between any two of its      *)
(* effects.  One command runs at a time.                                   *)
(*                                                                         *)
(* A certificate is its number, and so is a key: the key generated for     *)
(* certificate n is n; a key that the user gives, or the key of a CSR, is  *)
(* new or one of an earlier certificate.  A file holds the number of the   *)
(* certificate (.key: of the key) that was written to it.                  *)
(***************************************************************************)
EXTENDS Naturals, FiniteSets

CONSTANTS
  Domains,     \* the first domains of commands, which name the files
  MaxIssued    \* bound: certificates issued

ASSUME CertStoreAssumption == MaxIssued \in Nat /\ "filename" \notin Domains

Exts == {".crt", ".issuer.crt", ".key", ".pem", ".pfx", ".json"}

\* The order in which SaveResource writes.
Rank == [e \in Exts |->
  CASE e = ".crt" -> 1 [] e = ".issuer.crt" -> 2 [] e = ".key" -> 3
    [] e = ".pem" -> 4 [] e = ".pfx" -> 5 [] OTHER -> 6]

\* The order in which filepath.Glob lists them: alphabetical.
GlobRank == [e \in Exts |->
  CASE e = ".crt" -> 1 [] e = ".issuer.crt" -> 2 [] e = ".json" -> 3
    [] e = ".key" -> 4 [] e = ".pem" -> 5 [] OTHER -> 6]

Custom == "filename"     \* a base name that is no domain, for --filename
None == 0                \* no key, or a file that does not exist
Torn == MaxIssued + 1    \* a file that was truncated and not yet written
Issued == 1 .. MaxIssued
Names == Domains \cup {Custom}

VARIABLES
  files,      \* by base name and extension
  archive,    \* what MoveToArchive moved: pairs of extension and content
  issued,     \* how many certificates were issued
  keyOf,      \* the key of each certificate
  revoked,    \* the certificates revoked at the CA
  pc,
  cmd,        \* the command: its kind, domain and options
  plan,       \* the files that SaveResource has still to write
  todo, cur,  \* the domains that revoke has still to do, and the one it archives
  \* ghosts
  unpaired,   \* base names where a certificate was saved, and not its key
  result      \* the domains of the last revoke, and whether it ended well

vars == <<files, archive, issued, keyOf, revoked, pc, cmd, plan, todo, cur, unpaired, result>>
store == <<files, archive>>
server == <<issued, keyOf, revoked>>
revoking == <<todo, cur, result>>

Idle == [kind |-> "none", domain |-> Custom, base |-> Custom, reuse |-> FALSE, key |-> None,
         fatal |-> FALSE, keep |-> FALSE]
NoResult == [domains |-> {}, ok |-> FALSE]

Init ==
  /\ files = [n \in Names |-> [e \in Exts |-> None]]
  /\ archive = {}
  /\ issued = 0 /\ keyOf = [c \in Issued |-> None] /\ revoked = {}
  /\ pc = "idle" /\ cmd = Idle /\ plan = {}
  /\ todo = {} /\ cur = Custom
  /\ unpaired = {} /\ result = NoResult

Intact(content) == content \in Issued

\* The command ends, and forgets what it was.
End == pc' = "idle" /\ cmd' = Idle

-----------------------------------------------------------------------------
(* Obtaining a certificate, and SaveResource *)

\* WriteFile names its files after --filename, if given, else after the domain.
Base == cmd.base

\* SaveResource ends the command early: without a private key there is no .pem
\* or .pfx file, and a .pfx file needs the certificate of the issuer.
Fatal(key, issuer, pem, pfx) == IF key = None THEN pem \/ pfx ELSE pfx /\ ~issuer

WritesKeyOnce(key) == key # None /\ issued = 0

WritesKey(key) == key # None

\* A new certificate with key k, to be saved with the private key given, if any.
Obtain(k, key, issuer, pem, pfx) ==
  /\ issued' = issued + 1
  /\ keyOf' = [keyOf EXCEPT ![issued + 1] = k]
  /\ pc' = "save"
  /\ plan' = {e \in Exts : CASE e = ".crt" -> TRUE
                             [] e = ".issuer.crt" -> issuer
                             [] e = ".key" -> WritesKey(key)
                             [] e = ".pem" -> key # None /\ pem
                             [] e = ".pfx" -> key # None /\ pfx /\ issuer
                             [] OTHER -> ~Fatal(key, issuer, pem, pfx)}
  /\ result' = NoResult
  /\ UNCHANGED <<store, revoked, todo, cur, unpaired>>

\* obtainCertificate: the key is generated or given with --private-key.  With a
\* CSR the certificate has its key, and a key given beside it is not compared.
Run(d) ==
  /\ pc = "idle" /\ issued < MaxIssued
  /\ \E base \in Names, k \in 1 .. issued + 1, csr, issuer, pem, pfx \in BOOLEAN :
       \E key \in IF csr THEN {None} \cup 1 .. issued + 1 ELSE {k} :
         /\ Obtain(k, key, issuer, pem, pfx)
         /\ cmd' = [kind |-> "run", domain |-> d, base |-> base, reuse |-> FALSE, key |-> key,
                    fatal |-> Fatal(key, issuer, pem, pfx), keep |-> FALSE]

KeyToUseNew(d, reuse) == issued + 1

\* --reuse-key: the key in the file rather than a new one.
KeyToUse(d, reuse) == IF reuse THEN files[d][".key"] ELSE issued + 1

\* renew reads the certificate, and with --reuse-key the key, by the domain; it
\* gives no key beside a CSR.
Renew(d) ==
  /\ pc = "idle" /\ issued < MaxIssued
  /\ Intact(files[d][".crt"])
  /\ \E base \in Names, csr, reuse, issuer, pem, pfx \in BOOLEAN :
       \E k \in IF csr THEN 1 .. issued + 1 ELSE {KeyToUse(d, reuse)} :
         LET key == IF csr THEN None ELSE k IN
         /\ csr => ~reuse
         /\ reuse => Intact(files[d][".key"])
         /\ Obtain(k, key, issuer, pem, pfx)
         /\ cmd' = [kind |-> "renew", domain |-> d, base |-> base, reuse |-> reuse, key |-> key,
                    fatal |-> Fatal(key, issuer, pem, pfx), keep |-> FALSE]

NextFile(e) == e \in plan /\ \A f \in plan : Rank[e] <= Rank[f]

\* os.WriteFile truncates the file, then writes it.
Truncate ==
  /\ pc = "save"
  /\ \E e \in Exts :
       /\ NextFile(e)
       /\ files' = [files EXCEPT ![Base][e] = Torn]
       /\ unpaired' = IF e = ".crt" THEN unpaired \cup {Base} ELSE unpaired
  /\ pc' = "write"
  /\ UNCHANGED <<archive, server, cmd, plan, revoking>>

Content(e) == IF e = ".key" THEN cmd.key ELSE issued

\* Certificate and key are written, and the key is the certificate's.
Paired == plan' \cap {".crt", ".key"} = {} /\ cmd.key = keyOf[issued]

Write ==
  /\ pc = "write"
  /\ \E e \in Exts :
       /\ NextFile(e)
       /\ files' = [files EXCEPT ![Base][e] = Content(e)]
       /\ plan' = plan \ {e}
  /\ IF plan' = {} /\ cmd.fatal THEN End
     ELSE pc' = (IF plan' = {} THEN "hook" ELSE "save") /\ UNCHANGED cmd
  /\ unpaired' = IF Paired THEN unpaired \ {Base} ELSE unpaired
  /\ UNCHANGED <<archive, server, revoking>>

\* launchHook, after which the command is done.
Hook ==
  /\ pc = "hook"
  /\ End
  /\ UNCHANGED <<store, server, plan, revoking, unpaired>>

-----------------------------------------------------------------------------
(* revoke *)

Revoke ==
  /\ pc = "idle"
  /\ \E ds \in SUBSET Domains \ {{}}, keep \in BOOLEAN :
       /\ todo' = ds
       /\ cmd' = [Idle EXCEPT !.kind = "revoke", !.keep = keep]
       /\ result' = [domains |-> ds, ok |-> FALSE]
  /\ pc' = "revoke"
  /\ UNCHANGED <<store, server, plan, cur, unpaired>>

\* The certificate is read and revoked.  --keep ends the command here.
RevokeFirst(d) ==
  /\ pc = "revoke" /\ d \in todo
  /\ Intact(files[d][".crt"]) /\ files[d][".crt"] \notin revoked
  /\ revoked' = revoked \cup {files[d][".crt"]}
  /\ todo' = todo \ {d}
  /\ IF cmd.keep
     THEN End /\ result' = [result EXCEPT !.ok = TRUE] /\ UNCHANGED cur
     ELSE pc' = "archive" /\ cur' = d /\ UNCHANGED <<cmd, result>>
  /\ UNCHANGED <<store, issued, keyOf, plan, unpaired>>

RevokeFailsUnnoticed(d) ==
  /\ pc = "revoke" /\ d \in todo
  /\ pc' = "archive" /\ cur' = d /\ todo' = todo \ {d}
  /\ UNCHANGED <<store, server, cmd, plan, unpaired, result>>

\* The file cannot be read, the CA refuses, or its answer is lost.
RevokeFails(d) ==
  /\ pc = "revoke" /\ d \in todo
  /\ \/ Intact(files[d][".crt"]) /\ revoked' = revoked \cup {files[d][".crt"]}
     \/ UNCHANGED revoked
  /\ End /\ todo' = {}
  /\ UNCHANGED <<store, issued, keyOf, plan, cur, unpaired, result>>

\* MoveToArchive renames the files of the domain one by one.
Matches == {e \in Exts : files[cur][e] # None}

Archive ==
  /\ pc = "archive"
  /\ \E e \in Matches :
       /\ \A f \in Matches : GlobRank[e] <= GlobRank[f]
       /\ archive' = archive \cup {<<e, files[cur][e]>>}
       /\ files' = [files EXCEPT ![cur][e] = None]
  /\ UNCHANGED <<server, pc, cmd, plan, revoking, unpaired>>

ArchiveEnd ==
  /\ pc = "archive" /\ Matches = {}
  /\ cur' = Custom
  /\ IF todo = {} THEN End ELSE pc' = "revoke" /\ UNCHANGED cmd
  /\ result' = [result EXCEPT !.ok = (todo = {})]
  /\ UNCHANGED <<store, server, plan, todo, unpaired>>

\* The process is killed, or ends by log.Fatal because a file operation failed.
Crash ==
  /\ pc # "idle"
  /\ End /\ plan' = {} /\ todo' = {} /\ cur' = Custom
  /\ UNCHANGED <<store, server, unpaired, result>>

Next ==
  \/ \E d \in Domains : Run(d) \/ Renew(d) \/ RevokeFirst(d) \/ RevokeFails(d)
  \/ Truncate \/ Write \/ Hook \/ Revoke \/ Archive \/ ArchiveEnd \/ Crash

Spec == Init /\ [][Next]_vars

-----------------------------------------------------------------------------
(* Properties *)

Contents == Issued \cup {None, Torn}
Commands ==
  [kind : {"none", "run", "renew", "revoke"}, domain : Names, base : Names, reuse : BOOLEAN,
   key : Issued \cup {None}, fatal : BOOLEAN, keep : BOOLEAN]
Results == [domains : SUBSET Domains, ok : BOOLEAN]

\* Type correctness.
TypeOK ==
  /\ files \in [Names -> [Exts -> Contents]]
  /\ archive \subseteq Exts \X Contents
  /\ issued \in 0 .. MaxIssued
  /\ keyOf \in [Issued -> Issued \cup {None}]
  /\ revoked \subseteq 1 .. issued
  /\ pc \in {"idle", "save", "write", "hook", "revoke", "archive"}
  /\ cmd \in Commands
  /\ plan \subseteq Exts
  /\ todo \subseteq Domains /\ cur \in Names
  /\ unpaired \subseteq Names
  /\ result \in Results

\* The certificate and the key in the files, when both are whole, belong together.
Match(n) ==
  Intact(files[n][".crt"]) /\ Intact(files[n][".key"]) => keyOf[files[n][".crt"]] = files[n][".key"]

\* The certificate and key files of a base name belong together whatever was
\* saved there, and wherever commands were killed, except from the moment a
\* certificate is replaced until its key has followed: a kill in between, a
\* CSR without key, and a CSR beside which another key was given leave a pair
\* that does not match, and the next save with its own key repairs it.
SavedPairMatches == \A n \in Names \ unpaired : Match(n)

\* renew --reuse-key never separates a certificate from its key, even when it
\* is killed between the files: SaveResource writes the same key again.  Only
\* files that --filename names in place of the domain's may be separated.
ReuseKeepsPair ==
  [][\A n \in Names : cmd.reuse /\ Match(n) /\ ~Match(n)' => n = cmd.base /\ n # cmd.domain]_vars

\* What is archived as a certificate was revoked before, whatever crashed.
ArchivedIsRevoked == \A p \in archive : p[1] = ".crt" => p[2] \in revoked

\* When revoke ends well, the certificates of all its domains are revoked.
RevokesAll ==
  pc = "idle" /\ result.ok =>
    \A d \in result.domains : Intact(files[d][".crt"]) => files[d][".crt"] \in revoked
=============================================================================
