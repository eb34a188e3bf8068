---------------------------- MODULE AccountStore ----------------------------
(***************************************************************************)
(* The account of the command line: its key file and its account file      *)
(* (cmd/accounts_storage.go, setupAccount in cmd/setup.go), registration   *)
(* by run (cmd/cmd_run.go, registration/registar.go, acme/api/account.go), *)
(* and the recovery by key, for commands that may be killed at any step    *)
(* and run again.                                                          *)
(***************************************************************************)
EXTENDS Naturals, FiniteSets

CONSTANTS
  MaxKeys,      \* bound: account keys generated
  MaxCrashes    \* bound: commands killed

ASSUME AccountStoreAssumption == MaxKeys \in Nat /\ MaxCrashes \in Nat

Absent == 0              \* no file, no account
TornFile == MaxKeys + 1  \* a file that was truncated and not yet written
Keys == 1 .. MaxKeys

\* An account file without a usable registration: Body.Status is empty.
Unregistered == MaxKeys + 2

VARIABLES
  keyFile,       \* Absent, TornFile, or the key
  accountFile,   \* Absent, TornFile, Unregistered, or the account
  accounts,      \* the accounts at the CA, one per key, named after it
  step,          \* what the command does next; idle between two commands
  kind,          \* the command: run, or one that needs a registration
  key,           \* account.key
  registration,  \* account.Registration: Absent, Unregistered, or an account
  generated, crashes

accountVars == <<keyFile, accountFile, accounts, step, kind, key, registration, generated, crashes>>
disk == <<keyFile, accountFile>>
memory == <<kind, key, registration>>

AccountInit ==
  /\ keyFile = Absent /\ accountFile = Absent /\ accounts = {}
  /\ step = "idle" /\ kind = "run" /\ key = Absent /\ registration = Absent
  /\ generated = 0 /\ crashes = 0

\* log.Fatal, or the return of the command.
Exit == step' = "idle"

Command ==
  /\ step = "idle"
  /\ kind' \in {"run", "other"} /\ key' = Absent /\ registration' = Absent
  /\ step' = "getKey"
  /\ UNCHANGED <<disk, accounts, generated, crashes>>

-----------------------------------------------------------------------------
(* GetPrivateKey and setupAccount *)

\* generatePrivateKey creates the file, then encodes the key into it.
CreateKeyFile ==
  /\ step = "getKey" /\ keyFile = Absent /\ generated < MaxKeys
  /\ generated' = generated + 1 /\ key' = generated + 1
  /\ keyFile' = TornFile /\ step' = "writeKey"
  /\ UNCHANGED <<accountFile, accounts, kind, registration, crashes>>

WriteKeyUnflushed ==
  /\ step = "writeKey"
  /\ step' = "loadAccount"
  /\ UNCHANGED <<disk, accounts, memory, generated, crashes>>

WriteKey ==
  /\ step = "writeKey"
  /\ keyFile' = key
  /\ step' = "loadAccount"
  /\ UNCHANGED <<accountFile, accounts, memory, generated, crashes>>

\* A key file that cannot be parsed is fatal.
LoadKey ==
  /\ step = "getKey" /\ keyFile # Absent
  /\ IF keyFile = TornFile THEN Exit /\ UNCHANGED key
     ELSE key' = keyFile /\ step' = "loadAccount"
  /\ UNCHANGED <<disk, accounts, kind, registration, generated, crashes>>

LoadAccountStrict ==
  /\ step = "loadAccount"
  /\ IF accountFile \in {TornFile, Unregistered} THEN Exit /\ UNCHANGED registration
     ELSE registration' = accountFile /\ step' = "start"
  /\ UNCHANGED <<disk, accounts, kind, key, generated, crashes>>

\* setupAccount and LoadAccount; so is an account file that cannot be parsed.
LoadAccount ==
  /\ step = "loadAccount"
  /\ CASE accountFile = Absent -> step' = "start" /\ UNCHANGED registration
       [] accountFile = TornFile -> Exit /\ UNCHANGED registration
       [] accountFile = Unregistered -> step' = "recover" /\ UNCHANGED registration
       [] OTHER -> registration' = accountFile /\ step' = "start"
  /\ UNCHANGED <<disk, accounts, kind, key, generated, crashes>>

\* tryRecoverRegistration: newAccount with onlyReturnExisting.
Recover ==
  /\ step = "recover"
  /\ \/ key \in accounts /\ registration' = key /\ step' = "truncate"
     \/ Exit /\ UNCHANGED registration
  /\ UNCHANGED <<disk, accounts, kind, key, generated, crashes>>

-----------------------------------------------------------------------------
(* run registers, the other commands refuse *)

\* Commands without registration end, except run.
Start ==
  /\ step = "start"
  /\ step' = IF registration # Absent THEN "ready" ELSE IF kind = "run" THEN "register" ELSE "idle"
  /\ UNCHANGED <<disk, accounts, memory, generated, crashes>>

RegisterIgnoresError ==
  /\ step = "register"
  /\ accounts' \in {accounts, accounts \cup {key}}
  /\ registration' = key /\ step' = "truncate"
  /\ UNCHANGED <<disk, kind, key, generated, crashes>>

\* Register: the CA creates the account of the key or returns the one it has.
\* A conflict is not an error, but leaves the registration empty.  The answer
\* may be lost, and the user or the CA may refuse.
Register ==
  /\ step = "register"
  /\ \/ /\ accounts' = accounts \cup {key}
        /\ \/ registration' = key /\ step' = "truncate"
           \/ Exit /\ UNCHANGED registration
     \/ /\ key \in accounts
        /\ registration' = Unregistered /\ step' = "truncate"
        /\ UNCHANGED accounts
     \/ Exit /\ UNCHANGED <<accounts, registration>>
  /\ UNCHANGED <<disk, kind, key, generated, crashes>>

\* AccountsStorage.Save: os.WriteFile truncates, then writes.
TruncateAccount ==
  /\ step = "truncate"
  /\ accountFile' = TornFile
  /\ step' = "save"
  /\ UNCHANGED <<keyFile, accounts, memory, generated, crashes>>

Save ==
  /\ step = "save"
  /\ accountFile' = registration
  /\ step' = "ready"
  /\ UNCHANGED <<keyFile, accounts, memory, generated, crashes>>

\* The command goes on with orders, and ends.
Work ==
  /\ step = "ready"
  /\ Exit
  /\ UNCHANGED <<disk, accounts, memory, generated, crashes>>

\* The process is killed.
Killed ==
  /\ step # "idle" /\ crashes < MaxCrashes
  /\ Exit
  /\ crashes' = crashes + 1
  /\ UNCHANGED <<disk, accounts, memory, generated>>

Step ==
  \/ Command \/ CreateKeyFile \/ WriteKey \/ LoadKey \/ LoadAccount \/ Recover
  \/ Start \/ Register \/ TruncateAccount \/ Save \/ Work

AccountNext == Step \/ Killed

AccountSpec == AccountInit /\ [][AccountNext]_accountVars

\* run is repeated, and a CA that is asked often enough answers.
FairSpec ==
  /\ AccountSpec /\ WF_accountVars(Step)
  /\ SF_accountVars(Command /\ kind' = "run")
  /\ SF_accountVars(Register /\ registration' = key)
  /\ SF_accountVars(Recover /\ registration' = key)

-----------------------------------------------------------------------------
(* Properties *)

\* Type correctness.
AccountTypeOK ==
  /\ keyFile \in Keys \cup {Absent, TornFile}
  /\ accountFile \in Keys \cup {Absent, TornFile, Unregistered}
  /\ accounts \subseteq Keys
  /\ step \in {"idle", "getKey", "writeKey", "loadAccount", "recover", "start", "register",
               "truncate", "save", "ready"}
  /\ kind \in {"run", "other"}
  /\ key \in Keys \cup {Absent}
  /\ registration \in Keys \cup {Absent, Unregistered}
  /\ generated \in 0 .. MaxKeys
  /\ crashes \in 0 .. MaxCrashes

\* The key of every account at the CA is in the key file: no crash loses the
\* key of a registered account, and a second account is never created.
RegisteredKeyKept == \A k \in accounts : keyFile = k

\* A command works with the account of its own key: what the account file
\* names was registered with the key in the key file.
AccountOfKey ==
  /\ accountFile \in Keys => accountFile = keyFile /\ accountFile \in accounts
  /\ step = "ready" /\ registration # Unregistered => registration = key

\* Running again after crashes ends with a registered account on disk, unless
\* a crash left a file torn: such a file is fatal to every later command.
Recovers == <>[](accountFile \in Keys \/ keyFile = TornFile \/ accountFile = TornFile)
=============================================================================
