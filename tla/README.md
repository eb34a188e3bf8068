# A verification of lego, an ACME client

TLA+ modules of the parts of lego that hold state or run concurrently, TLC
configurations that check them on small instances, and TLAPS proofs of what
matters most for every instance. Paths are relative to the repository.

## The system

| Part | Code | Modules |
|---|---|---|
| Request layer: signing, nonce pool, retries, resending transport | `acme/api/api.go`, `acme/api/internal/{nonces,secure,sender}`, `checkRetry` in `cmd/setup.go` | `SignedPost` |
| Challenge resolver: choice of a solver, parallel and sequential solving, validation | `challenge/resolver`, `challenge/dns01/dns_challenge.go`, `Solve` of http01 and tlsalpn01 | `Prober`, implements `Solving` |
| dns-01: CNAMEs, propagation check, zone lookup and its cache, resolvers | `challenge/dns01/{dns_challenge,precheck,nameserver,cname,domain,fqdn}.go` | `Propagation` |
| DNS providers: `Present`, `CleanUp` and the clients of the DNS services | `providers/dns`, `providers/dns/internal` | `DnsProvidersA` .. `DnsProvidersG` in the vocabulary of `DnsPrograms`, collected in `DnsProviders`, run by `DnsProvider` |
| Issuance: order, parallel authorizations, finalize, poll, deactivate | `certificate/certificates.go`, `certificate/authorization.go`, `acme/api/{order,authorization,identifier}.go`, `platform/wait` | `Certifier` |
| Challenge servers | `challenge/http01/http_challenge_server.go`, `challenge/tlsalpn01/tls_alpn_challenge_server.go` | `ChallengeServer` |
| Certificate files; `run`, `renew`, `revoke`, hooks | `cmd/certs_storage.go`, `cmd/cmd_{run,renew,revoke}.go`, `cmd/hook.go` | `CertStore` |
| Account and key files, registration | `cmd/accounts_storage.go`, `registration`, `cmd/setup.go` | `AccountStore` |
| The decision to renew | `cmd/cmd_renew.go`, `certificate/renewal.go` | `Renewal` |

A command of the command line loads its account (`AccountStore`), decides
(`Renewal`), calls `Certifier.Obtain` (`Certifier`), which hands the
authorizations to `Prober.Solve` (`Prober`), which presents through a provider,
for instance `ChallengeServer` or one of `DnsProviders*`, and for dns-01 waits
until the record is served (`Propagation`); every request to the CA goes through
`SignedPost`; the certificate is saved by `CertStore`.

The CA is in all modules a nondeterministic environment: it answers, refuses,
or its answer is lost. Where a module uses the result of another one, it is
one step that does what the other module's properties promise: `Solve` in
`Certifier` is what `Solving` promises, a post in `Prober` and `Certifier`
either reached the CA or not and was answered or not, as in `SignedPost`, the
wait for the propagation in `Prober` succeeds or times out, as in `Propagation`.

## The modules

**SignedPost.** `Posts` are calls of `retrievablePost`, running concurrently
over one stack of nonces. `NonceFromPool`, `PoolEmpty`, `GetNonce` are
`Manager.Nonce`; the lock is released between the empty `Pop` and the HEAD
request. `ReceiveAnswer` and `TransportError` are what `signedPost` and the backoff
make of an answer; with `Cli` the transport of `cmd/setup.go` resends the same
body. A request stays in `net` after its call has given up on it, so a late
request may still be carried out. `effects`, `resends` and `used` are history.

**Prober.** One run of `Prober.Solve` over a set of authorizations, for every
combination of solvers, offered challenges, sequential provider and initial
statuses. `records` is what is published, `stuck` and `half` where `CleanUp` or
`Present` failed. Polling that finds nothing new is a stuttering step. A
`Retry-After: 0` header gives a backoff without a limit on the elapsed time:
`limited`. The sleep between two iterations of `sequentialSolve` is a step without
effect; the code skips it after an iteration that failed.

**Solving.** What `Prober.Solve` promises, without the order in which it works:
a key authorization is published before the CA is asked to check it and not
withdrawn before the check is decided or given up, and `Solve` returns with
every authorization valid or reported. In `Prober` it is instantiated with
`failed <- failures` and `returned <- (pc = "done")`; records and statuses are
the same.

**Propagation.** The name of the record is computed three times, at `Present`, at
`Solve` and at `CleanUp`, each time by CNAME queries to `R` resolvers; then the
pre-check polls. `Poll` is its first query, `Recursive` the check over the
resolvers, `LookupSoa` and `FetchSoa` the walk up the labels to the zone with the
cache `fqdnSoaCache`, `LookupNs` and `AskServer` the check over the name servers
of the zone. `DnsQuery` returns the first answer with records, else what became of
the last resolver, as in the code. `mode` has every setting of the options
(`--dns.propagation-*`). The zones are transferred to their servers one by one
(`Transfer`), the delegation or the CNAME changes (`Move`), an answer fails (at
most `MaxFaults`), a cache entry expires.

**DnsSteps, DnsPrograms, DnsProviders\*, DnsProvider.** `Present` and `CleanUp` of
a provider are straight-line programs: find the zone, log in, list, create or
write back, remember an identifier, delete. Each provider is written as two
sequences of the steps of `DnsSteps`, in the order of its code and in the words of
`DnsPrograms`, with the conditions on which a step is skipped, whose error is
tolerated, what is remembered under which key;
`client` says of every method how the service refuses (HTTP status, body of a
200, 404) and which of that the code looks at. `DnsProvider` runs one
provider (`provider`, its program in `code`) for `example.com` and
`*.example.com`, whose records are at the same name, in the order of calls of
`parallelSolve` or, for a Sequential provider, `sequentialSolve` (`Schedule`);
meanwhile requests are refused, lost, or their answers are lost, and another
client of the service adds a record of its own (`ForeignWrite`). The services are
external: `Serve` gives each kind of request its effect on the records; which of
several records comes first is the service's choice (`First`: TLC takes one order,
the proofs hold for any). A provider
that offers two APIs or zones is two entries (`hetzner_v1`, `hetzner_legacy`;
`azure_public`, `azure_private`; `joker_dmapi`, `joker_svc`); providers built on
a shared implementation are that implementation. `selfhostde` is modelled with
two records configured per name, as its documentation asks for. The zone of the
name exists in the account and stays there: a walk over the labels (gcore,
vegadns, easydns) ends at it, and what such a walk does when it takes a failed
lookup for a missing zone and goes on to another zone is not expressed; nor is
a zone that is no longer listed, for which `CleanUp` of yandexcloud returns nil.

**DnsDiscipline, DnsCareful.** Rules that can be read off the text of a program,
without running it: `KeepsStanding`, `KeepsLate`, `Publishes`, `KeepsBoth`,
`Clears`. Each goes with a property of `DnsProvider`, and the proofs show
that who keeps to the rule has the property. The assumption of `DnsCareful` says that
in the table of lego the programs that break a rule are exactly the providers
the property names. `MCPropagation` extends it so that TLC evaluates it: the rules
are a matter of the table and not of the behaviour that `providers` explores.

**Certifier.** One run of `Obtain` or `ObtainForCSR`. The goroutines of
`getAuthorizations` send on unbuffered channels (`worker`), the loop counts
what it received, then closes them. `CreateOrder` lets the CA return an order
for other names, with any authorizations or none; the log line that indexes the
identifiers by the position of the authorization panics when there are more
authorizations than identifiers (`panicked`). `Solve` is one step, except where
the CA gives a `Retry-After` of 0 and `validate` polls without a limit
(`unlimited`). The rate limiter is left out: it delays and changes nothing.

**ChallengeServer.** `Solve`, one after the other, with one `ProviderServer`;
the goroutine of `Present` reads `s.listener` when it is scheduled; a request
may be accepted before `CleanUp` and answered after it. A nil listener is a
panic, which ends the process.

**CertStore.** The files by base name and extension, written and archived one
by one, in the order of the code; a file is truncated before it is written;
`Crash` between any two of these. Certificates and keys are numbers. `cmd` has
the options of the command: each `run` and `renew` chooses the base name of what
it writes (`--filename`, or the domain), whether there is a CSR, and for `run`
any private key beside it, which the code does not compare with that of the
CSR. `unpaired` is history: the base names where a certificate was replaced and
its own key has not followed. One command runs at a time (the code takes no lock).

**AccountStore.** Key file and account file, written in the same way;
registration whose answer may be lost, recovery by key.

**Renewal.** A scheduler runs `renew` every `period` hours; `--days`,
`--dynamic`, `--force-cert-domains` or the ARI window decide. Times are whole
hours since the certificate's `notBefore`. The random delay of up to eight
minutes is below that resolution.

`MCx` extends module `x` for TLC; it adds the values of constants and, for
`CertStore`, a symmetry set (its run has no liveness property). `TypeOK` of a
module that is not an invariant of its run is the first conjunct of the
invariant of its proofs, or, in `DnsProvider`, documentation.

## Runs

| Run | Instance | Shows |
|---|---|---|
| `signedpost` | plain client: 2 calls; client of the command line: 1 call, 2 resends; 3 signings each | no nonce signs two bodies; a call is carried out at most once, or over the resending transport at most once more than resent; success means carried out; every call returns |
| `prober` | 2 authorizations | unreported means validated; nothing left behind; one sequential record; `Solve` returns unless `Retry-After` is 0; `Prober` implements `Solving` |
| `propagation` | 2 resolvers, 2 servers (`Servers`) per zone, 4 faults, 1 change of the zones | when the CA is told, every server of the right zone has the value; `CleanUp` reaches the record; a failed check or a wrong cache entry does not last |
| `providers` | all providers, 2 challenges, 2 faults, 2 records of others | see below |
| `certifier` | 3 domains | success has the certificate for the domains; all authorizations reach `Solve`; no send on a closed channel; authorizations released; `Obtain` returns, unless the CA never decides after a `Retry-After` of 0 or lists more authorizations than identifiers |
| `server` | 3 challenges | right answers; address released; `CleanUp` returns |
| `certstore` | 2 domains, 2 certificates | certificate and key of a base name match except between the two writes, or where a key that is not the CSR's was given; `--reuse-key` never separates the pair it renews; archived is revoked |
| `account` | 2 keys, 3 crashes | the key of an account is kept; files name the key's account; repeating `run` recovers |
| `renewal` | lifetimes around 3, 10.5 and 30 days, `--days` -1, 0, 3, 30, periods up to 42 h, 1 failure | never expired |

Runs that are expected to find a violation; each is a place where the code does
not do what the repository says of it:

| Run | The code |
|---|---|
| `certifier_swallowed` | with an order without authorizations the error of `getForOrder` is lost |
| `certifier_dropped` | `sanitizeDomain` drops a domain that IDNA refuses, and `Obtain` succeeds with a certificate for the others |
| `certstore_keep` | `revoke --keep` stops after the first domain |

One more observation needs no run. With `--filename` the files are not where a
hook is told they are, nor where `renew` and `revoke` look; the flag is
deprecated, and no document promises more.

What the passing properties leave out on purpose, because the code does not
guard against it: a file torn by a crash while it was written (`Recovers`; in
`CertStore` only whole files are compared); the files of a certificate whose
revocation was carried out and not archived; a delegation that changed after it
was cached (`ReadyMeansServed`), and a CNAME that changed, or could not be read,
between `Present` and `CleanUp` (`CleanUpReachesRecord`); the listener that stays
open after a failed chmod (`AddressReleased`); the panic of a tls-alpn-01
goroutine that finds no listener (`Finishes`). All of these are behaviours of
the models.

**The providers.** Each property of `DnsProvider` is checked for all providers
at once, except those it names; a provider is named because the property fails
for it. What the exceptions are:

| Property | Fails for |
|---|---|
| `PresentPublishes`: `Present` returns nil only when the value is in the zone | glesys, which does not look at the status in the body |
| `BothStayUp`: the values of `example.com` and `*.example.com` are up together | rcodezero, ultradns (write the set anew, not Sequential), gcloud (takes the set down for a moment), glesys |
| `StandingStays`: a record that was at the name stays | `TakesOver`: 49 providers that write the set of the name anew or delete all of it |
| `LateStays`: so does one that is added while the command runs | these, and `ReadModifyWrite`: 19 that write back a list they read |
| `CleanUpOkMeansGone`: `CleanUp` returns nil only when the value is gone, also after a lost answer | acmedns, dyndnsfree, manual, myaddr (leave it by design); cloudflare, stackpath (log a failed delete); bluecat, bunny, clouddns, ibmcloud, vegadns (take the first record of the name); dyn, easydns, gandi, gandiv5, glesys, loopia (return nil for what they do not remember) |
| `CleanUpWorks`: without faults both `CleanUp`s succeed, and none panics | nicmanager (always an error), rackspace (several records at the name), and 14 for which the first `CleanUp` deletes the set and the second is refused |

manageengine reads through a nil pointer when `CleanUp` finds no record set. In a
run without faults its set is never gone before the last `CleanUp`; with a
refused or lost request it may be, and the model has that panic.

Most of these are choices of the service's API rather than mistakes; the lists
are what a user of a zone shared with other programs needs to know.

**Bounds.** Two calls race for the pool in every way a pair can, and the nonce
pool is touched by one call at a time; over the resending transport one call
(`MaxCliCalls`) meets its own late copies, and the proofs cover any number of
calls; two authorizations show parallel and
sequential, failed and solved side by side; three domains give two late
goroutines after a failed one; three challenges let a goroutine outlive one
challenge and meet a failed and a successful `Present`. Two certificates suffice
for an old and a new file, and for a key that is neither, three crashes for a crash in the recovery of a
recovery. `RetryMax` is 5 in the code; 2 already gives first, middle and last resend.
The lifetimes are chosen on both sides of each rounding. Two resolvers make the
last one differ from the first; four faults let both resolvers fail at two
queries, or one at each query of a walk. Two challenges are the most an
order has at one name; two faults let `Present` and `CleanUp`, or both
challenges, fail.

**Fairness.** Weak fairness of the steps of a goroutine: Go schedules every
goroutine that can run, and every wait in the code has a timeout. Nothing is
assumed of the CA, and no failure is assumed to happen. `propagation` assumes
besides that servers transfer their zone and that cache entries expire. In
`account` the user repeats `run`, and a CA that is asked again and again answers
at some time (strong fairness).

**Deadlock** is not checked in the runs of calls that end (`SignedPost`,
`Prober`, `Certifier`) and where the bound on issued certificates ends the
behaviour (`CertStore`).

## Proofs

Every proof has an inductive invariant (`IInv`, or named after its part), a lemma
that each action preserves it, and the theorem that it always holds; the
properties follow from it.

`ObtainProofs`, issuance and the requests below it. It extends `SignedPost` and
`Certifier`, so `SignedPost` has names of its own for `Init`, `Next`, `Spec`,
`vars`, `pc` and `TypeOK`.

For any finite set of calls, any `RetryMax` and `MaxSigned`:

- `PostTypeCorrect`: the type invariant.
- `SignaturesFresh`: `FreshSignature` says nothing of where nonces are;
  `NonceInv` does: those in the pool and in unhandled answers are pairwise
  different and unused. Hence a popped nonce is new.
- `EffectsAreBounded`, `CarriedOutAtMostOnce`: `CountInv` counts, for each call,
  the effects plus the copies of redeemable bodies in the network against the
  one signing and the resends that have put them there. A call signs again only
  after `badNonce`, when the copy that it waited for is used up.
- `SuccessIsExecuted`: an `ok` answer in an inbox comes from `Execute`.

For any finite set of domains:

- `AllSolved`, `ChannelsSafe`: `CountOK` says that `received` is the number of
  goroutines that have ended. A subset of the authorizations as large as all of
  them is all of them (`Counting`), so when the loop ends nobody is left to send.
- `SuccessIsCertificate`: `OrderOK` (the order is for the sanitized domains, a
  valid order has the certificate) and `ResultOK`.
- `AllReleased`: `ReleaseOK`, what the loop of `deactivateAuthorizations` has
  passed is released, and stays so while the CA ends its checks.

`ProberProofs`, for any set of authorizations (`None` is not one of them):

- `Reported`, `CleanedUp`, `OneAtATime`: the properties speak of the return;
  the invariant says for each phase of `Solve` who the current authorization is
  (`CurOK`), what is still to do (`TodoOK`), that nothing still to do has failed
  (`FailuresOK`), that the rest is decided (`DecidedOK`), and that what is
  published is still to be withdrawn or is left for good.
- `Refinement`: `Prober` implements `Solving`. `StepImplements` maps every
  action to a step of `Solving` or a stutter; that a record is not withdrawn
  while it may be checked needs `DecidedOK`, that a check begins with the record
  published needs `PublishedOK`.
- `Promised`, about `Solving` itself: what is being checked is published, and at
  the return every authorization is valid or reported.

`CommandProofs`, what the commands keep on disk and when they renew. It
extends the three modules `CertStore`, `AccountStore` and `Renewal`, which is why
the last two have names of their own for `Init`, `Next`, `Spec`, `vars` and
`TypeOK`.

For any domains and any number of certificates (the name that `--filename` gives
and no domain has is not one of them):

- `PairsMatch`, `OnlyRevokedArchived`: `SaveOK` says what a save has written so
  far, and that its base name is unpaired from the moment the certificate is
  truncated until its own key is written; `OldFiles`, that no file holds a
  certificate that is not issued yet.
- `ReuseSafe`, an action property: in a save with `--reuse-key` under the domain's
  own name the key file holds the new certificate's key, or is being written, at
  every moment.

For any number of keys and crashes: `KeyKept` and `OwnAccount`; `MemoryOK` relates
what a command has in memory to the files.

For any set of lifetimes, `--days` values, periods and any `MaxFailures`:

- `RenewedInTime`: `NeverExpired` is not inductive. `RenewInv` adds that the
  certificate outlives the failures still possible,
  `age + period * (MaxFailures - failures) <= lifetime`. `NotDue` shows for both
  ways of rounding that a certificate left alone is at least `DueBefore` from
  its end. It rests on two assumptions in `RenewInit`: the period times one more than
  the failures in a row fits into `DueBefore`, and `--ari-wait-to-renew-duration`
  is less than the period.
- `RenewTypeCorrect`: in particular no run sleeps past the next.

`ChallengeProofs`, about `ChallengeServer` and `Propagation`. For any number of
challenges: `AnsweredRight` and `AddressFree`; `GoroutinesOK` says that an http-01
goroutine has ended before the next challenge is presented and serves the listener
of its own.

For any number of resolvers and faults and any finite set of name servers per zone:

- `Propagated`: `ReadyMeansServed` speaks of the moment when the CA is told. The
  invariant says what each phase of the check has established: `Aliased`, that
  the name in use is the one the CNAME leads to or a query has failed; `Heard`,
  that a resolver with the value has it from a server of the zone; `Checked`,
  that every server that was asked has the value; and `Held`, that only servers
  of the right zone have it. Hence a stale cache entry, which names another
  zone, makes the check fail and never lets it pass.
- `Withdrawn`: `CleanUp` works where `Present` published, unless the operator has
  moved the name or a CNAME query has failed.

`DnsProviderProofs`, `DnsPresentProofs`, `DnsRecordProofs` and `DnsCleanUpProofs`,
for every table of programs, of any length, and any number of refused or lost
requests:

- `StandingRecord`, `LateRecord`: the rule is read at a place in the program, the
  property is about the zone. `InHand` ties the two together: at the present step
  the list the code holds is what the text says it is (all records of the name,
  only its own, those of the last read). `OwnIds` says that no identifier of
  somebody else's record gets into the hands of a provider that looks only at
  its own. Every action is one of five moves (`Moves`): the program goes
  on, stays in a loop or a retry, the call returns, another program writes,
  nothing happens; each move preserves the invariant.
- `PresentAnnounced`, an action property: `Placed` says that what the text of the
  program has written and put into service by the present step is there, as
  long as no later step may take it out.
- `BothValues`: while the second `Present` runs, the record of the first is in
  service, in the copy that is edited and in the list that will be written back
  (`Kept`); for acme-dns, which keeps two values, it is the newest until the
  second one is rolled in (`NewestRolled`). `Scheduled` says which calls have
  been made.
- `CleanedUp`: `CleanUpOkMeansGone` speaks of the return of `CleanUp`, which
  depends on what `Present` did, perhaps without learning of it. `RInvariance` is
  about the records: each has an identifier of its own, a challenge has at most
  one record (`Single`), none before its `Present` has come to the step that
  writes it (`NotYet`, `Fresh`), and an identifier that is remembered for it is that
  record's (`Remembered`, `Labelled`), or nothing is remembered and `CleanUp`
  fails. `CInvariance` follows `CleanUp` through its program: `Swept` says that
  the records in hand cover those of the challenge where the text says so, and
  that the value is out of the zone once a step has removed by value, by the
  remembered identifier or all that such a list shows. With a service that works
  on a copy, what is in service is in the copy until then (`DraftHas`), so a
  list of the copy misses nothing. `Gone` is the property, and that nothing puts
  the value back afterwards.

The hypothesis of each is the rule for all programs but those of the providers the
property names; for lego's own table `DnsCareful` has it evaluated.

Only model-checked:

- all liveness properties: fairness is out of the provers' reach;
- `CleanUpWorks`: it is about behaviours without faults and without another
  writer, of which the table has finitely many, and TLC visits all of them.

## Not modelled

- HTTP providers (`providers/http`: webroot, memcached, s3): each writes one
  object and removes it; `Prober` has them as any provider.
- Constructors and credentials of the DNS providers (configuration from the
  environment, `azuredns` credentials and OIDC, the TSIG key file of `rfc2136`),
  except where a constructor makes requests; the generated list of
  providers; the logging and error helpers their clients share.
- The matching of the Host and Forwarded headers
  (`challenge/http01/domain_matcher.go`): a function of one request. Its parser
  (`skipWS`) relies on a character after every separator.
- Two commands at the same time: lego takes no lock on its files.
- `QueryRegistration`, `UpdateRegistration`, `DeleteRegistration`,
  `RenewWithOptions`, `Get` and `GetOCSP` of the library: single requests, or
  `Obtain` again; the commands do not use them.
- `certcrypto`: keys, CSRs and PEM are conversions of the standard library.
- `list`, `dnshelp`, flags, client assembly, logging, generators, documentation
  and test support: no state, or not the client.
