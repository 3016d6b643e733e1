# Verification of eth-custodial

eth-custodial holds the keys of many Celo accounts, signs their transactions on
request and sees each one through to its outcome on chain. This directory has
TLA+ models of that work, TLC configurations that check them on small
instances, and TLAPS proofs for every size. Paths are relative to the
repository; `unlocker.go:86` without a directory is in `internal/worker/`.

* [Inventory](#inventory)
* [Modules](#modules)
* [What each run checks](#what-each-run-checks)
* [Bounds](#bounds) and [Fairness](#fairness)
* [What is proved](#what-is-proved)
* [Findings](#findings)
* [Known limitations of the code](#known-limitations-of-the-code)
* [Not modelled](#not-modelled)
* [Plan](#plan)

To check: `tlc -config <run>.cfg <module>` with the pairs of the table below;
`tlapm` on the eight `*Proofs` modules.

## Inventory

One Postgres database, one job queue (River, in the same database), one node
reached over JSON-RPC, one NATS JetStream fed by an external tracker. Any number
of service processes share them.

| component | state | operations | must be correct |
|---|---|---|---|
| HTTP API (`internal/api/*_handler.go`, `jrpc.go`) | none of its own | check the key pair, insert a sign job; `eth_sendTransaction` signs in the handler | accepted requests are carried out |
| Sign workers (`token_transfer.go`, `token_sweep.go`, `pool_swap.go`, `pool_deposit.go`, `account_create.go`, `gas_refill.go`, `token_deploy.go`, `demurrage_token_deploy.go`, `pool_deploy.go`) | one Postgres transaction per run | acquire nonces, sign, insert OTX + dispatch row + DISPATCH job, perhaps a GAS_REFILL job | nonces unique and without gaps; plans whole; nothing signed twice without cause; addresses computed ahead come to exist |
| Store (`internal/store`, `queries.sql`, migrations) | `keystore`, `noncestore`, `otx`, `dispatch`, `master_key` | the queries | the row lock of `acquire-nonce` serialises signers; ids follow nonces |
| DISPATCH (`dispatch.go`, `dispatch_error.go`) | `dispatch.status` | send, classify the answer, record it | a status is never a false outcome |
| Tracker subscriber (`internal/sub`) | durable consumer | record SUCCESS/REVERTED, activate keys, acknowledge | what is mined gets its outcome |
| Health check (`health_check.go`) | none | look receipts up for OTXs left IN_NETWORK | never records what did not happen |
| Unlocker (`unlocker.go`) | a run's list of rows | resend, re-sign at a higher price, look up consumed nonces, recover orphans | stuck accounts get going; the stored hash is the mined one |
| Job queue wiring (`worker.go`) | River tables | attempts, retries, rescue, periodic jobs | jobs end |
| Retrier, generic sign worker, resigner helpers | - | log; unused; used by a test only | - |
| Gas oracle (`internal/gas`) | two shared fields of each process, written and read without a lock | refresh, read, stop | prices follow the node's; a newer cap meets an older tip only between two stores; a re-signed transaction pays more |
| Bootstrap (`internal/store/pg.go`, `key.go`) | `master_key` | create the master key when there is none | one master key, and never none |
| Unlocker command (`cmd/unlocker`) | a run's list of rows | the unlocker by hand, through several endpoints, without its guard and its recovery of orphans | as the unlocker |
| Service (`cmd/service`) | `main` and its goroutines | start, stop | a signalled process exits, and cuts nothing off before its deadline |
| Listing (`otx_handler.go`, `pagination.go`) | cursor of a client | pages by `otx.id` | no OTX is missed; a full page stays as it was |
| Authentication, publisher, ENS client, configuration, docs | - | stateless or external | - |

**How they interact.** An API handler inserts a job and answers with its tracking id. A sign
worker inserts OTXs, their dispatch rows (PENDING) and their DISPATCH jobs, all
in one transaction, so the signing side hands over to the sending side at a
commit. From then on five writers share the dispatch row of an OTX: its
DISPATCH job, the subscriber, the health check, the unlocker and, run by hand,
the unlocker command; the last two also rewrite `raw_tx` and `tx_hash`. Each reads, calls the node
or waits for a message, and writes later; none looks at the status it
overwrites. The subscriber also activates accounts, in the transaction of
the status. All processes share `master_key`; each has a price oracle of its own.

**What is hard.** Sign jobs of one account running at once; rollbacks that must give
nonces back; a commit whose acknowledgement is lost, so that River runs a
committed job again; sequence values, which no rollback gives back, used as a
cursor; late writers; lost, repeated and unmatched tracker events; re-signing
while either version may be mined; a crash between sending and storing; two processes
creating the master key; a shutdown that stops parts one after the other while they
still work. The full
list, each at its line and with the properties that would notice, is
`hazards` in `PROJECT.json`.

## Modules

```
NonceLedger            what signing promises of nonces
   ^ implemented by
Signing  <- SigningProofs <- NonceProofs <- JobProofs
   ^                              ^
Listing  <-----------------  ListingProofs
   ^
MCSigning (values for TLC)

OutcomeLedger          what the dispatch rows promise of outcomes
   ^ implemented by Dispatch, Unlocker and UnlockCommand

Chain  <-  Dispatch  <-  Unlocker  <-  UnlockCommand
              ^              ^              ^
        DispatchProofs <- UnlockerProofs <- CommandProofs

GasOracle <- Service <- MCService (values for TLC)
                ^
           ServiceProofs
```

An arrow reads "is extended by". The three families meet at the database: what `Signing`
commits (an OTX with its row and job) is an initial state of `Dispatch`, and what
`GasOracle` prices is a version in `Chain`.

### Signing, NonceLedger

`Signing` has one action per step of a sign job that others can see: `Start`
(River hands the job out, `Begin`), `AcquireNonce` (`store/nonce.go:23`; the
UPDATE locks the row to the end of the transaction, hence the guard
`~RowLockedByOther`), `InsertOTX` (sign, `InsertOTX`, `InsertDispatchTx`,
DISPATCH job), `Commit`, `Fail` (any error: the deferred rollback), `KeyError`
(the error no retry repairs), `Report` (the outcome reaches River), `Crash`
(process death), `CommitReplyLost` (committed, but `Commit` returned an error) and
`Rescue` (River's rescuer). A worker is a *plan*: the sequence of OTXs it
inserts and which earlier ones' contract addresses each embeds
(`PoolDeployPlan` has ten). All workers share the same shape, so one set of
actions runs every plan; differences that matter are kept: only
`UserKinds` sign with the account's key, `TOKEN_SWEEP` inserts no refill,
`GAS_REFILL` may end without signing (`FaucetDeclines`), `ACCOUNT_CREATE` inserts
a keystore row, `eth_sendTransaction` runs in the handler and is never retried.

| variable | code |
|---|---|
| `jobState`, `attempt`, `args` | River's row of the job |
| `phase` | where the worker is: no worker, transaction open, nonce taken but not yet used, returned nil, returned an error |
| `acquired`, `pend` | the open transaction's uncommitted updates of `noncestore` and `otx` |
| `nextNonce`, `otx`, `keyRows`, `activeRows` | the committed tables (`otx` with its dispatch row and DISPATCH job) |
| `nextID` | the sequence behind `otx.id`, outside every transaction |
| `lost`, `faults` | history: runs that committed unacknowledged; count of faults |

A refill job is named by the request and attempt that inserted it, so the queue
needs no allocation of names. `ActivateKeyPair` is the subscriber's handling of
the registration event, as one step; how that event gets there is in `Dispatch`.

`NonceLedger` is the abstract promise: a signer hands out whole
blocks of consecutive nonces, each bound to one transaction, none is taken back.
`Signing!LedgerSpec` instantiates it with `next <- nextNonce` and the signer and nonce of
committed OTXs as `signed`.

### Listing

`Listing` puts a client that pages through an account's OTXs beside the jobs that commit
more of them. It adds no variable: a page is a function of the committed `otx`, the cursor
and the page length, in the three forms of `queries.sql:117-151` that
`getOTXByAddressHandler` chooses from. What makes it a model is what the
pages are promised across steps of `Signing`.

### Chain, Dispatch, Unlocker, UnlockCommand, OutcomeLedger

`Chain` is the node, external to the repository, for the transactions of one
signer: the version it holds for each nonce, what was mined, and the answers
the code tells apart. `Refusal` are answers that stand as long as the node's
state does (nonce too low, underpriced, too cheap, already known);
`PassingRefusals` are those of the moment and cost a fault. A *version* is how
often an OTX was re-signed; prices themselves are abstracted to it. `Dear` names the nonces whose
first version is below today's fees. Fees do not fall during a behaviour: such a version is refused (`TooCheap`)
and, where the node holds it already, never mined.

`Dispatch` has the DISPATCH job (`SendRawTx`, then `RecordAnswer` or
`AbandonRun`; an unclassified answer counts as success, as `sendRawTx` returns
nil for it), the subscriber (`ReadEvent`, `CommitEvent`, `DropEvent`; an event whose
hash no row holds is acknowledged and forgotten) and the health check
(`GetFailedOTX` with its limit, `ReadFailedOTX`, `CommitReceipts`, a whole or partial batch). `Registrations` are the
nonces whose OTX registers an account; the subscriber activates it (`active`) in the same transaction
as it records the outcome, and acknowledges after the commit. One transaction of the subscriber is open at
a time; several processes may share the durable consumer, but their messages are about different rows.

`Unlocker` extends it with the periodic worker. `run[u].at` is the place in
`unlocker.go` where run `u` stands between two calls that others can get in
between: `load` (network nonce read), `send` (`processOTX`), `resign`, `guard`
(after the re-signed transaction went out), `receipt` (`checkReceipt`), `write`
(a transaction about to commit). `todo` holds the rows as they were read.
`recoverOrphanedNonce` is part of `checkReceipt`'s step: it reads only what is
mined already. An interrupted run (`FailUnlocker`) forgets everything, but for the search for an orphan, which
swallows its errors and goes on. `checkReceipt` reckons with a missing receipt that is nil and, before that, with a
lookup that fails (`unlocker.go:149-154`); whether the client library makes an error of a missing receipt the repository does
not show. `NoReceipt` says which it may be: every run of TLC has both, but for `GuardMisfires` and for
`UnlockerRecovers`, whose `OrphansRecovered` is about the nil (its `OTXsGetMined` was checked with the error,
and with both, on the same instance). The proofs hold of either.

`UnlockCommand` lets some of the runs (`Commands`) be runs of `cmd/unlocker`, with the same
`run[u]`: the same places, other branches. It loads only rows from the network nonce on
(so that `main`'s branch for mined rows, `main.go:156`, is never taken), tries several
endpoints, writes a re-signed transaction as soon as one accepts it, with no look
at the nonce, and goes on after most errors.

`OutcomeLedger` is the abstract promise of all of these, to the client that polls a status and the
account that waits for its registration. Transactions take effect one after the other (`Happen`); a
row shows an outcome there was (`Show`), may be open again (`Reopen`), and never turns from one
outcome to the other; an account becomes active in the very step that shows the success of its
registration. `Dispatch!OutcomeSpec` instantiates it with `outcome <- OnChain` (what was mined
with each nonce), `shown <- Shown` (the status, where it is final) and the same `active`. It is
stated in `Dispatch`, and so of `Unlocker` and `UnlockCommand`, which extend it.

### GasOracle, Service

`GasOracle` has the prices of the node (`now`, an index into `Prices`), the two cached fields
of each process as the refresh they are from, the updater's place between
its call and its two stores, a signer's place between its two loads, and one transaction
that is signed, and signed again by any process with a worker. Prices are
numbers here, with the 120% and 115% of the code and its integer division.

`Service` is `main` of each process: `main`, the goroutine that stops the parts (`closer`),
the subscriber, the River client and one job, the deadline. A process that exited may start
again. Bootstrapping is three steps: look for a key, insert unless a
*committed* one is seen, commit; the commit's error is dropped (`pg.go:91`), and so is
that of River's `Start`. `ExitStopped` has both exit codes: the goroutine that
waited cancels the context before it exits with 0, which wakes `main`, which exits with 1.

Operators commented "Mutant:" are deliberate bugs, used to show that a property
can fail; no specification mentions them.

## What each run checks

| run | module | instance | properties |
|---|---|---|---|
| SigningUsers | MCSigning | one account, two requests of any user kind, their refills signed by the master, 2 attempts, 1 fault, pages of 2 | `TypeOK`, `NoncesUnique`, `NoncesWithoutGap`, `IdsFollowNonces`, `VisibleInIdOrder`, `CompletedJobsAreSigned`, `LedgerSpec`, `PagesAdjoin`, `PagesStable` |
| SigningAccounts | MCSigning | an account created and used, 3 attempts, 2 faults, fair | `ReplayOnlyAfterLostRun`, `SecondKeyOnlyAfterLostRun`, `JobsComplete` |
| SigningDeploys | MCSigning | two deployments of any of the four kinds by the master, 2 faults | `PlansWhole`, `AddressesAreDeployed` |
| DispatchRaces | Dispatch | two OTXs, one a registration, no unlocker, 2 faults | `DispatchTypeOK`, `FinalStatusIsTrue`, `AcknowledgedIsActive`, `ReopenedOnlyInDispatch`, `OutcomeSpec` |
| UnlockerResigns | Unlocker | nonce 0, a registration, too cheap, nonce 1 in the network, two higher prices, one run, 1 fault | `UnlockerTypeOK`, `SettledHashIsMined`, `OutcomeSpec` |
| UnlockerOverlap | UnlockCommand | a run of the worker and one of the command, two higher prices, a creation behind, 1 fault | `FinalStatusIsTrue` |
| UnlockerSettles | Unlocker | no re-signing, one OTX a registration, 2 faults, fair | `MinedAreSettled`, `RegisteredBecomeActive` |
| UnlockerRecovers | Unlocker | nonce 0 in the network and too cheap, nonce 1 through its DISPATCH job, a missing receipt is nil, 2 faults, fair | `OTXsGetMined`, `OrphansRecovered` |
| ServiceLife | MCService | a standalone and a subscriber process on one empty database, two prices, 1 fault, fair | `TypeOK`, `OneMasterKey`, `CleanExit`, `OldTipOnlyInRefresh`, `ResignedPaysMore`, `SignalledExit`, `WorkersFollowPrices` |
| GuardMisfires | Unlocker | one too-cheap OTX, no fault, fair | `GuardRecovers` (violated) |
| NoGasGoesOn | Unlocker | two OTXs, 1 fault | `NoGasStopsSequence` (violated) |
| StalePrices | MCService | one api process, two prices, fair | `SignersFollowPrices` (violated) |

What they show, in words:

* **Signing.** Sign jobs of one key, interleaved at every statement, failing,
  retried and crashed, hand out each nonce once and leave none out; the ids of
  a signer's OTXs are in nonce order and a new OTX never appears below one
  already visible. The last holds *because* the sequence value is drawn while
  the nonce row is locked: without the lock (`NoRowLock`) it fails.
* **Replays.** A request can be carried out twice, and a new account can get a
  second keystore row that makes its key unusable, but only after a commit River
  never heard of. The runs pin the cause down; the code has no idempotency key
  that would prevent it.
* **Plans.** The OTXs of one run are all there or none is, consecutive and in
  order, and every contract address computed ahead belongs to a creation earlier in
  the same run.
* **Listing.** A client that follows the last ids sees every OTX once, and the way back leads
  to the same pages, although OTXs are committed all the time; a full page never changes. Both rest
  on the order of ids above.
* **Outcomes.** No order of the five writers makes the custodial show an
  outcome that did not happen. Without the unlocker a settled status is taken back only by the
  OTX's own DISPATCH job before it ends (`ReopenedOnlyInDispatch`): its first attempt, late, writes
  IN_NETWORK or NETWORK_ERROR; an attempt that sends again after the outcome meets "nonce too low" and
  writes LOW_NONCE. With the unlocker beside them, and without re-signing,
  everything mined is settled for good. A row never says SUCCESS first and REVERTED later, or the
  reverse (`OutcomeLedger`).
* **Activation.** Where nothing is re-signed, the event of a successful registration is acknowledged only
  once its account is active, an active account is registered on chain, and every registered account becomes
  active in the end, whatever fails on the way. A status of SUCCESS alone does not mean that the account
  is active: the health check and the unlocker record outcomes and activate nobody.
* **Getting mined.** Refused, evicted, cancelled and crashed upon, an OTX is mined in the end unless it or a lower nonce
  holds the account up for good (`HoldsUp`): as a creation that became too cheap, as a transaction that
  became too cheap while the node keeps it, or, where the client makes an error of a missing receipt, as an orphan.
* **Re-signing.** With one run at a time and one fault the stored hash of a settled OTX is the
  mined one. With more of either, see [limitations](#known-limitations-of-the-code).
* **Life of a process.** However processes start, fail and start again, there is a master key,
  and two of them only after two inserts were open at once. A process told to stop exits, by the
  deadline at the latest; unless it is killed, its subscriber, its updater and its job have ended if it exits before that,
  whichever exit code wins. Past the deadline exit code 0 still says so of subscriber and updater.
* **Prices.** A failing refresh does not end refreshing. A signer reads a newer cap with an older
  tip only between the updater's two stores (an older cap with a newer tip whenever a refresh falls between its two
  loads), and signing again raises both prices all the same.

Every property has a mutant of the code under which TLC finds it violated
(`mutants` in `PROJECT.json`).

`CHECK_DEADLOCK FALSE` is set everywhere: the instances have finitely many
requests or OTXs, and when all are settled the system does stop.

## Bounds

* `MaxFaults` counts failures, crashes, lost replies, evictions and passing
  refusals together. One or two of them reach every error path in every
  state, including a fault in the handling of another; the invariants that rest
  on more are proved, not only checked. The count is a budget and no part of the code.
* `MaxAttempts` is 2 or 3 in place of River's 25. The branches are "attempts
  left" and "none left"; both occur. In the runs of the unlocker it is 1: what they ask begins where
  the DISPATCH job has given up.
* Two requests and one account: the hazards of signing need two jobs with one key, and
  the refills of both give two more with the master's. Keys of different signers share nothing but
  `nextID`, which the refills exercise.
* `N = 2` OTXs on the sending side: one may block, follow or anchor
  (`recoverOrphanedNonce`) the other. `MaxVersion` is 1 (signed, and signed once
  more) or, where what matters is which of two re-signed versions is stored or mined, 2.
* `MaxFailed`, the limit of the health check's query, is 1 or 2 in place of 100. With 1
  (`UnlockerSettles`) an OTX that was refused or reverted hides the next from the health check; the unlocker settles both.
* `MaxPerPage` is 2 in place of 100: with up to four OTXs of the account there are full pages, last pages and a next page.
* `ServiceLife` has two processes, the least that race for the key, one with all parts and
  one without workers; an api process is in `StalePrices`. Two prices are one move of the node's; the gas price stays while the tip
  rises, which is where a forgotten store would show. `MaxResigns = 1`: one comparison
  of an old and a new transaction. One job at a time stands for any number: what is asked is whether one is left.
* `Mine` lets `near` (mined within five blocks of the previous) vary only where an OTX
  may have two versions, as only then does anything read it.
* `RequestSymmetry` is used for safety only.

## Fairness

`FairSpec` asks that River starts available jobs, that statements and commits finish,
outcomes are reported and orphaned jobs rescued, per job (`Progress`). A lock
wait is an ordinary blocked action: its release is what the property shows.
Failures, crashes, requests, the faucet's refusal and the tracker get no
fairness.

`FairUnlockerSpec` asks that blocks are produced (for a transaction that is next and not too cheap), the DISPATCH jobs are worked, the
tracker redelivers what was not acknowledged (JetStream's contract), and that the two
periodic jobs come round (`worker.go:184`). Faults get none, and being bounded
they stop: the liveness properties say what happens once the environment is quiet for long
enough, which is what a retry can promise at all.

`FairSpec` of `Service` asks, of a running process, that its ticker fires, the node answers and the
updater goes on, and of a stopping one that its deadline is a timer and that what
it wakes exits. That requests, events, jobs or a refresh under way ever end is not assumed:
`SignalledExit` has to do without.

## What is proved

For every set of accounts and requests, every number of attempts, OTXs, versions,
overlapping unlocker runs and faults, any starting nonces. The only
assumptions are those on the constants: `ConstantsAssumption`, `ChainAssumption`,
`DispatchAssumption`, `UnlockerAssumption`, `CommandAssumption`, `GasAssumption` and `ModeAssumption`.

| theorem | in | states |
|---|---|---|
| `TypeCorrect` | SigningProofs | `Spec => [](TypeOK /\ JobInv)` |
| `NoNonceTwice` | NonceProofs | `Spec => []NoncesUnique` |
| `NoNonceSkipped` | NonceProofs | `Spec => []NoncesWithoutGap` |
| `IdOrderIsNonceOrder` | NonceProofs | `Spec => []IdsFollowNonces` |
| `NewestIdIsLargest` | NonceProofs | `Spec => VisibleInIdOrder` |
| `SigningImplementsLedger` | NonceProofs | `Spec => LedgerSpec` |
| `RunsAreWhole` | JobProofs | `Spec => []PlansWhole` |
| `AddressesComeTrue` | JobProofs | `Spec => []AddressesAreDeployed` |
| `CompletionIsTruthful` | JobProofs | `Spec => []CompletedJobsAreSigned` |
| `ReplaysAreExcused` | JobProofs | `Spec => []ReplayOnlyAfterLostRun` |
| `SecondKeysAreExcused` | JobProofs | `Spec => []SecondKeyOnlyAfterLostRun` |
| `PagingIsSeamless` | ListingProofs | `Spec => []PagesAdjoin` |
| `FullPagesStay` | ListingProofs | `Spec => PagesStable` |
| `DispatchTypeCorrect` | DispatchProofs | `DispatchSpec => []DispatchTypeOK` |
| `DispatchShowsWhatHappened` | DispatchProofs | `DispatchSpec => []FinalStatusIsTrue` |
| `DispatchReopens` | DispatchProofs | `DispatchSpec => ReopenedOnlyInDispatch` |
| `DispatchActivates` | DispatchProofs | `DispatchSpec => []AcknowledgedIsActive` |
| `DispatchImplementsLedger` | DispatchProofs | `DispatchSpec => OutcomeSpec` |
| `UnlockerTypeCorrect` | UnlockerProofs | `UnlockerSpec => []UnlockerTypeOK` |
| `AllWritersShowWhatHappened` | UnlockerProofs | `UnlockerSpec => []FinalStatusIsTrue` |
| `UnlockerImplementsLedger` | UnlockerProofs | `UnlockerSpec => OutcomeSpec` |
| `UnlockerActivatesRegistered` | UnlockerProofs | `UnlockerSpec => []ActiveIsRegistered` |
| `OneRunSettlesMinedHashes` | UnlockerProofs | `ASSUME OneRun PROVE UnlockerSpec => []SettledHashIsMined` |
| `CommandTypeCorrect` | CommandProofs | `CommandSpec => []UnlockerTypeOK` |
| `CommandShowsWhatHappened` | CommandProofs | `CommandSpec => []FinalStatusIsTrue` |
| `CommandImplementsLedger` | CommandProofs | `CommandSpec => OutcomeSpec` |
| `CommandActivatesRegistered` | CommandProofs | `CommandSpec => []ActiveIsRegistered` |
| `CommandSettlesMinedHashes` | CommandProofs | `ASSUME OneRun PROVE CommandSpec => []SettledHashIsMined` |
| `ServiceTypes` | ServiceProofs | `Spec => []TypeOK` |
| `KeysAreRaced` | ServiceProofs | `Spec => []OneMasterKey` |
| `ExitsAreClean` | ServiceProofs | `Spec => CleanExit` |
| `TipsAreOfTheRefresh` | ServiceProofs | `Spec => []OldTipOnlyInRefresh` |
| `ResigningPays` | ServiceProofs | `Spec => ResignedPaysMore` |

*Types.* `TypeOK` is not inductive: that a run's OTX has a run number, an index and
a kind in range depends on what the job's state says of its open transaction.
`JobInv` adds this: a job with a worker is marked running and was started, one
without has no open transaction, a taken nonce is below the plan's length, a refill job
exists only for a started attempt of a refilling request. `Typed` is both.

*Nonces.* `NonceInv` strengthens the properties with four facts. `RowInv`: at most
one open transaction holds a signer's row (this is the lock). `PendInv`: what an
open transaction has inserted is exactly the nonces from the committed
`next_nonce` on, one per acquired nonce except the one just taken, ids growing with them.
`FreshInv`: every id in use is below the sequence, and those of an open transaction are
above all committed ones of its signer: an insert
draws its id while it holds the row. `BooksInv`: the committed OTXs of a
signer are exactly the nonces from the first up to `next_nonce`, once each, ids in the same
order. `CommittedLemma` says what a commit then does (a whole block of consecutive nonces above
all before it), and the refinement of the ledger and the action property follow from it.

*Jobs.* `LifeInv` follows a run from its start to River's knowledge of it. `Stored`: the run of a
committed OTX is its job's last one and River knows or will be told, or it is in `lost`. `Whole`: next to every
committed OTX stands one for each other place of its plan. `Planned`, `Deployed`: the open and the
committed OTXs have the plan's types, and the addresses they embed are those of creations before them.
`Signed`: a run that succeeded has left OTXs. `KeyInv`: one request creates an account, and its first
key came with an OTX of that request. The nonces come from `NonceInv`.

*Listing.* A page is the first ids above a cursor, or the last ones below it, up to a number of them,
so the proofs count: an id is in `Oldest(ids, n)` when fewer than `n` are below it. `OldestIsClosed`,
`OldestIsShort` and `OldestIsFull` say what a page leaves out and how long it is, from the library's
facts about the cardinality of finite sets; `AdjoinLemma` derives that the page before the
next page is the page itself. `PagesStable` follows from `VisibleInIdOrder`: what commits later is above every
visible id (`GrowthIsAbove`), and such ids do not change the oldest of a set that has enough (`OldestIsStable`).

*Outcomes.* `Inv` strengthens `FinalStatusIsTrue` with what the subscriber holds
in its open transaction (`SubInv`), that nonces are mined in order
(`ChainInv`: without it the network nonce means nothing, and a block might mine a
nonce twice) and the bound on attempts. The argument is that outcomes on
chain are stable (`MinedStays`), so what a writer saw is still true when
it writes, however late. With the unlocker, `UInv` adds for each run that it has
an OTX in hand after it read its rows, and that an outcome about to be written is
that of the OTX's *nonce*, whichever version was mined. `LowestLemma` (there
is a lowest nonce among any rows) rests on the library's theorem that the naturals
are well-founded. The chain in these theorems never reorganises: that is an
assumption about the node, not about the code. Runs of the command keep the same `UInv`
(`CommandProofs`), so that five writers need no new argument. `AckInv` adds, for the
activation, that no version but the first is mined without re-signing and that only events of mined OTXs are acknowledged.
`TryInv` adds, for `ReopenedOnlyInDispatch`, what a job knows when it sends: before its first attempt nothing of its OTX is in the node
or mined; a refusal met there leaves it so; and while nothing fails there is one attempt, whose answer arrives.

*Ledger of outcomes.* `BoardLemma` says which steps the ledger allows, by what they do to `mined`, `status` and
`active`: nothing, mining the next nonce, one status that is not final, or only statuses that are and the activation of
registrations among them. Every handler is one of these; that a final status written is the outcome on chain is
`FinalStatusIsTrue` after the step. From the ledger alone it follows that an account is active only if its registration succeeded
(`BoardKeepsActive`), also where an OTX is re-signed and `AcknowledgedIsActive` need not hold, as the
tracker's message may find no row.

*Hashes.* `SettledHashIsMined` speaks of a row's version, and any of several versions may be mined, so
`HashInv` follows the version from the node to the row. `ChainHash`: the node never falls behind
what is stored, and what was stored again was too cheap before, as long as the node holds nothing. `RunHash` and `HeldInv`: the version a
run is about to store is the one the node has, or has mined, and the node takes no version 0 meanwhile: it refuses it as too
cheap if it lost the later one, as underpriced if it has it. `AheadInv`: without a fault the node is ahead of the row only
of the nonce a run holds. `Current`: nobody else changed the rows a run has read. `ShownHash`: what is shown or about to
be shown bears the hash that was mined. One fault may break `AheadInv` (the answer to a submission is lost) or the fact that the node has
the held version (it evicts it), not both: this is where the count of faults enters. `OneRun` (the set of runs has at most one element,
of the worker or of the command) is where `Current` comes from; any number of OTXs, versions, attempts and writers of the dispatch rows remains.
`HashInv` was checked by TLC before it was proved, of the worker and of the command, with two versions to re-sign to.

*Service.* `ServiceInv` has three parts beside the properties. `OracleInv`: the two fields of a process are of
one refresh but between the updater's two stores, and no reader is ahead of the first field.
`KeyInv`: without a race there is at most one open insert, and none once there is a key. `CloserInv`: jobs are
fetched only before the signal, the updater has ended once the River client is being stopped, and the closer passes the River
client only when it is idle or the deadline is over. `CleanExit` is an action property: each step that ends a stopping process is looked at. `ResigningPays` needs of the prices only that they are natural numbers.

Only model-checked: the liveness properties, and with them everything about fairness and ENABLED, which
are outside the prover's reach: `JobsComplete`, `MinedAreSettled`, `RegisteredBecomeActive`, `OTXsGetMined`, `OrphansRecovered`,
`SignalledExit`, `WorkersFollowPrices`. Every other property of a passing run is proved. With two runs or two faults `SettledHashIsMined` is false
(see [limitations](#known-limitations-of-the-code)), so `OneRun` and the count of faults in it are not for the proof's sake.

## Findings

* **The guard of `resignAndResubmit` does not recover** (run `GuardMisfires`).
  `unlocker.go:335-336`: "if the original tx was sealed into a block while we were
  re-signing, our new tx is now invalid. Recover via checkReceipt." The test
  `currentNonce > otx.Nonce` is also true when the *new* transaction was mined
  between sending and looking. The old hash has no receipt, the new one is never
  stored, the tracker's event for it matches no row, and only
  `recoverOrphanedNonce` is left, which needs a settled next OTX. The account's
  last OTX stays unsettled for good.
* **No gas does not stop the sequence** (run `NoGasGoesOn`). `unlocker.go:120` logs
  "account has no gas, stopping sequence" and returns nil, which makes
  `processAccount` go on with the next nonce; only an error stops it.
* **An api process signs with the prices of its start** (run `StalePrices`).
  `gas/rpc.go:86`: "We pay 20% more than the current gas price to accomdate any
  fluctuations between cache updates". Only a process with workers starts the updater
  (`cmd/service/main.go:101-106`); in mode `api`, `eth_sendTransaction` (`api/jrpc.go:74`)
  signs with an oracle that is never updated. The unlocker of another process raises the price later.

## Known limitations of the code

Seen while modelling, with no document that promises otherwise:

* Two overlapping runs of the unlocker, or one and the command, at different prices may store the loser's
  hash; a settled OTX then shows a hash that was not mined. With one run it takes two faults: the
  node refuses a re-signed transaction it later takes, or evicts one it took, while the version of the DISPATCH job
  is mined and a later one waits to be stored. (`SettledHashIsMined` fails with two
  runs and `MaxVersion = 2`, and its bound on `faults` is needed; within both bounds it is proved.)
* The command has no guard after re-signing: it may put a settled row back to IN_NETWORK
  with a hash that is never mined. It may die on a missing receipt.
* Two processes that start on an empty database at once make two master keys; which one
  signs is up to Postgres (`load-master-key` has no ORDER BY), so that processes may differ.
* If the commit of the bootstrap fails, the process runs without a master key and jobs that need it
  fail until some process starts again.
* Below 7 wei a bump of 15% is none. A price of the oracle only slightly above the old one is
  used as it is, and refused by nodes that want a minimum increase.
* A page past the last OTX returns `last` 0 (`otx_handler.go:117`), which a client must not use as its next cursor.
* A contract creation that became too cheap is never re-signed and holds up
  every later nonce of the master key (`OTXsGetMined` says so).
* A transaction that became too cheap while the node keeps it is answered "already known". Nobody classifies
  this answer, so each run of the unlocker stops the account there (`unlocker.go:123`, `86-92`) and signs nothing again
  until the node forgets it; the later nonces wait (`OTXsGetMined` excludes it).
* If a missing receipt is an error, `checkReceipt` returns it before it looks at the nonce (`unlocker.go:149-154`):
  `recoverOrphanedNonce` is never reached, and an orphan stops its account on every run.
* A status SUCCESS may go back to IN_NETWORK or NETWORK_ERROR, and to LOW_NONCE when the DISPATCH job sends again after the
  outcome (`ReopenedOnlyInDispatch`). The health check restores only IN_NETWORK; the others stay until the unlocker
  sends the transaction again and looks its receipt up.
* `demurrage_token_deploy.go:88-90` drops the error of `Bytecode()`: the job goes on and signs a creation without code.
* GENERIC_SIGN OTXs are passed over by the health check and do not make an account
  stuck; the liveness properties exclude them.

## Not modelled

* Key material, amounts, payloads, validation, wording: data no property tells
  apart.
* `LIMIT 100` of the unlocker's query for stuck OTXs: it only names the accounts to work on, and the
  models of the sending side have one.
* Prices in the models of the sending side, where a version stands for a price; `GasOracle` has the
  numbers. Block numbers but for near and far.
* Whether a token symbol exists (`contracts_handler.go:41`) is an answer of an external contract; two
  requests for one symbol are two deployments to the model.
* Reorganisations of the chain: neither the tracker's events nor the workers undo an
  outcome, so a reorganised block would simply leave a wrong status.
* Published events, authentication, ENS, configuration: nothing in the
  service reads their effects back.
* What closes the connections to NATS and Postgres at exit, loggers, metrics; `initWorker` shadows
  its package variable (`init.go:215`), so that a standalone process builds two River clients and starts one, which changes
  no state the models have.
* Retrier: reads and logs. Resigner helpers: called by a test only. Generic sign worker: its job is inserted nowhere.

## Plan

Done, in this order: `Signing` with `NonceLedger`; `Chain` and `Dispatch`; `Unlocker`; the proofs of
nonces and outcomes; the activation of accounts; `UnlockCommand`; `GasOracle` and `Service`
with their proofs; `Listing`; the proofs about jobs, about pages and about hashes; `OutcomeLedger` and its
refinement by the three specifications of the sending side.

Left, if the code comes to need it:

1. The outside effects of deployments before the commit (ENS name, PENDING events), once something reads
   them back.
2. More than one account on the sending side, for the limits of the health check and the unlocker.
