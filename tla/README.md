# seismic-sdk: a TLA+ model of its concurrent core

The SDK lets a service use Fireblocks vaults on the Seismic chain: it derives
addresses and encryption keys, sends public (ERC-20) and shielded (SRC-20)
transfers, reads balances and histories, and wraps all of that in a REST API.
It is one Node.js process without a database. What makes it hard is not
parallel code but `await`: between any two awaits another request may run, a
`shutdown()` may clear the keys, a block may be added, and an answer may fail or
be lost after its effect has happened.

This directory holds specifications of that behaviour, configurations that
check them with TLC, and proofs checked by TLAPS. Paths below are relative to
the root of this project's source, `src/`.

## Inventory

| Part (source) | State | Operations | What is hard | What makes it correct |
|---|---|---|---|---|
| **Session**: `MainSDK` with `types/custom.ts`, `crypto/key-derivation.ts` | `vaultData`: vault id -> `VaultData` object with address, `encryptionSk`, `viewingKey`, `viewingKeyRegistered` | `ensureVaultData`, `deriveEncryptionKey`, `deriveViewingKey`, `registerViewingKey`, `checkViewingKeyRegistered`, `createShieldedTransaction`, `getSrc20Balance`, `getTransactionHistory`, `shutdown` | check-then-act over awaits; calls hold references to objects that are no longer in the map; shutdown in the middle of a derivation | keys stay with their vault; no zeroed key is served; cached pairs match; the registered flag follows a submission |
| **ERC-20 transfer**: `createErc20Transaction`, `seismic.service.ts`, `utils/txLog.ts` | none in the process between calls: nonce, gas price and signature are locals; a log file | read nonce and gas price, estimate, sign with Fireblocks, broadcast with retries, log | minutes between nonce and broadcast; lost answers; retries of what was done; replacement in the node's pool | at most one execution per request; a confirmed hash is a real transaction; no nonce gap |
| **JSON-RPC client**: `rpc.service.ts`, `utils/general.ts` | none | `jsonRpc`, `jsonRpcBatch`, `withRetry`, `dateToBlock`, `scanLogsUntil` | which errors are retried; scanning a growing chain | a scan is complete in the range it reports, and ends |
| **Fireblocks signer**: `fireblocksSigner.ts`, `utils/fireblocks.ts` | a `RAW` transaction at Fireblocks; the poll's clock and delay | `rawSign`, `getTxStatus` | human approval; polling with backoff against a limit | it ends in time; no decision is missed; its outcome is true |
| **Fireblocks service**: `fireblocks.service.ts` | the client | `getPublicKeyByVaultID`, `signTransaction` | failures | - |
| **Shielded service**: `shielded.service.ts` | the TEE's public key, cached for ever | `registerViewingKey`, `checkViewingKeyRegistered`, shielded client, `submitShieldedTransfer`, decryption | nonces and resending are left to viem; submissions that are dropped | the same as of a public transfer; seen through the session |
| **History**: `history.service.ts`, `controller.ts` | none | pages of Transfer logs; contract discovery | each page is a scan of its own over other windows, and turns dates into blocks anew | pages fit together; nothing is skipped |
| **Explorer**: `explorer.service.ts` | none | the same scan over an indexer's rows, 100 rows per window | row cap; dedupe by transaction hash | the same |
| **Balances and batch**: `MainSDK`, `seismic.service.ts` | token details cache | `batchGetSUsdcBalances`, `getErc20Balances`, `getTokenBalances` | matching answers of a batch to vaults; failures that read as zero | every balance belongs to its vault |
| **Life cycle**: `MainSDK.create`, `app.ts`, `server.ts` | `deterministicSigningVerified` | two probe signatures, start, stop | restarts; a setting of the workspace that changes; two missing signatures compare equal | a vault's key is the same in every process; a failed check lets nobody derive |
| **REST API**: `router.ts`, `controller.ts`, `validation/`, `errorHandler.ts` | none | validation, ten handlers, mapping of errors to statuses | any await may fail, before or after something was submitted; the words of a message decide whose fault it is | every request gets one answer; a success moved what was asked for; a client's error moved nothing |
| **Configuration, logger, sanitizer, swagger** | environment, cached | - | - | - |

The controller calls the SDK; the SDK calls the services; the services call
Fireblocks, a Seismic node, and optionally the SocialScan explorer. Calls share
`vaultData` inside the process, and the chain outside of it. There are no
locks, queues or callbacks: all interleaving comes from `await`.

## Modules

| Module | Models | Extends / refines |
|---|---|---|
| `VaultSession` | the session: `vaultData`, its objects, the running calls | |
| `VaultSessionProofs` | its safety: zeroed keys, whose each key is, the flag | `VaultSession` |
| `Erc20Transfer` | concurrent transfers of one vault, public and shielded, the node's pool and blocks | refines `TransferPromise` |
| `Erc20TransferProofs` | its safety, and the refinement | `Erc20Transfer` |
| `TransferPromise` | what a caller of a transfer may rely on | |
| `RawSigning` | one `rawSign` with the clock of its poll | |
| `RawSigningProofs` | all four of its safety properties | `RawSigning` |
| `WindowScan` | what a scan over block windows finds, without a loop | |
| `LogScan` | the loop of `scanLogsUntil` against a growing chain | extends `WindowScan`, refines `ScanPromise` |
| `ScanPromise` | what a caller of a scan may rely on | extends `WindowScan` |
| `LogScanProofs` | the loop finds what `WindowScan` defines, the refinement, and that it ends | `LogScan` |
| `HistoryPages` | a client that pages through the history, over every path of a query | `WindowScan` |
| `HistoryPagesProofs` | what paging misses and what it repeats | `HistoryPages` |
| `BatchBalances` | `batchGetSUsdcBalances` next to other calls and a shutdown | |
| `TokenBalances` | `getTokenBalances` and the discovery of contracts | |
| `Balances` | a request for balances: one or the other | `BatchBalances`, `TokenBalances` |
| `BalancesProofs` | why the batch throws, whose each entry is, and what the discovery may miss | `Balances` |
| `SdkLifecycle` | starts, the determinism check, key derivation, crashes | |
| `SdkLifecycleProofs` | keys are stable, and none takes the place of another | `SdkLifecycle` |
| `RestApi` | one request, from validation to the status of its answer | |
| `RestApiProofs` | what a status says of what was moved | `RestApi` |
| `MC*` | small instances of the above | |

### One action is the code between two awaits

JavaScript runs a function to its next `await` without interruption. An action
is such a stretch; a call's program point `pc` says which `await` it is at, and
its locals are part of its record. Two kinds of resumption are told apart,
because Node does so: the promise of an `async` function that has finished
resumes its caller as a *microtask*, a network answer is a *task*, and all
microtasks run before the next task. `VaultSession` says so with
`Drained`: a reply (`Replied`) finds no continuation ready. A new call and `Shutdown`
have no such guard, as the code that calls the SDK may itself be a continuation.

### VaultSession

`data[e]` is a `VaultData` object, `vaultData[v]` the map entry, `call[c].ref`
the local variable `vaultData` of each function on the call's stack. That
objects have identity is the point: `FetchReply` puts a *new* object over what
is in the map (`MainSDK.ts:210-221`), and a call goes on with the one it holds.
Frames name the function that called `ensureVaultData`: the operation itself
(`own`), `deriveEncryptionKey` (`enc`), `deriveViewingKey` (`view`),
`checkViewingKeyRegistered` (`check`). `Entries` bounds how many objects a run
may allocate. `shutdown` writes `"0".repeat(length)` into the keys, which is the
constant `Zeroed`: a non-empty string, so truthy, so "cached". `keccak256` of it
is a value of its own. `overlapped` and `retired` are history variables.

Abstracted: addresses and public keys (one per vault), the content of signatures
(`Sigs`; with two of them the signer is not deterministic), and the work after
the keys are there (`reading`, `submitting`). Operations that only look up
the address (`getVaultPublicKey`, ERC-20 balances, ERC-20 transfers) have the
shape of `getSeismicAddress`.

### Erc20Transfer

One record of locals per call: nonce, gas price, the attempt of `withRetry`, and
the answer under way. The node is external: it answers the pending nonce, takes
a transaction, refuses it (nonce too low, known, underpriced), is unavailable, mines or
evicts. Its effect and its answer are separate steps, so an answer can be late
or lost. A signed transaction is its nonce, gas price and transfer, as signing
is a function of these. Reads over JSON-RPC before the broadcast answer or fail;
only the broadcast shows its retries.

A transfer in `Shielded` is one of `createShieldedTransaction`. It takes its gas price
first; its nonce, the signature's account and the sending are those of a viem wallet
client, made by `createShieldedClient` with the default `http` transport, whose
`retryCount` is three like `withRetry`'s (`MaxRetries`). The library is external. It
draws an encryption nonce for each transfer, so that two equal ones are different transactions,
and it resends the signed transaction when no answer came.

### RawSigning

Time is counted by the poll itself, in its own units of sleep. The model has
`elapsed`, `delay`, the transaction at Fireblocks (`tx`), the answer on its way (`seen`) and the
time of the decision. The transaction goes on changing while an answer travels.

### WindowScan, LogScan, HistoryPages

`WindowScan` defines what a scan finds as a set: the logs of the newest *k*
windows, for the least *k* at which enough was found, `MaxEmpty` windows were
dry, or the floor or `MaxWindows` was reached. `LogScan` is the loop, action by
action: height, two concurrent `eth_getLogs` per window, dedupe, counters; blocks
are added at any time. It implements `ScanPromise` (`ScanIsOneReading`): its many requests, between which
blocks are added, amount to one reading of the chain at the moment its height is known, and the answer is
what `WindowScan` defines on that reading. That justifies that `HistoryPages` takes a scan in one step.

`HistoryPages` is a client of the REST route: each page is a new scan for
`offset + limit` logs, cut to a slice. `Queries` are the combinations of path, limit
and range that it may begin with. The chain only grows; there is no reorganisation, and a
node answers from the chain as it is. `path` is the way a query takes through
`history.service.ts`: logs from the node (`erc20`, `src20`), the explorer, or the merge of three
sources (`all`); with a viewing key that is registered and can be derived, the SRC-20 logs encrypted to it
(`viewingKey`), also as sources of the merge (`allKeyed`). `Matches` says what each asks for, `Listing` what it has
before the slice: with a key or from the explorer, one entry for all logs of a transaction. `pinned` says that the
client sent `fromBlock` and `toBlock`, which makes one request out of a scan; the sources of the merge do not get them.
A date (`before`, `after`) becomes a block by `DateToBlock`, from the height and the clock at each page:
were there a block every `BLOCK_TIME_MS`, it would be the same block (`cut`) each time;
`drift` is by how many blocks the chain is behind or ahead of that. `Rows` is what the explorer
gives of a window, and `lost` counts the transactions it cut off.

The way may change between two pages, as each page asks the explorer and derives the key anew, and a failure of
either is swallowed (`history.service.ts:162`, `MainSDK.ts:359`). When the explorer fails, or the key
cannot be derived, logs of the node stand in (`StandInPage`, `fallen`), with an offset that counted transactions; the
pages go on, and `NoHoles` and `ShortPageIsLast` are about them too. `OtherWay` and `degraded` are the changes after which the client is not
followed any further, because the code then loses entries (see Findings): the explorer or the key is there again, a key has
been registered in between, type `all` or a pinned range has lost its key, or a source of the merge fails.

### BatchBalances

One call of `batchGetSUsdcBalances`: a lookup for each position of `vaultIds`, which
settle in any order; the JSON-RPC batch; and the loop that matches answers to
vaults by counting (`ResolvedIdx`). Of the session's map only its keys matter:
other calls add them and a shutdown clears them, which is what the second reading of the
map trips over. A balance is represented by the vault it belongs to.

### TokenBalances

One call of `getTokenBalances`. `branch` holds the three branches that run side by
side; the SRC-20 branch goes through the `phase`s of `discoverSrc20Contracts`:
the height, windows in batches, the explorer's scan in case nothing but failures came back,
and the reading of the contracts found. Windows of a batch answer in any order. A window is two requests (`Ways`), for the
logs of what the address sent and of what it received. The node gives all of them; the explorer gives `MaxRows` of each at most
(page 1, offset 100, `explorer.service.ts:446-447`, `457-458`), and which ones is open (`Answers`). `cut` records the requests
that had more, of which the code has no sign.
Its definitions carry the prefix `Read` where `BatchBalances` has the same name, as `Balances`
extends both; a behaviour of `Balances` is either a batch or a token read.

### SdkLifecycle

One process at a time: a program makes an SDK in one of the ways the code offers (the
service, `create`, the constructor, each with or without the check), uses it,
crashes, and is started again with what the environment then holds. Fireblocks is external: it
caches signatures if the workspace is set to it, an administrator may change that, and a
completed transaction may lack `fullSig`. A signature is a number no other
signature has, a key is the signature it is derived from. `entries` and `keys` are what the process has in `vaultData`. An
entry is resolved over an await and put over one that may have a key by then (`Resolved`, `MainSDK.ts:215-218`), and `Shutdown`
clears all of them; `live` tells whether the entry that a call goes on with is still the one in the map. `Trusted` is the case that the check is made for: it was made,
both signatures were there, and the setting has not changed since.

### RestApi

One request; requests share nothing in this layer. `Plan` lists the awaits of the SDK behind
a route in their order, `Throws` what each may throw, `Wrapped` what
`createErc20Transaction` makes of it, and `StatusOf` is `handleError`. An error is what these tell apart: an
`SdkApiError` with its status, or another one with or without the words that make it
the client's fault. A transfer is followed in detail: its recipient, decimals and units on
each of the three ways through the SDK, and what the node has `taken`. The node's step and its answer are
separate, so that a failure after a submission is part of it. Amounts are counted in tenths
of a token, and 10^d keeps its meaning with small d. It is assumed that an
error after the node has taken a transaction does not contain "Invalid" or "required"
(`SubmissionErrors`): those are the node's, such as "already known", and the transport's.

## Runs

All bounds are constants of the `.cfg`; a run finishes within three minutes.

| Run | Bounds | Shows |
|---|---|---|
| `session_keys` | 2 vaults, 2 calls, 2 objects, `deriveViewingKey` and `getTransactionHistory`, 1 shutdown | `KeysStayInTheirVault` and `EveryCallSettles`. Two vaults make the confusion of one with the other possible; these operations contain all others that derive, have the longest chain of frames, and the only `catch`. |
| `session_ops` | 1 vault, 2 calls, 2 objects, all eight operations, registrations mined or dropped, 1 shutdown | `LiveKeysUsable`, `LiveViewingKeyMatches`, `FreshCallsGetKeys` and `FlagFollowsSubmission` for any pair of operations. Two calls make every check-then-act race, and two objects let one call hold an object that another has replaced. |
| `transfer` | 2 calls, a public and a shielded transfer, 2 gas prices, 3 retries (the code's and viem's), 1 eviction | six properties, among them the refinement of `TransferPromise` and two of liveness, for two public, two shielded transfers, or one of each. Two gas prices give replacement and refusal as underpriced. |
| `raw_signing` | the code's own interval, cap and limit in ms; latencies up to 4 s | a poll of five minutes in full: it ends in time, misses no decision, tells the truth. |
| `log_scan` | windows of 2, up to 3 windows, dry after 2, 7 blocks | the scan is one reading of the chain (refinement of `ScanPromise`); the reported range is complete; nothing near is missed; it ends. Seven blocks exceed what three windows reach, and two dry windows are fewer than three. |
| `history_pages` | windows of 2, up to 2, dry after 1, 2 rows per window, 5 blocks, 16 queries: all six paths, pinned ranges, dates; a drift of 1 block | pages fit together while blocks are added between them, the estimate of a date moves, windows are cut off, and the explorer or the derivation of the viewing key fails. A block may hold several logs of one transaction, transfers of two kinds, and transfers received before and after the registration of the key; a window of two full blocks has twice the rows that the explorer gives. |
| `balances` | a batch: 3 vaults, six inputs with up to three positions, two of them with a repeated vault, 1 shutdown. Or a read of tokens: 3 contracts, windows of 2, up to 3, batches of 2, 1 row of the explorer, 7 blocks, four chains, with and without API key and given contracts | balances and errors stay with their vault, and the batch throws only for a reason; of a vault named twice, where its lookups agree. A contract is missing only if all requests that show it failed or were cut off by the explorer; every call settles, and branches fail apart. The last batch is not full, one block is below the scan's depth, and a window of the fourth chain has more logs of one contract than the explorer gives, which hides another. The two have no state in common and take place in different behaviours. |
| `sdk_lifecycle` | 2 starts, 2 vaults, 2 calls, 2 changes of the setting, 3 signatures | keys are stable over a restart; a key in memory is kept or lost, but never gives way to another. Three signatures are enough for a check that fails and for two processes that derive different keys. |
| `requests` | every route; transfers of each type, to an address, a vault, both or none, of 0, 0.1 and 1.5 tokens and of no number, with 0, 1, the most and too many decimals | a success moved what was asked for, a client's error moved nothing, every request gets one answer. Two amounts and tokens of 1 to 3 decimals tell wrong units from rounding. |
| `transfer_nonce_conflict`, `history_has_more`, `request_amount` | as above or smaller | three statements of the documentation that the code does not keep; see Findings. |

Every property of a passing run has a mutant: a definition of the model changed
the way a bug in that code would change it (a forgotten clear, an off-by-one, a
missing cap), under which TLC finds the property violated. The mutants stand
next to the definition they replace.

Deadlock is not checked in runs where the system may stop: when all calls are
over and the chain has reached its bound. `VaultSession` has no such end, since a
slot can always be called again.

### Symmetry

`session_ops` uses permutations of vaults, calls and objects: no operation tells
them apart, and the run has no liveness property (`FlagFollowsSubmission` is
about single steps). `session_keys` has one, and uses none. `sdk_lifecycle` uses permutations of calls, with
`KeyNeverChanges`, which is about single steps too.

### Fairness

* `VaultSession`: *strong* fairness of each call's steps. A reply runs only when no
  continuation is ready; callers may make it wait by new calls, but not for
  ever, since each call comes from a task of its own. That every awaited promise
  settles is an assumption: Fireblocks polling has a limit
  (`RawSigning` shows that), HTTP requests end when `HTTP_TIMEOUT` is set or the
  connection ends. The code has no default for `HTTP_TIMEOUT`.
* `Erc20Transfer`: weak fairness of each call, as requests end and timers fire, in viem too,
  and of block production. Nothing is assumed about the order or success of answers, nor that an
  evicted transaction comes back.
* `RawSigning`: weak fairness of the poll only. Nobody has to approve anything.
* `LogScan`: weak fairness of the scan; the chain may grow at any pace.
* `Balances`: weak fairness of the token read's own steps; which of several
  answers comes first, and whether it is a failure, is open. Each step uses one up, so this suffices.
* `RestApi`: weak fairness of `Next`, for a request that is there is worked on: each await settles, with an answer or a failure.
* `HistoryPages`, `BatchBalances` and `SdkLifecycle` state safety only, and need no fairness.

## Proofs

TLAPS proves the safety of every component, two refinements, and that no call goes round without end, for all values of the constants that satisfy the modules' `ASSUME`s.
Each proof is an inductive invariant, one lemma per action that keeps it, and the properties as consequences. TLC
checked each invariant on the component's run before it was proved. Where a property of the runs is not inductive, the
reason it holds is what the invariant adds:

* **Session** (`VaultSessionProofs`: `TypeCorrect`, `LiveKeysAlwaysUsable`, `FreshCallsAlwaysGetKeys`,
  `KeysAlwaysStayInTheirVault`, `LiveViewingKeyAlwaysMatches`, `FlagAlwaysFollowsSubmission`). Types need
  `CallsWellFormed`: which locals a call has at which program point. That a live entry is never tainted is not
  inductive: a call that shutdown overtook goes on writing into the objects it holds. `SoundInv`
  says where such objects are: all tainted ones are `retired`, that is,
  allocated before the latest shutdown; the map holds no retired one; a call that no
  shutdown overlapped holds none; and a call inside `deriveViewingKey` whose
  inner object is retired has a retired outer one too, as it resolves the outer one
  before the inner call does. `KeysInv` says that an object, and whatever a call holds, has keys of its own vault only, however often
  the map's entry was replaced since, and that the outer and the inner object of a `deriveViewingKey` are the same
  as long as the outer one is in the map; so a viewing key is never cached beside a missing encryption key.
* **Transfers** (`Erc20TransferProofs`: `TransferTypeCorrect`, `SuccessIsAccepted`, `NoSharedSuccess`,
  `NoncesHaveNoGap`, and `TransfersKeepThePromise`, the refinement of `TransferPromise`). `Known`: what the node has taken was
  sent by a call whose transaction is fixed by then. `Confirmations`: when an answer on its way may stand for a
  transaction. `Ledger`: what the node's rules amount to; nonces are mined without gaps, and the nonces below one that was
  read stay busy as long as nothing is dropped. For the refinement each step is one of the abstract
  specification, or leaves its variables alone.
* **Signing** (`RawSigningProofs`: `SigningTypeCorrect`, `PollingAlwaysEndsInTime`, `NoDecisionEverMissed`,
  `OutcomeAlwaysTrue`), from an invariant that bounds
  `elapsed` at each point (`Clock`), relates the answer on its way to the
  transaction (`Snapshot`), and the time of the decision to that answer
  (`Decision`). They hold for any interval, cap, limit and latency.
* **Scans** (`LogScanProofs`: `ScanTypeCorrect`, `ScanAlwaysMatchesDefinition`, `ScanIsAlwaysOneReading`,
  `ReportedRangeIsAlwaysComplete`, `NothingNearEverMissed`), for any window size, limit, pair of bounds and chain. `Underway`: what is collected are the
  logs of the first `i` windows, and none of the ends of a scan was met before. `Counted`: the counter of empty
  windows counts back exactly to the last window with a log; a mere bound would not tell when it has to stop. Blocks that are
  added lie above the scan's first block, so that none of this changes with them. Multiplication by a window size that is a
  constant without a value is beyond linear arithmetic; the lemmas on windows isolate it. For the refinement of
  `ScanPromise` the reading is the part of the chain up to the scan's first block, which the chain keeps as it is; the
  step after which no window is left to ask for is the abstract one that returns.
* **Batch** (`BalancesProofs`: `BatchTypeCorrect`, `AlwaysThrowsForAReason`, `EntriesAreAlwaysOwn`). The code matches
  answers by counting; the lemmas show that the fulfilled lookups before a position number the resolved vaults
  without gaps or repetitions, by the least position at which it would fail.
* **Discovery** (`BalancesProofs`: `ReadTypeCorrect`, `MissingIsAlwaysExplained`). `Scanning`: each window before the
  end of the current batch has given its contracts, was skipped, was cut off, or is waited for. `AskedFor` and `WindowOfBlock` show that the number of
  windows, rounded up, leaves out no block.
* **Both ways to read balances** (`BalancesProofs`: `BalancesTypeCorrect`). Each part's invariant is kept where either may
  take place, as a step of one leaves the variables of the other alone (`PartsAreIndependent`).
* **Paging** (`HistoryPagesProofs`: `PagesTypeCorrect`, `PagesLeaveNoHoles`, `PagesEndShort`, `PagesRepeatForAReason`), for any
  chain, limit, kind of range, number of pages and number of rows per window. `NoHoles` itself is not inductive: a later page starts from an offset, and
  what it leaves out depends on how many entries stand before it, shown or not. `Missed` are the entries that have their place before
  the next page, or above its range, and were on no page; `Sparse` bounds their number by what the explorer has cut off and what the
  estimate of a date has passed over. A page keeps the bound because cutting off one entry moves only one other to an earlier
  place (`PageMisses`), which is a statement about places in any order; `NewestFirst` shows that `Before` is one, given that two logs
  of a block differ in their index. `Tallied` counts the items of all pages, new and repeated, against the offsets. An earlier
  form of `NoHoles` counted transactions in its allowance for a date after logs had come to stand in for the explorer. TLC had found nothing
  against it, but it is not so: offsets count logs then, of which there may be more. `Offsets` counts what the offsets do. What
  the offsets count (`Counted`) and what of it the client asked for (`Sought`) are told apart for the pages on which logs stand
  in; there are at least as many of the one as of the other (`CountsKept`), so an offset comes by no more than it would have.
* **Life cycle** (`SdkLifecycleProofs`: `LifecycleTypeCorrect`, `KeysAreAlwaysStable`, `KeysNeverChange`). Two equal signatures
  show that the workspace caches them (`Agreed`), since a new one differs from all before (`Numbered`); what such a process
  has or waits for is in the cache (`FromCache`), which never loses a signature (`DerivedCached`). So a second
  answer for an entry, early or late, is the key that the entry has.
* **Requests** (`RestApiProofs`: `SuccessAlwaysMovesWhatWasAsked`, `ClientErrorNeverMovesAnything`, `RestTypeCorrect`). `OnCourse` orders the
  awaits of a handler: the one that submits is the last, and recipient, decimals and amount are settled before it. `Blamed` carries
  what was submitted over to the error that is reported. `RestTypeCorrect` has the
  hypothesis that `10^d` is a natural number for natural `d`: the provers know no more of powers of variable
  exponent than that they are integers, and induction is out of their reach. The other two theorems do without it.

The assumptions on constants: identities that the code tells apart are
different values (no key equals `undefined` or the zeroed string), numbers
are natural, windows and limits are positive, a block holds finitely many logs and each log of an address is sent
or received by it, and a request has the fields that its handler looks at.

**Ends.** The liveness properties are beyond the prover, but not what they rest on: that no call goes round. Each of
these theorems counts the steps that an activity has left, shows that every step of its own lowers the number
and that no step of anyone else raises it. A forgotten counter, a retry that starts over, or two
caches that send a call back and forth would break it.

| Theorem | Steps | Hypothesis |
|---|---|---|
| `VaultSessionProofs!CallStepsRunOut` | at most 39 to a call, on any path of caches, failures and shutdowns; none left exactly when it is over | |
| `Erc20TransferProofs!TransferStepsRunOut` | at most `4 * MaxRetries + 9` to a transfer | |
| `Erc20TransferProofs!ConfirmedNonceComesNearer` | while a confirmed nonce is not used the node has one to mine, and each one that is mined brings it nearer | |
| `RawSigningProofs!SigningStepsRunOut` | bounded by the time left until the limit | the polling interval is not 0, else a poll that is answered at once never ends; the code's are 1000 and 3000 ms |
| `LogScanProofs!ScanStepsRunOut` | at most `3 * MaxWindows + 1`, while the chain grows | `None` is not a set of logs |
| `BalancesProofs!ReadStepsRunOut` | bounded by the windows and the contracts; a read of `all` types does not throw once it runs | there are finitely many contracts |
| `RestApiProofs!RequestStepsRunOut` | at most 20 to a request | |

Only model-checked: the liveness properties themselves, that is, that such a step is enabled until the end and that
fairness takes it; and the three statements that a run refutes.

## Findings

Each has a run whose counterexample shows it.

1. **Nonce conflicts** (`transfer_nonce_conflict`). `README.md:314-317` says the
   `pending` tag keeps concurrent users of a vault from conflicts; the nonce is read
   long before the broadcast and reserved nowhere.
2. **`hasMore` is false although there is more** (`history_has_more`). `total` counts what this page's
   scan collected, and the scan stops once it has enough.
3. **A lost request changes an amount** (`request_amount`). When the read of an ERC-20
   token's decimals fails, `getTokenInfo` answers 18 (`seismic.service.ts:249-250`), and
   `createErc20Transaction` moves `amount * 10^18` units of a token that may have 6 decimals. `router.ts:434`
   and `MainSDK.ts:601` speak of whole tokens.

Met while reading and modelling, without a run of their own.

Session and life cycle:

* A `deriveEncryptionKey` that has resolved its entry when `shutdown` runs finds `"000..."`,
  which is truthy, and returns it as the vault's key (`MainSDK.ts:930`).
* A call can cache a key in an object that is no longer in the map; `shutdown` does not
  find it, against "zeroed on shutdown" (`MainSDK.ts:925`). The service never calls `shutdown`.
* `ensureVaultData` may replace an entry with a cached key by an empty one, so
  that a call after the first signs again, against `MainSDK.ts:921-923`.
* `viewingKeyRegistered` is cached at submission; if the transaction is dropped,
  `checkViewingKeyRegistered` goes on answering true, against `MainSDK.ts:1086-1089`.
* The determinism check compares `undefined` with `undefined` when both signatures lack `fullSig`,
  and passes (`MainSDK.ts:174`; `blind` in `SdkLifecycle`). An SDK made by the constructor is never checked,
  and nothing repeats the check after caching has been switched off.
* `initConfig({ TESTNET: true })` with `NETWORK=mainnet` in the environment leaves `RPC_URL` empty.
* The TEE's public key is kept for the life of the service (`shielded.service.ts:39`): after a rotation
  the amounts of newer SRC-20 transfers in a history cannot be decrypted until a restart.

Transfers:

* `withRetry` retries only `SdkApiError`s: an HTTP 429 or 503 is an `AxiosError` and thrown at once,
  while permanent JSON-RPC errors become status 502 and are retried (`general.ts:15-28`).
* viem resends a shielded transfer whose answer was lost; the node then knows it, and the
  call reports a failure of a transfer that is executed. The same holds of the retries of a public one.
* A broadcast whose answer is lost is not in `tx-log.ndjson`, against `README.md:62`.
* `HTTP_TIMEOUT` has no default in the code, against `README.md:63`.
* `r` and `s` of a signature are padded to 32 bytes before RLP encoding (`MainSDK.ts:684-685`), which
  demands integers without leading zeros: about one ERC-20 transfer in 128 is refused by the node.
* Errors of a shielded transfer are not wrapped (`MainSDK.ts:1122-1168`), against "@throws SdkApiError".

Requests:

* `limit` and `offset` of a history are not validated (`controller.ts:89-90`): `limit=abc` scans all
  windows for an empty page, `limit=-1` drops the last entry; a malformed date becomes the block `0xNaN` and a 502.
* `amount` passes if it starts like a positive number: "1abc" and "Infinity" are refused only by
  `parseUnits`, as the server's error, and for an SRC-20 token after a Fireblocks signature. An amount below
  half a smallest unit moves nothing and is a success.
* An SRC-20 transfer without `decimals` is one of 18 decimals, whatever the token has.
* `POST /explorer/validate-key` without a body throws outside of its `try` (`controller.ts:224`), a 500.
* `token-balances?type=erc20` without an explorer key is a 400, by the word "required" in the error.
* `router.ts` gives `erc20` as the default type of a history; the code uses `all` (`controller.ts:93`).

Balances:

* A batch that names a vault twice whose two lookups disagree counts the wrong number
  of answers: with `[a, a, b]`, `b` gets the balance of `a` (`MainSDK.ts:424-461`).
  `EntriesAreOwn` has `LookupsAgree` as a premise.
* A shutdown during a batch makes it throw a `TypeError` (`MainSDK.ts:439`).
* Discovery that failed in part gives an incomplete list and no `src20Error`.
* The read of a given contract turns any failure into a balance of zero (`MainSDK.ts:832`, `867`), which a caller cannot
  tell from an empty account.

History:

* With a registered viewing key, the SRC-20 entries of types `src20` and `all` leave out what the vault received before the
  registration, or under another key (`history.service.ts:200`, `223`); without the key they are listed,
  with an amount of zero. The newest entry may be one of them.
* Whether a page has the key is found out for each page, and a failure is only logged (`MainSDK.ts:353-363`). A client that loses the key
  between two pages of type `src20` goes on without a loss, by logs. One that gains it, or has it
  again, goes on with an offset that counted more than what it counts now, and skips entries; so may one of a pinned
  range or of type `all` that loses it.
* With a viewing key, scans count logs and pages count transfers. An outgoing
  transfer has two logs, so pages come short, and a client that goes on after a short page may skip one.
  `NoHoles` and `ShortPageIsLast` hold of a client that stops there, as the model's does.
* The merged history (`type=all`) applies `offset` to each source before merging
  and drops what does not fit on the page, so later pages skip entries; its SRC-20
  sources ignore `fromBlock` and `toBlock`; without an API key it lists ERC-20 logs only.
* The explorer's page gives its own length as the total: `hasMore` is always false.
* When the explorer fails and answers again between pages, offsets have counted logs for a while and then count
  transactions, of which there are fewer: entries are skipped.
* The explorer gives at most 100 rows for a window of 99,000 blocks, and nobody asks for the rest (`explorer.service.ts:299`). In
  the discovery of contracts (`explorer.service.ts:446-447`, `457-458`) more than 100 logs of one contract in a window hide another, although no
  request failed; the token balances leave it out without an error.
* `getNativeTransactions`, which nothing calls, tells rows apart by hash and so drops internal transfers of a listed transaction.
* With `stopAtBlock` above the chain's height no window is requested, and the reported range
  is a block that was not looked at (`ReportedRangeIsComplete` has this premise).

## Not modelled

* Cryptography (key derivation, AES-GCM, ECDSA, address hashing): injective
  functions, or left out. With it the decryption of listed amounts and the cached TEE key, on which nothing else depends.
* Formatting, patterns of ids and addresses, logging, swagger, package data: no state.
* `initConfig`, the merging of configurations and `resetConfig`: only users of the library call them, and
  `MainSDK` gets its settings as arguments.
* Functions that no other part and no route uses: `estimateTxFee`, `buildUnsignedTransaction`, `getNativeTransactions`,
  `getSrc20Transactions`, `FireblocksService.broadcastTransaction`, `waitForReceipt`, most of `helpers.ts` and `schemas.ts`.
* Chain reorganisations, and nodes that answer from different heights.
* Several processes sharing a vault: the nonce race is the same as between
  calls of one process; `vaultData` is not shared.

## Plan

Written so far, in this order: `VaultSession`, `Erc20Transfer` with
`TransferPromise`, `RawSigning`, `WindowScan` with `LogScan`, `HistoryPages`,
`BatchBalances`, `TokenBalances`, `SdkLifecycle`, then shielded
transfers in `Erc20Transfer`, dates and the explorer's failures in `HistoryPages`, `RestApi`, the proofs of safety,
`ScanPromise`, `Balances`, the proofs of what lies beneath the liveness properties, then pages that lose their viewing
key, entries that lose their keys, and windows that the explorer cuts off in the discovery.

Left of the model: the amounts of a listed transfer with its token's details. The existing runs stay few: a new module takes its instance into the run
whose question it shares.

Left of the proofs: that the steps counted above are enabled until the end, and the leads-to properties that follow
under fairness. Of type `all` the later pages have no property that holds, see Findings.
