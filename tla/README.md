# evmsec in TLA+

evmsec watches cross-chain bridges and contract authorities on EVM chains. It
never signs anything: all it does is read chains over RPC, judge what it read,
and tell somebody — by an exit code, a report, a row on a board, an alert. It is
correct if what it tells is true, is told once, and is told at all, although

- the chains move while they are being read, each at its own pace,
- many reads are under way at once, and any of them may fail for good,
- requests, timer ticks and signals come in while a sweep is waiting, and
- the long-running process is restarted, or dies, between any two writes.

These modules model that part of the program, check it with TLC on small
instances, and prove the most important results with TLAPS for every size.
Paths below are relative to `src/` of the repository unless they begin with
`docs/`, `scripts/` or `README`.

## 1. The system

| Component | State | Operations | Interacts with |
|---|---|---|---|
| Watchtower monitor (`serve/monitor.ts`, `commands/serve.ts`) | `sweeping`, `rerun`, `failing`, `last` | start, sweep, stop | reads routes from the registry and the store; appends observations and alerts; calls `checkAll`; posts webhooks; broadcasts over SSE |
| Watchtower store (`serve/storage.ts`) | ring and log of observations per route, ring and log of alerts, `watches.json` | load, appendObservation, appendAlert, addWatch, removeWatch | called by the monitor and by the API, in one thread |
| Watchtower API (`serve/server.ts`, `api/`) | SSE clients | GET status, history, alerts, watches; POST and DELETE of a watch; the event stream | calls the store, asks the monitor for a sweep, greets and feeds the tabs |
| Dashboard (`serve/ui.ts`) | a tab's status and alerts, its event stream, failures in a row | first load, frames, reconnect and refresh, polling | the API, over answers that come in any order |
| Solvency command (`commands/solvency.ts`, `solvency-core.ts`, `usd-core.ts`) | `state`, `ratios`, `stop` of the watch loop; the feed cache | one-shot check, `--watch`, `--since` bisection, prices | worker pool, block alignment |
| Reads (`lib.ts`) | the shared index of a pool, the header cache | mapWithConcurrency, withRetry, getBlockCached, blockAtOrBefore, firstBreachBlock, enumerateRoleHolders, selectorsPresent | every command |
| Authority monitoring (`commands/authority.ts`, `authority-watch-core.ts`, `checks/onchain.ts`) | the baseline file; `state`, `stop` of the watch loop | snapshot, append, check, watch | worker pool; other processes on the same file |
| Contract checks (`checks/`, the `*-core.ts` classifiers) | none across checks | seven checks, each a series of reads and a classification | worker pool, providers, Sourcify and Etherscan |
| Audit commands (`commands/audit.ts`, `audit-bridge.ts`, `deps.ts`, `mcp.ts`) | the reports so far, the exit code | assess each target, aggregate, fail the build | contract checks, solvency |
| Settlement (`commands/settlement.ts`, `settlement-core.ts`, `discovery-core.ts`, `diagnose-core.ts`, `protocols/`) | the order, the logs found so far, the receipt | decode the intent, scan for the fill in chunks, verify it, diagnose | log scans of a chain that goes on |
| Oracle hygiene, message proofs, post-quantum readiness | the few reads of one verdict | one-shot verdicts | single reads |
| Command line (`index.ts`) | the exit code | dispatch, errors to exit code 1 | every command |
| Configuration, rendering, published status | static or display only | — | — |

What is hard in it, and what each part has to get right:

- **Monitor.** A sweep waits twice (for readings, for each webhook), and
  anything may be asked of the process meanwhile. A sweep asked for during a
  sweep must be neither dropped nor overlapped; every change of status must be
  alerted exactly once, also across a restart, which has to rebuild the failing
  map from the store; what the API serves must be what the store holds.
- **Store.** An acknowledged watch must survive, a deleted one must not come
  back, whatever file write the process dies in.
- **Reads.** Results must land in their own slots, each item must be worked on
  once, a failure must reach the caller and no other, retries must end.
- **Alignment and bisection.** Binary searches over chains that go on growing,
  sharing a cache: they must end, and must return the block they are named for.
- **Measurement.** Reserves on several chains and the supply on another are
  read at different moments; a sound bridge must not look broken, nor a broken
  one sound.
- **Watch loops.** The same alert discipline without a store, and a signal must
  end them wherever it comes.
- **Authority.** A series of reads of an account that may change in between, of
  which any may fail: a clean diff must mean an unchanged account. And a file
  that several processes rewrite in place and die over: a clean check must mean
  that everything recorded was compared.
- **Dashboard.** Frames come in order, answers in none, and the stream breaks:
  a tab must catch up, by one way or another, and show no alert twice. An answer
  holds fifty alerts, the stream sends every one.
- **One-shot verdicts.** Each is put together from reads of a chain that grows,
  replaces blocks, rejects log ranges: exit code 0 must mean what it says.
- **Checks and audits.** A failed read must not make a dangerous contract look
  harmless, nor a harmless one dangerous, and whatever is found must end in the
  exit code of the build.

`PROJECT.json` lists all components and, under "hazards", the forty places
where this goes wrong if it goes wrong, each with the properties that watch it,
or with the reason why none does.

## 2. The modules

### Alerts

`AlertLedger` is the abstract promise of everything in evmsec that alerts:
statuses are observed, every change is told exactly once, and nothing new is
observed while a change is untold. The monitor and the solvency loop are shown to
implement it; of the authority loop `AlertsTellStatus` says the same.

`SolvencyCore` holds the pure part they share (`solvency-core.ts` and
`checkRoute`): verdicts, ratios in the precision the code keeps,
`isRouteFailing`, `isBreach`, `computeTransitions`.

`Watchtower` is the server process. One variable per field of the code (`pc`
stands for `sweeping` together with the place inside `sweep`, `queue` for the
alerts not yet sent, `board` for the snapshot the API serves), the disk beside
the memory, and five history variables for the properties. Node runs one
callback at a time, so ticks and requests come only where the code awaits; a
crash comes anywhere, so the stretches between awaits are cut at every disk
write. `Boot` is the store's load, the monitor's constructor and its first
sweep; `PostWatch` and `DeleteWatch` are the whole handlers, the sweep they ask
for included. `Faults` switches on crashes, torn writes of `watches.json`,
appends that fail, and a registry that cannot be read. Per route the store is
reduced to its newest reading.

`StoreLog` is what is reduced there: one route's ring, its file line by line,
the line counter and the compaction, with a process that dies inside a write. A
line cut short stays without its newline, and the next append continues it.
`WatchtowerDisk` puts the two together. `DiskSpec` checks each on its own in one
run; `TornSpec` gives the monitor the torn line of the log.

`SolvencyWatch` is `solvency` over its routes, once or with `--watch` and
`--delta`: checks that settle in any order, each priced through a cache of feed
promises, then report, transitions, alerts, drops, and a sleep that a signal
ends. `AuthorityWatch` is the loop of `authority watch`.

### The dashboard

`Dashboard` is one tab and what it talks to: the SSE hub with its greeting and
broadcasts, the two GETs, and sweeps told by their number. The stream keeps the
order of its frames; answers overtake them and one another; the stream breaks,
requests are lost, the server restarts. `Newest` is what `/api/alerts` answers:
the latest `AlertsLimit` alerts (`serve/server.ts:210`, `serve/storage.ts:155`). The
page asks for no other number, and the ring of 200 always has that many. Each
refresh replaces the tab's list by such an answer, so a long list gets shorter;
each alert frame puts one in front, without a limit (`serve/ui.ts:368`).

### Reads

`WorkerPool` is `mapWithConcurrency` over `withRetry`. One step per call
returned, call thrown or backoff ended; `promise` is what the caller awaits.
After a rejection the remaining workers go on, as they do in the code. The limit
may be `NaN`, which `Number(process.env.EVMSEC_CONCURRENCY)` can be.

`BlockAlign` is `blockAtOrBefore` over the header cache: any number of searches
one after another, over every chain up to a bound, while the chain grows and
replaces its head block.

`Bisect` is `solvency --since`: resolving the window, measuring both ends,
`firstBreachBlock`, and the exit code of each way out. What the measurement says
of a block is an arbitrary function of the block, for history does not change.

`CrossChainRead` is `measure`: pin the mint block, align every lock leg to its
time, read balances and supply, in any order. Its environment is a bridge:
deposits that are minted later, burns that are released later, and supply
minted out of nothing.

`RoleEnumeration` is `enumerateRoleHolders`: by index over OpenZeppelin's set,
where a removal moves the last member into the gap, or from the logs, of which
a node may leave some out, while the role is granted and revoked.

`AlignedRead` has the three side by side; `Solvency` puts options and selection
of routes in front of `SolvencyWatch` and `Bisect`.

### Authorities and contracts

`AuthorityCapture` is `captureAuthoritySnapshot` read by read and its diff:
first a baseline, then a check, while the account changes at any moment and
any read may fail. `BaselineFile` is `snapshot` (`--address`, `--route`,
`--append`) and `check` over one file, by several processes that may be killed
at any step; rewriting a file empties it first. `AuthorityWatch` runs on the
same file. `Authority` composes them: `grain` says whether the reads of one
address are looked at or the processes over the file.

`CheckCores` holds the classifiers, `ContractChecks` the seven checks as
functions from a contract and the set of reads that fail to a severity,
`ContractAudit` the commands that run them: which target when, what ends a
command early, the overall severity, and the exit code. A contract is described
by what can be read of it (selectors, owner, role holders, proxy) and by how its
powers are really gated, so that "the report is right" can be said at all.

### One-shot commands

`CommandLine` is `index.ts`: the word, its handler, and the exit code of what
the handler throws. Four commands are modelled under it, and `OneShots` is one
process that runs one of them.

`Settlement` decodes an intent of any of the three protocols, picks the
destination chain, scans its last blocks in chunks of which the node may reject
some, discovers the fill, reads its receipt, then time and head together, and
gives a verdict; or it diagnoses what became of the intent. The chain grows and
replaces its newest blocks all the while. `OracleHygiene` reads round, clock and
sequencer while all three move. `MessageProof` asks the contract of a layer
while messages are executed and guardian sets replaced. `PqReadiness` walks
bytecode; the walk, the window of remembered pushes and the selectors are
operators, compared with definitions by instruction boundaries.

### How they compose

By what they take as given: `Watchtower` and `SolvencyWatch`
take a reading per route as one step, because `WorkerPool` shows that the sweep's
results are complete and in order; `CrossChainRead` takes "the state as of a
time" from `BlockAlign`; `Bisect` takes a measurement from `CrossChainRead`;
`BaselineFile` takes a capture from `AuthorityCapture`; `ContractAudit` lets the
checks of a target settle together, because nothing passes between them, and
takes role holders from `RoleEnumeration`, entry points from the scan in
`PqReadiness`; `Dashboard` takes sweeps from `Watchtower`. Where modules stand
side by side in one run (`WatchtowerDisk`, `AlignedRead`, `Solvency`,
`Authority`, `OneShots`), the initial state says which is looked at, and the
rest stays as it began.

## 3. The runs

| Run | What it shows | Bounds |
|---|---|---|
| `watchtower` | Without faults: the last alert of every monitored route tells its status and none repeats; between sweeps the board is the store and the failing map is what a restart would rebuild; a new watch reaches the board; the monitor implements `AlertLedger`. Beside it, one file line by line: a restart loads the newest observations, but for two per crash inside an append. | one registry route, one watch with a stricter threshold, four readings; a ring of five, compaction after six lines, fourteen observations, two crashes in appends |
| `watchtower_faults` | With every fault: no repeated page, no acknowledged watch lost, no deleted watch back. | two watches, two readings |
| `watchtower_ghost` | **A finding.** A watch deleted while its check is awaited comes back as a row without an owner. | one route, one watch |
| `watchtower_torn` | **A finding.** The reading written behind a torn line is lost to the next restart, which pages again for a breach already paged. | one route |
| `worker_pool` | Complete, ordered, one worker per item, failures reach the caller, everything settles. | four items, three workers, two retries |
| `aligned_read` | The search returns the last block at or before its target, through any cache, until a reorganisation, and every probe halves the interval, also after one. No false breach, no missed breach. Role holders are enumerated in full unless one is removed meanwhile or logs are left out. | five blocks, three times, one reorganisation; two legs, six instants, three units; three accounts, three grants or revokes |
| `solvency` | Once or watching: what is reported is what was measured, whatever the feeds do; alerts and drops are told exactly, the last sweep before a stop included; a signal ends the loop; it implements `AlertLedger`. Searching: a located breach is an onset, and exit code 0 means that both ends are backed. | two routes that share a feed, an ad-hoc one, five readings; seven blocks, every history |
| `authority` | A quiet check is exact when every read was answered, and vouches for the signers whatever failed; no snapshot names an authority the account never had. A clean check compared everything recorded, whoever was killed over the file; a watch alerts on exactly what it captured. | thirteen accounts, two modules, pages of one, two changes; two addresses, two states, two processes, three commands, two changes |
| `contract_audit` | A power of a single key is never reported ok; a critical report is real; a finding fails the build. | eighty contracts, up to two failed reads in one check, one or two targets |
| `contract_audit_beacon` | **A finding.** Proxies behind a beacon are not followed. | the beacon variants |
| `one_shots` | Exit code 0 of `settlement` is earned by one transaction, a final fill stays, a discovered one suffices, a diagnosis is true; of `oracle-hygiene`, by a feed that was usable; of `message-proof`, by a contract that attested; `pq-readiness` finds the vulnerable calls and no others. | three blocks of six contents, chunks of two, one replaced block, sixteen invocations; a clock of three; code of up to four bytes of six kinds |
| `dashboard` | A refreshed tab that has read its frames shows the server's snapshot and its latest alerts without a gap; news reaches the tab. | two sweeps, two faults, answers of one alert, any number of failures to connect |

Every property has a mutant: an operator written beside the code's own (its
comment says "Mutant") that changes it in the way a plausible bug would, and
that makes TLC find the property violated under the same configuration.

Why the bounds are enough. One registry route and one watch are the two kinds of
route there are; routes meet only in a sweep's batch and in the alert queue,
which two routes fill in every order, and the fault run has two watches because
`watches.json` is written as a whole. A ring of five is one more than two
crashes can lose, and fourteen observations compact its file more than once.
Three workers over four items make one worker take a second item while the
others are busy, fail or sleep. Pages of one module make a list of two modules
span pages and end at the sentinel within the three that are read.
Five blocks with equal timestamps give both middles of an interval and ties. Six
instants are one more than a deposit, its mint, a burn and its release need.
Three holders let a removal move a member across an index already read. Two
processes and three commands let a snapshot be killed half-way, another run over
what it left, and a check follow. Contracts vary around a sound one in each way a
check looks at, since checks do not influence one another. Three blocks over
chunks of two give a full chunk, a short one, a rejected one and a block that
moves between them. Four bytes hold a push, its data and a call; the longer codes
of `MCOneShots` add selectors and the arguments of a precompile call. Two sweeps
let an answer of the first come in after the frame of the second, and two faults
let one happen while another is repaired. Answers of one alert make a refresh after
the second alert leave out the first, while a tab that got it by a frame has both.
The proofs of section 5 lift many of these bounds.

Bounds in guards: `MaxStored`, `MaxCrashes`, `MaxBlock`, `MaxTime`, `MaxInstant`,
`Reorgs`, `MaxUnits`, `MaxRoleMoves`, `MaxMembers`, `MaxChanges`, `MaxCommands`, `MaxDrift`,
`MaxClock`, `MaxSweeps`, `MaxFaults`, `MaxFaulty` (the number of targets that
meet a failed read); one `authority watch` at a time, and no command begun beside
one that has loaded its baseline; one unanswered poll of a tab at a time.
`PageSize`, `MaxPages`, `SCAN_CHUNK`, `RING`, `COMPACT_AT`, `AlertsLimit`, `Recent`
and `DelegationSize` are the code's own numbers (10, 20, 10000, 500, 5000, 50, 10
and 23), made small. `MaxDepth`, how deep a reorganisation goes, is the chain's.

Deadlock is checked in `watchtower`, `watchtower_ghost` and `watchtower_torn`.
Elsewhere a stop is real: a command ends, a signalled loop stops, the modelled
time runs out, or a torn `watches.json` keeps the process down until it is
repaired.

### What the properties assume

- `NoFalseBreach` is run with `LockLag = 0`: the node of a lock chain is not
  behind the instant the mint block names. With any lag it fails, because
  `blockAtOrBefore` cannot tell a lagging node from a quiet chain and answers
  with the node's head. The mint chain's node may lag (`MintLag = 2`).
- `HighestAtOrBefore` is stated until a block is replaced. The header cache is
  never invalidated, so nothing better holds afterwards.
- `HoldersInFull` vouches for an enumeration by index only if no holder was
  removed meanwhile, and for one from the logs only if the node left none out
  (`revoked`, `capped`).
- `SingleKeyNeverPasses`, `CriticalIsReal` and `FindingFailsTheBuild` are stated
  of contracts for which `Presumed` holds: what the scanner takes for granted,
  namely that a gate shows in the selectors and that a contract with
  AccessControl does not gate by its owner. Beacon proxies, and roles whose
  enumeration silently missed a holder, are excepted by name.
- `AlertsTellStatus` and `ImplementsAlertLedger` of `Watchtower` are stated
  without faults. With them an alert can be lost: a crash, or an append that
  throws, after the status was recorded and before it was told. What holds under
  faults is that none is repeated, as long as a crash does not tear a line
  (`watchtower_torn`).
- `RestartKeepsHistory` allows two observations per crash inside an append (the
  line cut short, and the one continued behind it), and nothing is promised of a
  crash inside a compaction, which empties the file first (`gutted`).
- `CleanCheckVouchesForAll` is stated while no two processes are between reading
  and writing the file at once (`overlapped`): nothing in the code keeps them
  apart, and the later one drops what the earlier one appended.
- `QuietCheckIsExact` is about accounts whose modules fit into the pages that are
  read, twenty of ten in the code: a longer list ends without a word
  (`checks/onchain.ts:133`). The proof assumes it as `Paged`.
- `DiscoveredFillSuffices` and `DiagnosisHolds` are stated until a block is
  replaced: a transaction that moves between two log ranges is counted twice.
  `FinalIsFinal` excepts a reorganisation between the receipt and the head
  (`shaken`).
- `CleanFeedWasUsable` excepts the verdict within the grace of a restarted
  sequencer, which does not look at the feed, and a node without a latest block,
  whose time counts as 0.
- `TabIsExact` is stated of a tab whose refresh nothing was broadcast during
  (`caughtUp`), `NewsArrives` of what was taken over at least once (`newest`): an
  answer that is out of date stands until the next sweep. Of the alerts it says
  that the tab has the latest, newest first, with no gap and no double: all there
  are, or at least as many as one answer holds. Which older ones the tab still
  has depends on when it was last refreshed.
- The reads of an Etherscan answer, a mailbox, a Safe or a clock are of things
  outside the repository. `VerifiedWasAttested` says that the contract attested
  the message at some instant, for a mailbox is read at the head
  (`message-layers/hyperlane.ts:32`). `Behind` pages through modules as a Safe of
  version 1.4 does; of older ones the module a page names as the next start is
  left out by the page that begins there (`checks/onchain.ts:133-141`), so
  `QuietCheckIsExact` does not hold of an older Safe with more than ten modules. A
  replaced block of `Settlement` keeps its height's time, so that no
  reorganisation between a receipt and its block's time (`commands/settlement.ts:70`)
  changes a deadline's verdict.
- The thresholds of `Watchtower` are constants: a restart with another
  `--min-ratio` is not covered. A write that throws while the process lives on is a
  step for the appends of a sweep (`appendFails`), not for `watches.json`
  (`serve/storage.ts:184-186`), where it leaves memory and file apart until the next
  change, nor for the single file of `StoreLog` (`serve/storage.ts:123`).
- In the run of `AlertsTellStatus` an address has two states, so that one which has
  drifted can only drift back; the theorem `WatchTellsStatus` is about any number.

## 4. Fairness

`Watchtower`, `Solvency` and `WorkerPool` state weak fairness of the
process's own steps, and of nothing else: not of the timer (a new watch must
appear without it), not of users, signals or crashes. A step that is enabled is
a promise of Node's event loop to run a callback whose await has settled. Reads
settle because `FetchRequest` has a timeout and `withRetry` is bounded; the
webhook because `fetch` gives up on a silent server — the code itself sets no
timeout there, and while it waits every sweep is only remembered; a sleep
because the timer fires. `WorkerPool` needs fairness per worker, since each
waits for its own call. `Dashboard` needs it per kind of event, for they come
from different parties: requests are answered, answers and frames arrive, a
broken stream is tried again (by EventSource), the poll timer runs, and a server
that has come up, or has an alert out, completes its sweep. A failed connection
may repeat for ever; after the third in a row the tab polls.

## 5. What is proved

Every safety property of the runs, as theorems that hold for every value of the
constants that satisfies the modules' assumptions. Seven modules of proofs
stand beside the modules they are about; an eighth, `RecursionLemmas`, holds what
they share: that a recursion over the numbers up to a bound has a solution, and
that sums over finite sets split and grow with the set. The library's induction
theorems take an operator as a parameter, which the provers cannot instantiate;
here induction is stated for a set of numbers, or of subsets of one finite set,
and recursive definitions in the modules proved about are functions.

### Alerts

`WatchtowerProofs`, about the process of `Watchtower` and the file of `StoreLog`:

- Under any choice of faults: types, with `PhaseInv` (which of the sweep's
  variables are empty in which phase); `AckedWatchesMonitored` and
  `DeletedStaysDeleted`, from `WatchInv`, which ties the list in memory to the one
  on disk.
- `FailingMatchesStore`, if appends do not fail, from `FreshInv` (a watch id that
  was never handed out has left no reading and no alert), `ReadInv` and `StoreInv`
  (in each phase of a sweep, how map, batch and store differ).
- `AlertsTellStatus`, without faults, from `AlertInv` (a queued alert says what
  the map says and the last alert does not; a route without one is up to date);
  and the refinement of `AlertLedger`: initial states map to initial states, every
  step to a step or a stutter.
- `NoRepeatedAlert`, again under any faults, where `AlertInv` fails, because an
  alert may be lost. `PagedInv` says what remains: where the store, or the failing
  map, has another status for a route than its last alert, that status was stored
  after the alert. `QueueInv` says that a queued alert is about the reading that is
  stored, and that if it is of the kind of the last one the other status came
  between them.
- `BoardIsStore`, if nothing fails but by crashes and torn writes. An append that
  fails leaves a board that is newer than the store.
- `RestartKeepsHistory`, for every size of ring and file. `Holds` bounds what a
  sequence of observations lacks of the newest ones: nothing but what crashes
  lost. `FileInv` says it of what the file parses to, `RingInv` of the ring, and
  the two differ by what is owed: a crash inside an append loses one observation
  if the line was cut short, and a second when the next append continues it.
  That parsing a file with one more line yields one more observation, or none, is
  proved by induction over its lines.

`SolvencyProofs`, about the search and the loop behind the same options:

- Of `Bisect`: types, `LocatedIsOnset`, `ExitZeroMeansBacked`, `ProbesHalve`, from
  `SearchInv`: the interval has a healthy and a broken end. Nothing is assumed of
  the history between them. `CommandSearches` carries them over to the command.
- Of `SolvencyWatch`: `ToldAtRest`, from `AlertInv` and `DropInv` (what is told,
  what is queued and what has been measured add up in every phase);
  `PricesStayAside`, from `PriceInv` (what is reported is what was measured, and a
  price shown is the one its feeds' cached answers make); and the refinement of
  `AlertLedger`.

### The dashboard and the pool

`AsyncProofs`, about two things that live off promises:

- Of `WorkerPool`: types, `ResolvedInOrder`, `OneCallerPerItem` and
  `FailureReachesCaller`, from an invariant that says of every index below `next`
  that it is in its slot or with exactly one worker. That a resolved map is
  complete needs `Limit # NaN`; with `NaN` there are no workers.
- Of `Dashboard`: `TabIsExact`, for any number of sweeps and faults and any
  `AlertsLimit`. `StreamInv` says which answers and frames may be under way, and
  `TabInv` that the frames still in a clean tab's channel, applied to what the tab
  shows, give the server's snapshot (`StatusThrough`) and its latest alerts
  (`AlertsThrough`, where `UpTo` says how many of them are needed).

### Reads

`AlignedReadProofs`, about the three subjects of `AlignedRead`:

- Of the search: types and `ProbesHalve` unconditionally; `HighestAtOrBefore`
  from `SearchInv` (the lower end is early enough, everything above the interval
  too late) and `CacheInv` (a cached header is the chain's).
- Of the measurement: `NoFalseBreach` and `NoMissedBreach`, for any legs and
  bridge, if `LockLag = 0` (see section 3). `WorldInv` relates deposits, burns and supply
  over time and says that the past does not change; `ProbeInv`, that what has been
  read of a leg or of the supply is its value as of the pinned instant.
- Of the enumeration: `HoldersInFull`, from `ContractInv` (whoever stayed is in
  the contract's list, and everyone in it has a log) and `EnumerationInv` (by index,
  unless somebody was removed, whoever stayed is among the first `count` and the
  places already asked about are in the answer; by logs, unless one was left out,
  whoever stayed is found or still to be asked about).

### Authorities and contracts

`AuthorityProofs`:

- Any number of processes over one baseline file, any of them killed at any step:
  types; `CleanCheckVouchesForAll` from `VouchInv` (what the file holds covers
  what was recorded, at most one process is writing, what a writer is about to
  write and what a check has loaded cover what they vouch for); and the watch's
  `AlertsTellStatus` from `WatchInv` (there is one watch, and its queue holds
  exactly the changes it has not told). Both rest on `RunInv`, which says which
  command may be at which place.
- One capture, read by read: `NoPhantomAuthority` from `SeenInv` (whatever has been
  read, the account had while it was captured), for an account that changes as it
  likes; `QuietCheckIsExact` from `CaptureInv`, which says of an account at rest
  that what has been read so far is a part of its snapshot (`ReadSoFar`). The
  second theorem assumes that the modules of every account fit into
  `PageSize * MaxPages`: beyond them the code ends its list without a word.

`ContractAuditProofs` — `SingleKeyNeverPasses` and `CriticalIsReal` for every
contract, delay and set of failed reads. The invariant `OnFile` says that what
is on file about a target is what the checks make of its contract under the
reads that failed; the rest is one lemma per check and direction.
`FindingFailsTheBuild` adds `VerdictInv`: once a command is done, a critical report
on file has made its severity critical and its exit code 1.

### One-shot commands

`OneShotsProofs`, about one process, whatever command it runs:

- `CleanFeedWasUsable` from `OracleInv`, which follows the two reads through either
  order and the sequencer's last outage through the third.
- `VerifiedWasAttested` from `AttestInv`.
- `FinalIsFinal` from `FinalInv`: a fill that was in the chain with `MaxDepth`
  blocks on top of it is still there after any growth and any reorganisation of at
  most that depth.
- `SettledWasDelivered` from `PromiseInv`, which follows the intent's outputs from
  the decoding to the verdict.
- `DiscoveredFillSuffices` and `DiagnosisHolds` from `SearchInv`. `ChainInv` puts
  every transaction into one block at most until one is replaced; `ScanInv` says
  that what was found is in the chain, and that everything in a range already
  searched was found unless the range was rejected; `PickInv`, that the fill
  picked suffices and none found before it does. Sums over what was found are
  compared with sums over the chain by `RecursionLemmas`.

- `VulnerableExactly`, of the classification of any bytecode. `WalkFollows` and
  `WalkIsBoundary` show by induction over the bytes that the walk stops exactly at
  the boundaries of instructions; `WindowIs`, that counted from its end the window
  holds the values of the last small pushes; `ScanFindsCalls` puts the two
  together. What a push's value is stays abstract: both sides mean the same.

All rest on `ProcessInv`, which says that an exit code is the end; `ModeInv` says
that only a settlement is diagnosed.

### Only model-checked

The liveness properties (`WatchAppears`, `StopsOnSignal`, `Settles`,
`NewsArrives`) are temporal under fairness and beyond the prover; the bounds of
section 3 are what they are checked up to. So are the findings of section 6,
which are single executions.

## 6. Where the code and its documents part

Three are runs that end in a violation:

- `watchtower_ghost`: `sweep` stores the readings of the batch it captured
  before the await (`serve/monitor.ts:107`). A watch deleted meanwhile has its
  ring and file recreated, although `serve/storage.ts:176-177` drops them
  precisely so that no ghost row stays on the board or reappears.
- `watchtower_torn`: `appendObservation` (`serve/storage.ts:123`) does not ask
  whether the file ends in a newline. The reading written behind a line that a
  crash cut short is lost with it, so the second restart seeds the monitor from
  an older one and pages again; `serve/storage.ts:11-12` and
  docs/watchtower.md:363 say that restarts do not re-alert.
- `contract_audit_beacon`: `resolveImplementation` (`checks/onchain.ts:37`) does
  not read the beacon slot, so `mint-authority` scans the proxy's own code and
  reports that nobody can mint; README.md:442 says it follows the proxy.

Others were met while modelling. The properties state what does hold.

Solvency and the reads under it:

- README.md:353 describes `--delta` as a drop between polls. A failed poll
  erases the baseline (`commands/solvency.ts:145`), so a drop across an outage
  is not told.
- docs/watchtower.md:343-345 promises one moment for all legs; see `LockLag`
  above.
- `lib.ts:174-182` calls an enumeration by index exact; a revoke during it can
  hide a holder who held the role throughout.
- `--all` over an empty registry exits 0.

Authority:

- README.md:505 promises that `authority check` exits non-zero on any drift,
  modules included. A module page that cannot be read ends the list silently
  (`checks/onchain.ts:141`), so a module behind it is not seen; what
  `QuietCheckIsExact` says of modules takes every read to be answered.
- `authority-watch-core.ts:7-11` counts a transfer of ownership among what is
  watched. A route's authority is asked for once, at the snapshot
  (`commands/authority.ts:168-174`), and left out silently if it cannot be read
  (`commands/authority.ts:108`); one transferred later is not followed.

Dashboard:

- docs/watchtower.md:365-367 and `serve/ui.ts:379` say that a reconnected tab
  cannot be stale. The answers of its refresh come in among the frames, and one
  that is out of date overwrites a newer snapshot until the next sweep, or
  doubles or loses an alert. And each refresh cuts the tab's alerts to the newest
  fifty (`serve/server.ts:210`), whatever it had before.
- docs/watchtower.md:422-423 and README.md:327-328 say that a serverless
  deployment falls back to polling. Where `/api/stream` answers 404, EventSource
  gives up at the first error, and the third that `serve/ui.ts:374` waits for
  never comes.

One-shot commands:

- `oracle-core.ts:84-86` ranks the grace of a restarted sequencer behind every
  flaw of the feed, and README.md:558-561 lets a stale or non-positive answer fail
  the build. The code asks for the grace first (`oracle-core.ts:101-111`) and
  returns: within it a dead feed exits 0. Without a latest block the time is 0
  (`commands/oracle-hygiene.ts:48`) and any round fresh; and a round posted
  between the two reads can make a sound feed look stale.
- README.md:651-653 says that an underfill exits non-zero. An amount below the
  expected one is a warning and exits 0 (`settlement-core.ts:112-120`). One
  transfer can satisfy two outputs, and one of value zero counts as delivery.
- `--dest-chain` together with `--fill-tx` may name a chain on which the intent
  has no output: nothing is compared, and the exit code is 0
  (`commands/settlement.ts:48`, 132-133).
- `--scan-blocks abc` scans nothing, and a diagnosis then says that the intent
  was never filled.

## 7. Not modelled, and why

The wording and layout of reports, SARIF, and the printed tables; static data
(chains, the bridge registry, the compiler bug table) and its validation; the
scheduled script that publishes the status; fixtures for tests: there is no order
and no state in them. Of the Watchtower API, routing, body parsing, the token and
the serverless adapter; of the dashboard, its layout, the watch and route views
and the exposure scan, which keep nothing in the tab's memory of status and
alerts, or are one read-only pass over the worker pool. Of prices, the arithmetic
and the format. Of `solvency`, the reserve report. Of message proofs, the bytes
of a VAA, which the contract verifies. `PROJECT.json` gives the reason for each
component.

Three hazards have no property. A concurrency that is not a number
(`lib.ts:154`) makes a map resolve to an array of holes at once; `WorkerPool` takes it
as a value of `Limit`, and its properties hold of every other one. A lock chain
whose node lags (`lib.ts:346`) is read at its own head; `CrossChainRead` states
its properties without such a leg. An authority is resolved once, at the
snapshot (`authority.ts:108`); what changes hands afterwards is out of sight of
the file, and so of any property about the file.

## 8. What is left

In the order in which it seems worth doing:

1. The route view's race with the user's navigation (`serve/ui.ts:279`), as a
   second subject of `Dashboard`.
2. The serverless adapter over a store that several instances share.
3. Proofs of what liveness rests on and is itself safety: that a wait always has an
   enabled step that ends it.
