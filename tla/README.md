# Large File Bridge: a TLA+ verification development

TLA+ models of the parts of Large File Bridge whose correctness rests on the order
in which things happen, model-checked with TLC on small instances, and theorems
about them, for every value of the constants, checked with TLAPS.

Paths below are relative to `src/code/packages/backend/src/` unless they begin with
`pm/` (the product specifications, `src/pm/`). `PROJECT.json` holds the same
information for machines: which lines each definition stands for, the
runs, the mutants, the hazards and the theorems.

Contents: [the system](#1-the-system) ·
[inventory](#2-inventory) · [modules](#3-modules-and-how-they-follow-the-code) ·
[runs](#4-what-the-runs-check) · [bounds](#5-bounds-and-why-they-are-enough) ·
[fairness](#6-fairness) · [proofs](#7-what-is-proved) ·
[findings](#8-disagreements-between-code-and-documents) ·
[not modelled](#9-what-is-not-modelled) · [plan](#10-plan)

## 1. The system

Large File Bridge is a local web application. A TypeScript backend runs on every
computer of a user; a React frontend talks to it. Two networks carry the user's files:

- **git** carries small text: per-repository manifests, tombstones of deleted files, ledgers,
  sidecars. The backend mirrors this *tracking state* into a "backbone" repository and
  runs pull, commit and push cycles on it;
- **IPFS** (an external Kubo daemon) moves the large files between the computers.

Beside synchronisation the backend runs long jobs on the files (transcribe, describe
with a vision model, OCR, compress). Jobs are queued by the thousand, survive restarts
and share the machine's memory.

One computer runs one backend, one Node process, so nothing is preempted: a handler
runs until its next `await`. The hard behaviour comes from

1. **continuations interleaving between awaits**: git cycles of several storages, mirrors cut in
   slices, the two `finally` blocks of a job, settings that change between two scans;
2. **deaths of the process** between two appends or inside one, and the boot that follows;
3. **a second backend** started while the first one stops or hangs;
4. **other computers**, which push first or write the same manifest.

## 2. Inventory

The state, the operations and the hard behaviour of each part. "What makes it correct" is
the property the project states or, for a part not modelled yet, the one it should state.

| part | state | operations | hard behaviour | what makes it correct | module |
|---|---|---|---|---|---|
| job queue (`modules/jobqueue/jobqueue.service.ts`, `queue-journal.ts`) | pending and running tasks, keys in flight, slots per bucket, heap reservations; `queue.jsonl` | enqueue, pump, settle and release, stop a batch, halt on an open circuit | death inside an append, admission against changing budgets, two `finally` blocks | accepted work is never lost nor repeated; slots and memory are exact; FIFO; everything settles | `JobQueue` |
| restart survival, boot order (`queue-restore.ts`, `main.ts`) | what the files hold at a boot; strikes | restore, quarantine, skip, shutdown | poison files, a clean stop that looks like a crash | at most `QUEUE_MAX_ATTEMPTS` runs, over all boots | `JobQueue`, `SingleInstance` |
| processing batches (`batch-manifest.service.ts`, the producers) | manifest on disk, row and retry budget in memory | click, open, settle, trip, stop, restore | three books written in different orders; restarts | the books agree; a row finishes with its last file | `Batches` |
| single-instance lock (`shared/single-instance.ts`) | a lock file with a pid | create, read, wait, remove stale, release | two booters between two system calls | one live backend | `SingleInstance` |
| storage git lock (`modules/git/git-lock.ts`) | per storage: running pass and one successor | `withStorageGitLock` | callers collapse into a queued pass | every caller is answered by a pass that did its work | `GitCycles` |
| worktree gate (`modules/git/worktree-gate.ts`) | per working copy: owner, depth, deferred jobs | enter, leave, re-enter, defer, drain | two storages over one copy; re-entry; deferral while the last owner leaves | one cycle per copy; deferred jobs fire | `GitCycles` |
| git cycles (`modules/git/git.service.ts`, `modules/pin/pin.service.ts`, `modules/storage/owner-propagation.service.ts`) | disk, HEAD and origin of a copy | pull, commit, push, retry after a lost race | failures at every call; someone else commits my text | an answered request is at origin, or the pass reports a problem | `GitCycles` |
| mirror (`modules/storage/tracking-sync.service.ts`, `repo-storage.service.ts`) | passes in flight, deferred repositories | write, abandon, finish, run again | a cycle begins between two slices | lands between cycles; nothing written is forgotten | `GitCycles` |
| deletions ledger (`modules/pin/deletions-*.ts`, `pin.service.ts`) | `deletions.yaml` per computer and at the remote, disk, pins, decisions | delete, undelete, enforce, merge | a deletion said while a pass runs by the ledger it read; a file fetched while it is deleted; merges in any order | nothing is made up, absence lifts nothing, bytes go only where asked, a deletion reaches everyone | `Deletions` |
| sync manifest and pin claims (`modules/storage/manifest-merge.ts`, `tracking-sync.service.ts`, `tools/git-merge-driver.ts`) | three copies of an entry per computer, one at the remote; pins | three merges, the pin pass | claims of others remembered, equal bytes under two CIDs | nobody speaks for another, a withdrawal travels, no fight | `Claims` |
| pull retry and team pass (`modules/pin/pull-retry.service.ts`, `auto-sync-in.service.ts`) | a timer, its due time on disk, a cursor | pull, retry, boot check | restarts that outpace the wait; a cursor read before the pulls; shared transfers | a failed pull is retried, the cursor never passes undone work | `Pulls` |
| artifact delivery (`modules/pin/sync-trigger.service.ts`, `repo-artifact-sync.service.ts`, `shared/net-transient.ts`, `modules/git/push-health.service.ts`) | four kinds of timers, all in memory | write, fire, flush, retry, re-arm, wait for the network | debounce against endless writes; a retry that finds half the work done; callers that collapsed | an artifact in hand stays in hand until it is at origin | `Delivery` |
| persistence lane (`shared/persistence/lane.ts`, `shared/concurrency.ts`, `modules/pin/unit-lock.ts`) | semaphore, coalescer, FIFO locks | acquire, coalesce, run | a call while the same job runs | the answering run began after the call; no slot leaks | planned |
| tracked file and ledger merges (`tracked-file-merge.ts`, `ledger-merge.ts`, `merge-tasks.ts`, `sync-fight.ts`) | policies and ledgers | merge, settle a fight | two writers for ever overwriting each other | convergence, no fight | planned |
| reconciler (`modules/pin/reconciler.service.ts`) | the order of the pin passes | tick, run | - | a pass comes round (assumed as fairness) | planned |
| yaml store (`shared/store/yaml-store.ts`) | documents, one promise chain per file | read-modify-write, atomic replace | two updates of one file | no lost update | planned |
| database persistence (`shared/persistence/*.ts`) | a Postgres mirror of the documents | backfill, boot, migrate | crash inside the backfill | the mirror catches up | planned |
| settings migrations (`config/migration-state.ts`) | what has migrated | migrate once | a crash between the work and its mark | idempotence | planned |
| scheduler, watchdog, self-update (`modules/schedule/*.ts`) | timers, what runs | tick, restart a stuck part | a tick during a run | no overlap, nothing starves | planned |
| file system watcher (`modules/watcher/*.ts`) | watches, recent own writes | suppress, debounce | its own writes come back late | no feedback loop | planned |
| state events (`modules/events/state-events.service.ts`) | versions per topic | bump, poll | throttling | a reader sees the last version | planned |
| ipfs node (`modules/ipfs/*.ts`) | the state of the external daemon | start, stop, pin | start racing stop | one daemon | later |
| store model and units, scanner | derived from manifests and the disk | read, walk | - | - | none |
| runners, videos and media | work of one job; external tools | - | - | - | none |
| web interface, routers, deployment, command line, sidecars | - | rendering, argument checks | - | - | none |

How the parts interact. A router or a producer calls `enqueue` of the **job queue**,
then opens a row and a manifest of **batches**; the queue calls back into them as tasks settle.
The queue and the batches persist through the journal and the manifests, which only one backend
may write: that is what the **single-instance lock** is for. A finished job
writes a sidecar, which makes a **write of the tracking state**; it calls the
**mirror**, which writes in the working copy whenever no **git cycle** holds the **gate**;
cycles are asked for by timers, buttons and pin passes through the **storage lock**. **Artifact
delivery** is who asks again when such a cycle fails. What the cycles carry is merged on arrival:
the ledger of **deletions** and the entries with their **claims**; a pin pass enforces the first and
publishes the second, and the **pulls** go for the files that a team has decided on.

## 3. Modules and how they follow the code

| module | models | extends |
|---|---|---|
| `DurableBacklog` | the abstract promise of the queue: accepted, tried, ended | - |
| `JobQueue` | the queue, its journal, its boots; `ImplementsBacklog` is the refinement | `DurableBacklog` as `Backlog!` |
| `Batches` | the three books of a batch and the producers that write them | - |
| `SingleInstance` | the lock file, one step per system call | - |
| `GitCycles` | lock, gate, cycles and mirror together | - |
| `Deletions` | the ledger, its way between computers, enforcement, pin pass and pulls of a fleet | - |
| `Claims` | one manifest entry on its way between computers, and the pin pass that claims it | - |
| `Pulls` | the button, the team pass, the retry and the transfers they share | - |
| `Delivery` | the trigger, the passes it starts and the timers that start them again | - |
| `MC...` | instances for TLC | the module |
| `..._proofs` | theorems | the module (or another proof module) and `TLAPS` |

Every definition named `...` after a comment `Mutant:` is a plausible bug of the
definition that follows it; it is part of no specification. TLC is run with the
definition replaced by its mutant to see that a property can fail.

### 3.1 JobQueue

State. `pending`, `inflight`, `running`, `active`, `attempts`, `reserved`,
`memoryActive` and `tailChecked` are the module variables of the same names in the code
(`pending` array, `inflight` set, the per-bucket counters, `t.attempts`, the reservation of each task
and their sum, the flag of `healTornTail`). `active` are tasks whose
runner is in progress; `settled` those whose terminal is recorded by the inner
`finally` while the outer one has not released the slot. `journal` is
`queue.jsonl` as a fold reads it: the ids with an `enq` record, the ids with an `end`
record, the highest `try` of each, and whether the file ends in the middle
of a line. Ids are minted in increasing order, so the array of the backlog is a
set and "before" is `<`. `thread` is the handler that runs now; `doomed` and `restoring` are
what is left of a loop over tasks.

| action | code |
|---|---|
| `Enqueue` | `enqueue`: deduplicate by key, cut at the ceiling, append, push, pump |
| `HaltNext`, `StopBatch` | `haltPending`, `haltDoomedTasks`, the Stop button: one `end` record per task |
| `StartNext`, `PumpEnd` | one round of `pump`'s scan: the bucket's cap, its head, the heap reservation, the `try` record |
| `Settle`, `Release` | the inner and the outer `finally` of `runTask` |
| `Crash`, `CrashInEnqueue`, `Stop` | the process dies between two appends, inside one, or is stopped |
| `Boot`, `Quarantine`/`Skip`/`Restore`, `RestoreEnd` | `restoreQueue`: fold, one task at a time, compaction, pump |

A handler that appends once per task takes one step per append, because the process can
die between any two of them. `Faults` switches on I/O failures: `"append"` (an append may
be short or fail, and its caller never hears) and `"read"` (the journal cannot be read). The runs have none of
them; the theorems that hold whatever `Faults` is say so.

### 3.2 Batches

`books` is, per batch, the manifest (`written`, `files`, `outcome`, `end`), the row
(`opened`, `total`, `count`, `finished`) and the tally (`tracked`, `left`, `halts`). `health` is
`batchHealth` with its insertion order, for its eviction. `stage` is the step of the
click that is served: `Click` (the selection), `Enqueue` (the queue's part, with the pump that may
halt tasks), `Open` (`createBatch`, `trackBatch`). The order of the last two depends on the kind of the
producer: compression opens before it enqueues, the others after. `Start`, `Settle` and
`Trip` (the circuit of the vision provider opens) and `StopBatch` come in any order.
`Crash...` forget the memory part of the books. `Mixes` is the set of producer kinds the two batches may have.

### 3.3 SingleInstance

`lock` is the file: which process created it and which pid it holds. `pc` is the
place of each process in `acquire`, `tries` the attempts made. `WritePid` writes to
the descriptor: it changes the file only if the name still leads to it. `Unlink`
removes whatever has the name by then, as `unlinkSync` does. `Signal` is the
read of the release and `Release` its removal; `Exit` ends the drain of `main.ts`. A process is one incarnation;
pids are not reused. Any number of backends may be between two system calls at once.

`racers` and `taken` are history, kept by `Watch` at every step. `racers[p]` are the processes that had read the file, and were about to
remove it, when `p` wrote its pid, and have not acted since. `taken` are the processes whose file was removed by one of their racers, or before
their pid was in it.

### 3.4 GitCycles

`asked`, `stage`, `into`, `running`, `queued` are the lock of each storage (a request runs, is
the single successor, or joined that successor); `busy` and `depth` the gate
of each working copy; `disk`, `head` and `origin` the texts written, committed and pushed in it, and `cleared` those that a pull took off the disk to
be able to merge (`clearBlockingOwnFiles`); `mirror`,
`deferred`, `stale` and `dropped` the mirror of each repository.

| action | code |
|---|---|
| `Ask`, `Leave` | `withStorageGitLock` and its `finally`: the successor starts |
| `SkipPull`, `Pull`, `EndPull` | the first span of a cycle: checkpoint, fetch, merge, or its failure |
| `Merge` | what a merge does to the disk: uncommitted files of the product that block it are put aside or restored from HEAD |
| `Work`, `WorkThrows` | what the pass does between its spans, outside the gate |
| `Commit`, `EndCommit`, `Pushed`, `GiveUp` | the second span: commit, push, or its failure |
| `RaceLost`, `EndRepull` | another computer pushed first: pull again inside the span |
| `Write` | `writeRepoStorage`, which calls the mirror |
| `Abandon`, `Finish`, `FinishOvertaken`, `Fail`, `Rerun` | the continuation of a sliced mirror |

Abstractions. The text of request `r` is the element `r`. Which files block a merge is a choice among those on the disk and not committed; what a merge makes of
committed content is left out. Whether the quiet gate finds a change worth a checkpoint is
a choice of `Checkpoint`. A commit may go on to push with nothing new to
send (a merge commit). A `device` request's write is only logged when it fails, so
`Delivered` does not promise it; nor does it promise a text in `cleared`, which the code quarantines and reports as no problem.

### 3.5 Deletions

One repository on a fleet of computers. `ledger` and `origin` are the tombstones of each computer and of
the remote, a record per path; `disk`, `pinset` and `want` what each computer has and has decided;
`listed` and `marked` the entries of the manifest and their `state: removed`; `pass`, `snap`,
`decided` what a pin pass has read, `fetching`, `pulling` and `enforcing` what is in flight. `said` is history: what users instructed.

| action | code |
|---|---|
| `Delete`, `Undelete` | the two routes of `deletions.router.ts`; the deletion starts `enforceNow` |
| `EnforceNow` | `deletions-apply.service.ts` after the pins arrived: it reaps by the ledger it read and writes that ledger back |
| `Begin`, `Add` | the two spans of `runUnitPin`: reap first, then write the receipts and add, gate and fetch, by what was read |
| `Pull`, `Land`, `Fail` | `pullMissing` and the fetch half of the pass |
| `Share`, `Receive` | mirror and push; pull and reconcile: merges of ledgers in both directions |
| `Crash`, `Decide`, `Restore` | a restart; a decision; a file copied back by hand |

Abstractions. A path has one content identity (records that know a hash and no CID, and the backfill of hashes, are
left out), the manifest is one for the fleet, entries are never dropped, clocks agree. The
working copy between tracking directory and remote is folded into `Share` and `Receive`; `Claims`
has it in full. The grace period of orphans is not modelled here.

### 3.6 Claims

One entry of the manifest: a CID, a stamp and the set of computers that claim to hold it. Each computer has it in `unit`, in `tracking` and in `mirror`,
the working copy that shares `origin` with the fleet; `base` is what git merges against. `pass` is what the pin pass in flight
has read.

| action | code |
|---|---|
| `Mirror`, `Reconcile` | the two directions of `manifestLeg` (`tracking-sync.service.ts`), through `mergeManifests` |
| `Cycle`, `Pull` | a git cycle with the product's merge driver (`mergeManifestDocs`); one whose push fails |
| `PinRepoFolder` | the beginning of a pass: reconcile, fold the two manifests, list the pins |
| `Skip`, `Add`, `Drop`, `Orphan`, `Fetch`, `Stale` | what the pass does with the entry, and the claims it publishes |
| `Heal` | `healSelfPinClaims`, for a repository without background pinning |
| `Edit`, `Copy`, `Remove`, `LosePin`, `Decide`, `OptOut`, `Abandon` | the world |

`Profile` is how a computer chunks what it adds, so that equal bytes may have two CIDs. Abstractions: one entry; versions
differ in size; the fold of duplicate paths, wrapper CIDs, foreign pins, local twins and path-scoped passes are left out; the clock is the
counter of inputs; a grace period may end at any pass. Tombstones are the business of `Deletions`.

### 3.7 Pulls

`pull` is per caller (the button, the retry, the team pass) the transfer it waits for: a file is moved once for all
who ask for it, so `Land` and `Miss` answer every waiter. `timer` and `due` are the timer in memory and the due time on disk; `cursor`
the head up to which the team pass has seen the repository; `local` is HEAD and `folded` the commit whose entries the manifest of each
repository lists, which may be an older one; `boot` what the boot check has still to look at. `tried` and `overlooked` are
history: what failed last and has not been kept from the retry since; and what the team pass went by because the node listed no pins or the manifest
did not list the entry yet.

| action | code |
|---|---|
| `Click`, `ClickEnds` | `POST /:repoId/pull` |
| `RetryFires`, `RetryAsks`, `RetryLooks`, `RetryPulled`, `RetryEnds` | `runPullRetry` |
| `TeamStarts`, `TeamLooks`, `TeamPulled`, `TeamEnds` | `runAutoSyncIn` from the read of HEAD on |
| `Sync`, `Fold` | a cycle moves HEAD; `reconcileMirroredRepos` folds what came into one repository, later or, if the merge is discarded or throws, not in this cycle |
| `Boot`, `BootLooks`, `Crash` | `schedulePullRetryIfPending` at boot; the end of the process |
| `Land`, `Miss` | the end of a transfer |
| `PinPass`, `NetChanges`, `Tick` | the rest of the program and the world |

A look at a repository (`RetryLooks`, `TeamLooks`) ends in one of three ways: a pull is in flight and the repository is left to it; what is pending is pulled, if
anything is; the check throws. Between the first look at the pulls in flight and the pull itself the code lists pins and dials holders, so another pull may have
begun by then, and the model lets it. A file that a look missed is one the code has lost sight of (section 8): the team pass keeps it in
`overlooked`, and a file that was owed to the retry leaves `tried`, the exceptions the properties name instead of ruling the outage out. The decisions of
`Agreed` are folded in with the entries (`decisions.service.ts` projects them at the end of the fold); an entry whose decision was not projected counts as not folded.
A holder that is away is a transfer that misses.
`Faults` names two timings that the runs leave out: a run of the retry longer than its own wait (`"slow"`), and a pull that begins
before the boot check ended (`"hasty"`); section 8 says what they do. Abstractions: the tombstone gate (`Deletions`), bytes that are on disk
already, the repair of wrapper CIDs, compression jobs, more than one company.

### 3.8 Delivery

`place` is how far the last version of an artifact has come: `disk`, `index`, `head`, `origin`. The carriers are `pending` and `floor`
(the trigger's timer and what is left of its backoff), `rearmed` (the re-arm of a lost push) and `waiters` (for
the network); `pass` the passes that run or are queued. A storage has one running and one queued pass (the lock of `GitCycles`);
a working repository has no lock.

| action | code |
|---|---|
| `NoteArtifactWritten`, `Fire`, `FlushArtifactSync`, `Tick` | `sync-trigger.service.ts` |
| `Add`, `Commit`, `Pushed`, `PushFails`, `PushPostponed` | `syncStorageText` and `syncWorkingRepoArtifacts`, each ending in `Settle`: the books of its caller |
| `UnpushedRetry`, `ProbeOnce` | `armUnpushedRetry`; `whenOnline` |
| `OthersPass`, `ConvergeWorkingRepo` | the device worker, the pin worker, page loads |
| `Restart`, `PeerPushes`, `GoOffline`, `GoOnline` | the world |

Abstractions: jitter and doubling of delays (any of `Backoff`), waiters and re-arms fire at any time, a version on its way is not rewritten, the
commit switch and repositories without an origin are left out, the durable health card is not modelled, the boot cycles all storages at once.

## 4. What the runs check

Distinct states are those of the whole state space of the instance.

| run | instance | states | properties |
|---|---|---|---|
| `jobqueue_crash` | 2 describe files and 1 to transcribe, 3 ids, 2 deaths, ceiling 2 | 148,710 | `Durable`, `Owned`, `ImplementsBacklog` |
| `jobqueue_live` | 3 describe files with estimates {1,4}, {1,2}, {1}; budget 3; cap 1 or 2; 1 death | 63,992 | `OneTaskPerKey`, `HeapBudget`, `FirstComeFirstServed`, `EverySettles` |
| `batches` | a batch of transcribe beside one of describe or of compress, 2 files, 1 death | 211,799 | `RowIdentity`, `RowMatchesManifest`, `RowFinishedMeansIdle`, `TerminalRecordTrue`, `OutcomeIsFinal`, `BudgetStops`, `RowsFinish` |
| `single_boots` | 3 backends that boot at any time, 3 attempts each | 28,792 | `OneHolder`, `LockNamesHolder`, `AloneGetsIn` |
| `git_shared` | 2 storages over one copy, 3 requests, 2 push attempts | 459,613 | `OneCyclePerTree`, `Delivered`, `Answered` |
| `git_mirror` | 1 repository mirrored into a copy, 2 requests, 3 writes | 66,033 | `NobodyWaitsForNothing`, `NothingForgotten`, `LandsBetweenCycles`, `MirrorSettles` |
| `deletions_fleet` | 2 computers, 1 file, 2 inputs, and a third where it deletes again | 248,857 | `NothingMadeUp`, `OnlyWhereAsked`, `AbsenceLiftsNothing`, `ReachesEveryone`, `LedgersAgree` |
| `deletions_lost` | as `deletions_fleet` | violation | `InstructionStands` |
| `claims_fleet` | 2 computers with different profiles, 2 inputs | 108,988 | `SpeaksForItself`, `NeverGoesBack`, `WithdrawalTravels`, `HolderIsKnown`, `Settles` |
| `pulls_retry` | 2 files of 1 repository, one of them agreed on by the team; 2 commits; a wait of 2 ticks | 387,166 | `RetryStandsBy`, `CursorIsTrue`, `RetryComes`, `DecidedArrive` |
| `delivery_carried` | 2 artifacts for a storage or a working repository, 1 trouble, 1 restart | 290,724 | `KeepsCarrier`, `ArtifactsLeave` |
| `delivery_stranded` | a working repository, no restart | violation | `NothingStranded` |

What they show:

- **The queue loses nothing.** After any sequence of crashes (between two appends or inside one),
  stops, restores and compactions, the journal is exactly what `enqueue` accepted
  and no terminal ended (`Durable`); whatever is in it is somebody's work
  (`Owned`). The queue implements `DurableBacklog`, where there is no process to die and no task is
  tried more than `MaxAttempts` times (`ImplementsBacklog`).
- **The queue's counters stay exact** although a job is released in a later turn than it is settled and
  the caps and estimates change meanwhile: `HeapBudget` (two
  jobs never exceed the budget together; a job larger than the budget runs alone, and does run),
  `OneTaskPerKey`. A bucket is first come, first served (`FirstComeFirstServed`), and
  therefore even the file larger than the whole budget settles (`EverySettles`).
- **The three books of a batch agree.** For a producer that opens the row with the files the queue took and has no circuit
  (transcribe, OCR) the numbers of the row always add up (`RowIdentity`) and the row finishes (`RowsFinish`);
  without a circuit they equal those of the manifest (`RowMatchesManifest`). For every producer, over
  restarts: a finished row has nothing outstanding (`RowFinishedMeansIdle`), a terminal record on
  disk is true for ever (`TerminalRecordTrue`), an outcome on disk is final
  (`OutcomeIsFinal`), and a batch that used up its retry budget has nothing pending (`BudgetStops`).
- **The lock excludes, but for one race.** However many backends boot at once, crash and drain, two hold the lock only if the file of one was removed by a process
  that had read it before that one's pid was in it (`OneHolder`), and otherwise the file names its holder (`LockNamesHolder`). The race is the code's
  (section 8) and is in the state space: a holder whose file was taken runs on beside the next. A stale lock keeps nobody out (`AloneGetsIn`).
- **Cycles exclude and deliver.** Two storages that resolve to one working copy never run git in it at once
  (`OneCyclePerTree`), although the retry re-enters the gate; every caller is answered
  (`Answered`); a request whose text was on disk when it was made is at origin once it is
  answered and its pass reports nothing, even if another storage's cycle committed the text and could not push it, unless a pull
  put it aside to be able to merge (`Delivered`).
- **The mirror is not forgotten.** It lands only between cycles (`LandsBetweenCycles`); a
  deferred one has a cycle whose release drains it (`NobodyWaitsForNothing`); a
  repository that changed is in a pass, deferred, or in `dropped`, the set of those a failure or a
  discarded merge left behind (`NothingForgotten`); and it lands or is dropped (`MirrorSettles`).
- **Deletions.** Every record in every copy of the ledger, those a pass holds in memory included, claims only what
  somebody said (`NothingMadeUp`); bytes leave a disk only where an instruction reaches (`OnlyWhereAsked`); a ledger that does
  not know a deletion lifts none, nor does an undelete that is older than the deletion (`AbsenceLiftsNothing`, `NothingMadeUp`); a deletion for the fleet that stays at origin is carried out and reported everywhere, whatever
  was being fetched, pulled, re-added or crashed meanwhile (`ReachesEveryone`); and the ledgers agree in the end (`LedgersAgree`). The instance contains the lost
  instructions of `deletions_lost`: these properties hold in spite of them.
- **Claims.** A computer appears as a holder at the remote only while it says so itself, so that a withdrawn claim
  is never brought back by the memory of another (`SpeaksForItself`); the shared entry is never lost and never goes back to an older stamp
  (`NeverGoesBack`); who holds no bytes ends up not advertised (`WithdrawalTravels`), who holds them and is pinned ends up advertised
  (`HolderIsKnown`), and computers that add equal bytes under different CIDs stop rewriting one another (`Settles`).
- **Pulls.** As long as a decided file whose pull failed is missing, a retry is armed or somebody is at work who arms it
  (`RetryStandsBy`); restarts do not starve it, since the due time is on disk (`RetryComes`); it ends with the file
  (`DecidedArrive`). Whoever else pulls, fails or moves HEAD meanwhile, the cursor of the team pass goes by an agreed file that has not come in two cases
  only: the node listed no pins when the pass looked, or the entry was not folded in yet (`CursorIsTrue`).
- **Delivery.** An artifact in hand is dropped in three named steps only: the process dies, a pass of
  somebody else fails on which a trigger had relied, a pass of a working repository leaves an unpushed commit (`KeepsCarrier`); one that is not dropped leaves
  although the writing never stops (`ArtifactsLeave`).

Every module has a type invariant, `TypeOK`. It is proved for all eight (section 7) and is not among the properties of the runs.

Deadlock is not checked: bounded ids, finite requests and spent deaths let every
instance stop. That nothing stops early is what the liveness properties say.

## 5. Bounds and why they are enough

| bound | module | meaning and why it suffices |
|---|---|---|
| `MaxTasks` = 3 | JobQueue | ids ever minted. Three give a running, a waiting and a new task, and a key queued again after its end |
| `MaxDeaths` = 2 (1) | JobQueue, Batches | deaths. Two reach `MaxAttempts` = 2 and the quarantine at the boot after; one suffices where no property counts strikes |
| `Ceiling` | JobQueue, Batches | the real ceiling is 50,000 by default; a ceiling of 2 (3) makes a request be cut |
| budget 3, estimates up to 4 | JobQueue | one file fits beside another, one does not, and one exceeds the whole budget |
| `MinSample`, `MaxHealth` | Batches | the real values are 10 and 200; here they are small enough to trip with two files and to evict with two batches (`MaxHealth` = 1) |
| `MaxTries` = 3, 3 backends | SingleInstance | the real value is 16; each attempt is alike, and the last differs. Three: a holder, a racer and a third that finds what they leave |
| 2 storages, 1 copy, 3 requests | GitCycles | a holder, its successor and a caller that joins; or two storages in one copy and a third request |
| `Attempts` = 2 | GitCycles | one retry after a lost race and one last attempt; real value 3 |
| `MaxWrites` = 3 | GitCycles | a write that begins a pass, one that joins it, one that meets a cycle |
| `MaxInputs` = 2, 1 path | Deletions | two of: a deletion, an undelete or a second deletion, a restart, a failure, a file put back or pulled. A third instruction is given in one history, the one where an undelete can be late: deleted, undeleted on one computer, and deleted again for the fleet on another (`DeletedAgain`; `MaxSaid` counts it). Two paths of one content are covered by the theorems |
| `MaxInputs` = 2 | Claims | two of: an edit, a copy, a removal, a lost pin, a decision, a switch of background pinning, an end of grace, a failed push, an abandoned pass |
| `Wait` = 2, `MinUptime` = 1 | Pulls | the backend may be restarted before its wait is served, for ever; at least one tick per life, or nothing could be said |
| `MaxCommits` = 2 | Pulls | a commit that arrives while the pulls of the one before are in flight |
| `Debounce` = 1, `MaxDelay` = 2, `Backoff` = {2} | Delivery | a debounce that writes can put off, a ceiling that stops it, a backoff longer than both |
| 2 passes, `MaxTroubles` = 1, `MaxBoots` = 1 | Delivery | a running and a queued pass; a failure at every step, once; a death at every step, once |

Bounds appear only in guards; the theorems of section 7 hold for every value of them.

## 6. Fairness

- **JobQueue**: weak fairness of the running handler (a Node handler runs on once it has begun) and of
  `Boot` (the supervisor starts a dead backend again); strong fairness of `Settle` and `Release` per task, since
  the runner returns and the event loop serves its promise chain, though other handlers
  and deaths disable the step again and again. That a runner returns is an assumption about the tools it calls; provider calls and
  ffmpeg are given timeouts (`describe/adapters.ts:434`, `compress/compression.service.ts:292`).
- **Batches**: weak fairness of the click being served and of `Boot`; strong of `Start` and `Settle` per task
  (that a pending task starts is what `EverySettles` shows for the queue).
- **SingleInstance**: weak fairness of `Attempt(p)`: the operating system runs its processes. None of crashes, signals
  and exits.
- **GitCycles**: weak fairness of `Pass(r)` and of `Continue(m)`: git calls and IPFS work are assumed
  to end (credential prompts are switched off), and the event loop runs every continuation. There are finitely many requests, so
  the wait for the gate cannot starve; with infinitely many the code has no queue at the gate that would promise it.
- **Deletions, Claims**: weak fairness, per computer, of the pin pass, the mirror, the reconcile and the git cycle: the scheduler
  brings them round (every 10 to 15 minutes), and failures are bounded inputs.
- **Pulls**: weak fairness of time and of the boot with its check, one or the other (the check is over before the next tick, and no crash interrupts it: `MinUptime` starts
  counting when it is over); of the retry, of the team pass once it has begun, of the end of the button's pull; and of the end of transfers (the code
  gives each a timeout). That the holder is there often enough is no property of this code, so `DecidedArrive` has it as its hypothesis (`HolderComes`): files that
  are tried again and again land one after the other, and each lands once. No fairness of the pin pass, of folds, of cycles or of the beginning of a team pass.
- **Delivery**: weak fairness of the steps of a pass, of due timers, of time and of the return of the network. None of writes, flushes, page
  loads and other workers: nobody need do anything for an artifact to leave.

No fairness is assumed of enqueues, clicks, requests, writes, crashes or failures.

## 7. What is proved

Every safety invariant and every action property that a passing run checks is a theorem too, and so is
the refinement of `DurableBacklog`. The theorems hold for every choice of files, buckets, settings, storages,
copies, requests, processes, computers, profiles and bounds that satisfies the `ASSUME`s of the module.

| theorem | module | states | hypothesis |
|---|---|---|---|
| `TypeCorrect` | all eight | `Spec => []TypeOK` | - |
| `NoDoubleWork` | `JobQueue_proofs` | `Spec => []OneTaskPerKey`, whatever the disk loses | - |
| `HeapStaysInBudget` | `JobQueue_proofs` | `Spec => []HeapBudget`, whatever the disk loses | - |
| `ServedInOrder` | `JobQueue_proofs` | `Spec => FirstComeFirstServed`, whatever the disk loses | - |
| `SlotsAreCounted` | `JobQueue_proofs` | `Spec => [](SlotsExact /\ SlotBudget)`: the counters of slots are exact and within a cap | - |
| `BacklogIsAttended` | `JobQueue_proofs` | `Spec => []Attended`: between two handlers, a backlog has a task in front of it whose release pumps | - |
| `NothingLost` | `JobQueue_proofs` | `Spec => []Durable` | `Faults = {}` |
| `EverythingOwned` | `JobQueue_proofs` | `Spec => []Owned` | `Faults = {}` |
| `StrikesCount` | `JobQueue_proofs` | `Spec => []Strikes`: the file knows every run of a live task | `Faults = {}` |
| `Implements` | `JobQueue_proofs` | `Spec => ImplementsBacklog` | `Faults = {}` |
| `BatchesAlwaysTrue` | `Batches_proofs` | `Spec => []BatchesInv`, the invariant the next six follow from | - |
| `OutcomesAreFinal` | `Batches_proofs` | `Spec => []OutcomeIsFinal` | - |
| `ManifestTellsTheTruth` | `Batches_proofs` | `Spec => []TerminalRecordTrue` | - |
| `FinishedIsIdle` | `Batches_proofs` | `Spec => []RowFinishedMeansIdle` | - |
| `RowsAddUp` | `Batches_proofs` | `Spec => []RowIdentity` | - |
| `RowsAgreeWithManifests` | `Batches_proofs` | `Spec => []RowMatchesManifest` | - |
| `SpentBudgetsStop` | `Batches_proofs` | `Spec => []BudgetStops` | - |
| `Excludes` | `SingleInstance_proofs` | `Spec => []OneHolder` | - |
| `LockIsTrue` | `SingleInstance_proofs` | `Spec => []LockNamesHolder` | - |
| `CyclesExclude` | `GitCycles_proofs` | `Spec => []OneCyclePerTree` | - |
| `DeferredMirrorsFire` | `GitCycles_proofs` | `Spec => []NobodyWaitsForNothing` | - |
| `MirrorsAreOwned` | `GitCycles_proofs` | `Spec => []NothingForgotten` | - |
| `MirrorsLandBetween` | `GitCycles_proofs` | `Spec => LandsBetweenCycles` | - |
| `Delivers` | `GitCycles_proofs` | `Spec => []Delivered` | - |
| `NobodyWaitsInACircle` | `GitCycles_proofs` | `Spec => []WaitsEnd`: every wait ends at a pass that has a next step | - |
| `TellsTheTruth` | `Deletions_proofs` | `Spec => []NothingMadeUp` | - |
| `DeletesWhereAsked` | `Deletions_proofs` | `Spec => OnlyWhereAsked` | - |
| `TombstonesStand` | `Deletions_proofs` | `Spec => AbsenceLiftsNothing` | - |
| `MergeIsJoin` | `Deletions_proofs` | the merge of records is commutative, associative and idempotent | equal stamps name one device |
| `ClaimsSpeakForThemselves` | `Claims_proofs` | `Spec => SpeaksForItself` | - |
| `NeverGoesBackEver` | `Claims_proofs` | `Spec => NeverGoesBack` | - |
| `LegsAgree` | `Claims_proofs` | what arrives twice is merged once; a reconcile and a mirror leave two equal documents | - |
| `DriversAgree` | `Claims_proofs` | the merge of git does not depend on who merges; a side that has not moved yields | - |
| `CursorTellsTheTruth` | `Pulls_proofs` | `Spec => []CursorIsTrue` | - |
| `RetryNeverForgets` | `Pulls_proofs` | `Spec => []RetryStandsBy` | `"slow" \notin Faults` |
| `OneBehindOne` | `Delivery_proofs` | `Spec => []InLine`: a storage has one running pass and one queued, a repository queues none | - |
| `HandsOver` | `Delivery_proofs` | `Spec => KeepsCarrier` | - |

The hypotheses are those of the runs: `Faults` switches on what the code is known not to survive (section 8), and
`"slow"` in `Faults` of `Pulls` lets a run of the retry outlast its own timer, which then fires into a run that is still on and is lost. The
`ASSUME`s that only type the constants are not repeated here. Those that say more: in
`Delivery`, there are enough pass slots for a boot, which starts one per storage (`PassAssumption`); in `Batches` and `JobQueue`, there are finitely many files (`FileAssumption`,
`KeyAssumption`); and everywhere the value that stands for "nothing" is none of the values it is compared with.

The arguments, in short:

- **Queue.** `OneTaskPerKey` is not inductive: the release of a task would drop a key another one
  holds if the three sets of tasks overlapped, and a restore would bring back an id that is not below
  `nextId`. `QueueInv` adds `Ids` and `Disjoint`. `DurableInv` then says where each handler stands:
  `Stages` (what `thread` leaves empty), `Term` (only minted ids are ended), `LiveKeys` (the live ids
  of the file have different keys, so that a restore admits every candidate) and `WholeLines` (once the process has
  checked the tail, the journal ends on a whole line, so no append is glued to a stump). `StrikeInv`
  adds that memory and file count the same attempts. `Implements` maps each step to `Accept`,
  `Try`, `End` or a stutter, with `StrikeInv` for the guard of `Try`.
- **Heap and order.** `HeapBudget` compares one reservation with the heap in use, and when one of two jobs gives its heap back, what is left must be the reservation of the other:
  it needs that `memoryActive` is the sum of the reservations. A counter that drifted would admit too much or nothing. The prover has no induction over sets, so
  `HeapAdds` does not define the sum: it says that some function gives every set of tasks a number, is 0 on the empty set, grows by its
  reservation with each task that enters, and gives `memoryActive` for all tasks. An admission, a release and a death each keep such a
  function. `FirstComeFirstServed` is about one step: `FirstRunnable` says that the head the scan picks is the oldest
  task of its bucket, and `OnlyStartActivates` that nothing else starts a task.
- **Nothing is left behind.** `Attended` is the safety half of `EverySettles`. A scan that admits nothing must have somebody to wait for:
  were nothing running, the head of every bucket would have a slot and the whole heap. That needs both counters exact in that state, so `AdmissionInv` is
  `HeapInv` with `SlotsExact` (the slots of a bucket are the tasks that run in it or have not released) and `SlotBudget`.
- **Batches.** Six properties relate three books which the code writes at different times, and none is inductive. `BatchesInv` says
  what the books owe to the queue. `BooksTrue`, per batch: every file the queue took has its outcome or is still out (`Accounted`); the row counts
  no more than its total, and a finished one has reached it; a tally closes the manifest with the last file, and one that has missed a file never
  does, because what it has left stays above what is out. `UnaskedUntouched` and `CountsTaken` say the same of a click between its two steps, which differ by the kind of
  the producer: what is opened before the queue is asked promises all its files, what is opened after knows how many were taken.
  `ClickWritten` has the manifest on disk before either, `MemoryTrue` lets rows, tallies and tasks die with the process, and `BudgetsTrue` says
  that a budget once spent has left its batch nothing to start. The queue, the manifest, the row and the tally each have lemmas about what
  one step of theirs does to a book.
- **Lock.** `LockInv` follows the file of every process that is not in `taken`: what a booter created is its own (`CreatedIsMine`), and stays so once it holds
  (`HeldIsMine`). Whoever is about to remove the file of a holder had read it before the pid was there (`RemoversRace`): a reader that comes later finds a live pid and waits.
  So every removal that hits a holder is a racer's, and the history knows it (`RemovedIsTaken`).
- **Cycles.** `GateExact` says that the owner of a copy is exactly the pass in a span of it, and its depth
  is the number of spans; `QueueExact` says which pass holds a storage and which one waits. Exclusion follows. `MirrorInv` ties
  deferred and unfinished mirrors to the owners of their copies.
- **No circular wait.** `WaitsEnd` is the safety half of `Answered`. Who has joined waits for a queued or running pass, that one for the pass that holds the storage, that one for the
  copy, and whoever holds the copy for nobody; each link is at fewer removes from one that can go on. `LockExact` ties the lock to the stages: the
  pass that runs holds it, a successor has somebody to succeed, and a joined pass is not over.
- **Delivery to origin** (`GitCycles_proofs`). `Delivered` speaks of the end of a pass, so `DeliveryInv` follows a text from the
  request on: it is on the disk before the second span (`OnDisk`), in a commit while
  the pass pushes (`Committed`), at origin when it ends without a problem (`AtOrigin`), unless a pull has put it aside; `Chain` says that committed texts only move forward,
  `MergeKeeps` that a merge takes nothing from the disk but into `cleared`,
  and `Joins` that a caller joined a pass of its own storage which was not over.
- **Deletions.** `NothingMadeUp` needs `Numbered`: a stamp is the number of an instruction that was given, so a new one is later than
  every stamp in any copy. Merges, receipts and undeletes then keep `Truthful` record by record. `OnlyWhereAsked` and
  `AbsenceLiftsNothing` are action properties that follow from that invariant: what enforcement takes, a live and truthful record claims, and the remote only changes
  by a merge of its own record with a truthful one.
- **Claims.** What a computer pushes of others must be what it pulled. `PeersFromBase` says that the claims of others in a working copy
  are those of its base, `MirrorAhead` that a working copy is never behind it, and `OwnUntilMirrored` that before the first mirror
  the documents it is made from know of nobody else. `LegsAgree` and `DriversAgree` are what the absence of fights rests on: they hold because `Wins` is a
  total order up to equal entries (`WinnerIsOne`), and fail for a merge that keeps what is local at equal stamps.
- **Pulls.** `CursorIsTrue` is about a head that was read before the files were pulled, so `CursorInv` adds
  `TeamTrue`: so far, a clean run has seen to every agreed file of the repositories it has left behind, or gone by it with a reason that `overlooked` keeps, and the pull of the one it is at has failed or still
  waits for what is missing there. `RetryStandsBy` needs `StandInv`: a file that was tried is wanted and not here (`TriedWanted`), whoever saw it fail has set the timer or will
  (`Armed`), or the boot check or the retry has still to look at it (`Stood`); the pull of the retry itself is for all tried files of its
  repository (`RetryCovers`), and the clock keeps a second retry from starting meanwhile (`Phases`), which is where `"slow"` comes in.
- **Artifacts.** `KeepsCarrier` is an action property: whoever lets go of an artifact hands it to somebody. It rests on `InLine` (of a storage one pass runs and one
  waits, so a caller that collapses has a pass in front of it which has not begun) and on `LateWrites`: what is written after the running pass has
  added has a timer or a queued pass, and a pass that pushes has left nothing in the index.

Only model-checked: liveness (`EverySettles`, `RowsFinish`, `AloneGetsIn`, `Answered`, `MirrorSettles`, `ReachesEveryone`, `LedgersAgree`,
`WithdrawalTravels`, `HolderIsKnown`, `Settles`, `RetryComes`, `DecidedArrive`, `ArtifactsLeave`), because liveness
under fairness and ENABLED are out of the reach of the prover in use (what is proved of `EverySettles` and `Answered` is that the
system never stands still with somebody waiting), and so are induction over data and recursive operators;
no module here declares one. The two violation runs (`InstructionStands`, `NothingStranded`) have nothing to prove.

## 8. Disagreements between code and documents

Shown by a run (the run finds the property violated):

1. **An instruction to delete can be lost** (`deletions_lost`). The pin pass reads the ledger, awaits, and writes back what it read with its
   receipts (`pin.service.ts:325`; `enforceNow` does the same, `deletions-apply.service.ts:69`), under no lock the routes take. A
   deletion or an undelete recorded meanwhile is gone. `deletions.router.ts:296-297` says "The instruction STANDS even when this device
   could not carry it out".
2. **A commit whose push failed is left behind** (`delivery_stranded`). In a working repository every retry finds nothing staged,
   returns without a problem and without a push (`repo-artifact-sync.service.ts:125`), and the trigger takes that for success. Lines 166-167 say "The commit
   is already on disk; only its trip to the remote is postponed"; `git.service.ts:1447-1448` names the same early return as
   the defect an earlier build had.

Seen while modelling, without a run of their own.

Queue and batches:

- a compaction can empty the backlog: `foldLiveSet` returns no task when it cannot
  read the journal (`queue-journal.ts:164`), and `compact` then renames an empty file over it; its comments
  say it rewrites the journal "down to just the folded live set" (191) and that a failure is harmless (213);
- clean stops count as crashes: a task in flight at two clean shutdowns is quarantined
  (`queue-restore.ts:76`); `pm/crash_recovery.mdx:276` says "it crashed the process twice";
- a describe row can miss its first files: `enqueue` ends in a pump that halts tasks while the
  circuit is open, before `createBatch` (`describe.service.ts:669`); line 667 says no task can settle
  before the row exists. `RowIdentity`, `RowMatchesManifest` and `RowsFinish` leave such a batch out;
- a later append of the same process is glued to the tail that a failed append tore
  (`queue-journal.ts:112`; line 76 says a torn tail is healed);
- the live-set ceiling is compared with the pending tasks alone (`jobqueue.service.ts:230`), while
  `queue-journal.ts:29` bounds the live set;
- compression seeds its row with all its files (`compression.service.ts:1574`), not with those the queue took
  (`jobqueue.service.ts:390`);
- a batch of zero queued files has no last file to finish its row (`transcribe.service.ts:267`, `jobqueue.service.ts:383`);
- a restored task that had been attempted is halted as never attempted (`jobqueue.service.ts:617`, `queue-journal.ts:34`);
- `batchHealth` evicts entries of batches still running (`jobqueue.service.ts:594-597`, comment at 593).

Lock and cycles:

- two booting backends can both acquire: one reads the lock before its creator wrote the pid, takes it for stale
  and removes what has the name by then (`single-instance.ts:46`); line 5 promises one live backend. `OneHolder` over all of `Proc` instead of `Proc \ taken`
  is violated in `single_boots`;
- the lock is released before the drain (`single-instance.ts:91`), so a successor may run beside the last writes of its predecessor;
- the last retry removes a stale lock and then stands down all the same (`single-instance.ts:73`, comment at 57);
- a collapsed caller's own work is dropped: a caller whose work is inside its function (an
  owner assertion, a pin pass) collapses into a queued pass of another kind and its function never runs
  (`git-lock.ts:43`); lines 38-39 say the queued pass observes everything the caller wanted. `Delivered` speaks of texts only;
- a pull that has to merge puts uncommitted files of the product aside (`git.service.ts:1204-1246`) and the pass goes on without a problem, so a text written before
  a request need not be in the commit of its pass; lines 1199-1201 leave it to the next pass to write it again. A file whose copy into the quarantine
  fails is taken away all the same, though line 1194 says "without data loss";
- with an exact tie `pickPolicy` keeps each side's own policy (`tracking-sync.service.ts:1126`, comment at 1088-1090);
- a merge discarded because a pull went by arms nothing (`tracking-sync.service.ts:1058-1061`): it is "redone next
  pass", whenever that is. The model keeps such repositories in `dropped`.

Deletions:

- the gate of a running pass uses the ledger the pass read, so a file deleted by a click in the middle of a pass can be fetched back
  by that pass (`pin.service.ts:670-675`); the next pass takes it again;
- two deletions of one identity said for one computer each merge into one of the newer's computer;
- receipts survive an undelete and a new deletion, so a computer reads as done before it has seen the new one (`deletions.router.ts:340-345`);
- after an undelete the next pass fetches the file although the router says that nothing is fetched; nothing lifts `state: removed`;
- with `delete_bytes: false` the pass adds a tombstoned file once more before its decision is gone;
- a crash between the removal of the bytes and the write of the receipt reports less than was done.

Claims:

- after the grace period the pass unpins the CID and keeps it in its list of pins, so that its own last step asserts the claim for one more
  pass (`pin.service.ts:626-656`, 768);
- a file that is downloaded late in an older version carries a newer stamp and can shadow an edit; the older version then keeps a claim on the
  CID of the newer one (`manifest-merge.ts:162`; `pin.service.ts:765-766` says a claim holds iff the pinset has the CID);
- edits that keep the size are not detected;
- a withdrawn claim stays in the `unit` manifest of other computers and is published again into their tracking manifest at each
  pass; the merge over the wire is what stops it there (`SpeaksForItself`);
- a computer that has not decided on the file drops its own claim although it still holds the pin.

Pulls:

- when the node cannot list its pins, `missingPinnedFromPeers` returns no file (`pin.service.ts:1743`); the boot check and the retry take that for
  nothing pending, forget the due time and arm nothing (`pull-retry.service.ts:269`), and the team pass lets its cursor by. Line 272 says "When the check itself fails we cannot
  prove "nothing pending"". In `Pulls` such files leave `tried` or enter `overlooked`; without that `RetryStandsBy` and `CursorIsTrue` are violated;
- the team pass reads HEAD after the cycle and takes it for its cursor, but what came with it is folded in best-effort: a merge that is discarded
  (`tracking-sync.service.ts:1058-1061`) or only logged (1322, 1504) leaves the manifest behind, and another cycle may move HEAD before it is read. Then nothing is
  pending and the cursor passes the files, while `auto-sync-in.service.ts:9-12` says "The cursor advances ONLY on a clean run" and calls one that passes unfinished work data loss. `CursorIsTrue` with
  `here` alone is violated; in the model such files are in `overlooked`;
- a run of the retry that takes longer than its wait swallows the timer that a failed click armed meanwhile (`Faults = {"slow"}`:
  `RetryStandsBy` is violated);
- a pull that fails before the boot check has ended replaces the due time on disk (`Faults = {"hasty"}`), and the end of a run clears it although
  a timer armed during the run still runs, so that a later restart begins the wait anew;
- the To Do page pulls without recording a decision and without arming the retry (`todo.router.ts:177`);
- a repository whose folder is absent reports no failure, so the cursor passes it (`pin.service.ts:1853-1857`), which is not modelled; one whose check throws is skipped by the
  retry as not pending (`pull-retry.service.ts:198-200`), which is: its files leave `tried`.

Delivery:

- a push of a working repository that lost to another computer's commit can never be helped by fetch, fast-forward and push again, since the
  commit it has just made forbids the fast-forward;
- a trigger that collapses into a queued pass of somebody else is told of no problem (`pin.service.ts:1324`) and clears its backoff, so
  if that pass fails before its push nobody retries, and the failure count of a pass that fails on and on starts again;
- a write during a failing pass arms its timer before the failure is known, so the retry comes after the debounce and not the backoff
  (`sync-trigger.service.ts:275-276` says it must not collapse the retry interval);
- a storage behind ssh reads as failed and not as offline, because the quoted line begins with "fatal:" (`git.service.ts:2228-2240`);
- a restart loses every timer; storages are cycled at boot, nothing covers working repositories;
- the recorded push failure is cleared only by a push of our own, so a push by hand leaves the health card stale;
- `flushArtifactSync` is called by the debug export only, while comments speak of the end of a batch.

## 9. What is not modelled

Within the modelled parts:

- *JobQueue*: the work of a runner, the order of buckets in the scan beyond what a choice of bucket covers, progress events.
- *Batches*: retention and eviction of rows and manifests, batches owned by the Videos scans, which files are eligible.
- *SingleInstance*: reuse of pids.
- *GitCycles*: auto-commit switched off, how a backbone resolves to a copy, the content of merges and
  conflicts, crashes, a computer with no sync repository. The re-arming of pushes is in `Delivery`.
- *Deletions, Claims, Pulls, Delivery*: the abstractions named in section 3. The four are not composed: an entry, its tombstone and its transfer are looked at one
  at a time, under the worst that the others may do (any merge may arrive, any pass may fail, any pin may go).

Parts without a module: those marked planned in section 2 are left for a continuation. The store model, scanner,
runners, media code, web interface, deployment and sidecars have no interleaving of their own: pure reads, rendering,
numeric code and external tools. They are most of the lines of the repository, which is why a small share of its lines is mapped.

## 10. Plan

Done, in this order: the queue and its durability, the refinement, the lock, the batches, the git cycles and
the mirror, delivery to origin; then the fleet: deletions, claims, pulls, and the delivery of artifacts.

Proved, in this order: the queue, the lock, the cycles, deletions and claims; then pulls, delivery, batches, and the heap and
the order of the queue.

Next, the most important first:

1. **An abstract claim**: the entry at origin as a register that moves forward with a set of self-declared holders, and `Claims` shown to implement it
   (`PeersFromBase` and `OriginMoves` are most of it).
2. **Abstract locks**: exclusive access to a copy, with `GitCycles` shown to implement it through `GateExact`.
3. **Convergence of the claims**: after an exchange in both directions without inputs, every working copy is the remote (the safety part of `Settles`), from `DriversAgree`.
4. Components without a module: **lane, coalescer and unit lock** (the run that answers a call began after the call; no slot leaks), **ledger and policy merges**,
   **scheduler and watchdog**, **database backfill and migrations**, **state events**, **watcher**, **ipfs node start and stop**.

## 11. Running

From this directory:

    tlc -workers 2 -config JobQueue_crash.cfg MCJobQueue.tla
    tlapm JobQueue_proofs.tla

`PROJECT.json` names the module and the configuration of each run. Each passing run ends within four minutes.
