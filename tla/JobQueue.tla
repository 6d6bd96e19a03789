------------------------------ MODULE JobQueue ------------------------------
(***************************************************************************)
(* The durable background queue of the backend: modules/jobqueue           *)
(* (jobqueue.service.ts, queue-journal.ts, queue-restore.ts) and the boot  *)
(* code in main.ts that restores it.                                       *)
(*                                                                         *)
(* One Node process owns the queue.  Its handlers run to completion, one   *)
(* at a time: thread says which handler is running and "idle" means the    *)
(* event loop is free.  The long part of a job, its runner, happens        *)
(* between handlers.  A handler that starts or halts several jobs appends  *)
(* to the journal once per job, and the process may die between any two    *)
(* of those appends or in the middle of one, so it takes one step per      *)
(* append.                                                                 *)
(*                                                                         *)
(* A task is named by its journal id.  Ids are minted in increasing order  *)
(* and the fold reads them back in file order, so the FIFO backlog is a    *)
(* set of ids and "before" is <.                                           *)
(***************************************************************************)
EXTENDS Integers, FiniteSets

CONSTANTS
    Key,          \* what a task works on: op|path, the unit of deduplication
    NoKey,        \* the key of an id nobody minted yet
    Bucket,       \* the admission buckets: transcribe, describe, compress:image...
    BucketOf,     \* [Key -> Bucket]
    Provider,     \* vision providers, each behind a circuit breaker
    ProviderOf,   \* [Key -> SUBSET Provider]: the provider a describe task needs
    Estimates,    \* [Key -> SUBSET Nat]: heap a stat may predict; {0} if not describe
    Limits,       \* the settings a scan may read: [cap : [Bucket -> Nat], mem : Nat]
    Ceiling,      \* liveSetCeiling()
    MaxAttempts,  \* QUEUE_MAX_ATTEMPTS
    Faults,       \* I/O that may fail: subset of {"append", "read"}
    MaxTasks,     \* bound: ids ever minted
    MaxDeaths     \* bound: times the process dies or is stopped

Task == 1 .. MaxTasks

ASSUME KeyAssumption == NoKey \notin Key /\ IsFiniteSet(Key)
ASSUME MapAssumption == /\ BucketOf \in [Key -> Bucket]
                        /\ ProviderOf \in [Key -> SUBSET Provider]
                        /\ Estimates \in [Key -> SUBSET Nat]
ASSUME LimitAssumption == Limits \subseteq [cap : [Bucket -> Nat \ {0}], mem : Nat]
ASSUME BoundAssumption == /\ Ceiling \in Nat /\ MaxAttempts \in Nat \ {0}
                          /\ MaxTasks \in Nat /\ MaxDeaths \in Nat

VARIABLES
    journal,      \* queue.jsonl, as the fold reads it (see Live)
    thread,       \* "down", "restore", "idle", "pump" or "release"
    doomed,       \* tasks the running haltPending has still to end
    restoring,    \* tasks the boot fold has still to look at
    pending,      \* the backlog
    inflight,     \* keys pending or running
    running,      \* [Bucket -> Nat]: the slots in use
    active,       \* tasks whose runner is in progress
    settled,      \* tasks whose terminal is recorded and whose slot is still held
    attempts,     \* [Task -> Nat]: t.attempts, in memory
    reserved,     \* [Task -> Nat]: heap reserved for a task, 0 when none
    memoryActive, \* the running total of the reservations
    tailChecked,  \* healTornTail ran in this process
    nextId,       \* the next id to mint
    key,          \* [Task -> Key]: what each id works on
    done,         \* history: tasks that came to a terminal
    starts,       \* history: how often the runner of a task was invoked
    deaths        \* bound counter

control  == <<thread, doomed, restoring>>
memory   == <<running, reserved, memoryActive>>
backlog  == <<pending, inflight, active, settled, attempts>>
history  == <<nextId, key, done, starts>>
vars     == <<journal, control, memory, backlog, tailChecked, history, deaths>>

\* The bucket a task competes in.
BucketOfTask(t) == BucketOf[key[t]]

Up   == thread # "down"
Idle == thread = "idle" /\ doomed = {}

-----------------------------------------------------------------------------
(* The journal: ids with an enq record, ids with an end record, the highest *)
(* try of each id, and whether the file ends in the middle of a line.       *)

Live(j) == j.enq \ j.end

Compacted(j) ==
    [ enq |-> Live(j),
      end |-> {},
      try |-> [t \in Task |-> IF t \in Live(j) THEN j.try[t] ELSE 0],
      cut |-> FALSE ]

\* What compact() may leave.  A fold that cannot read the file returns no
\* task, and compact() then writes that.
CompactOutcomes ==
    {Compacted(journal)}
      \cup (IF "read" \in Faults
            THEN {[Compacted(journal) EXCEPT !.enq = {}, !.try = [t \in Task |-> 0]]}
            ELSE {})
      \cup (IF "append" \in Faults THEN {journal} ELSE {})

\* Mutant: nothing heals the stump a crash left.
NeverHealed == journal.cut

\* The first append of a process heals a stump; a later one is glued to it,
\* and the line so formed, the first of the append, cannot be parsed.
Glued == journal.cut /\ tailChecked

Readable(ids) == {r \in ids : Glued => \E q \in ids : q < r}

\* An append of one record per id, cut short in the record of k.
Torn(ids, k) == [got |-> {r \in Readable(ids) : r < k}, cut |-> TRUE, checked |-> TRUE]

\* An append as its caller finds it: appendSync never throws.
Landed(ids) ==
    {[got |-> Readable(ids), cut |-> FALSE, checked |-> TRUE]}
      \cup (IF "append" \in Faults
            THEN {Torn(ids, k) : k \in ids}
                   \cup [got : {{}}, cut : {journal.cut}, checked : {tailChecked, TRUE}]
            ELSE {})

AppendEnq(w) ==
    /\ journal' = [journal EXCEPT !.enq = @ \cup w.got, !.cut = w.cut]
    /\ tailChecked' = w.checked

AppendTry(t, n) ==
    \E w \in Landed({t}) :
      /\ journal' = [journal EXCEPT !.try[t] = IF t \in w.got THEN n ELSE @, !.cut = w.cut]
      /\ tailChecked' = w.checked

AppendEnd(t) ==
    \E w \in Landed({t}) :
      /\ journal' = [journal EXCEPT !.end = @ \cup w.got, !.cut = w.cut]
      /\ tailChecked' = w.checked

-----------------------------------------------------------------------------
\* Mutant: a double click queues a file twice.
FreshUnchecked(files) == files

\* What is left of a request after deduplication.
Fresh(files) == files \ inflight

\* How many of a request the ceiling lets in.
Room(files) ==
    LET free == IF Cardinality(pending) < Ceiling THEN Ceiling - Cardinality(pending) ELSE 0
        n    == Cardinality(Fresh(files))
    IN  IF n <= free THEN n ELSE free

\* The keys the new ids stand for, in any order the client may have sent them.
Orders(ids, files) ==
    {f \in [ids -> Fresh(files)] : \A t, u \in ids : f[t] = f[u] => t = u}

Mint(ids, f) == key' = [t \in Task |-> IF t \in ids THEN f[t] ELSE key[t]]

\* Every pump begins with haltDoomedTasks: the tasks of the providers whose
\* circuit is open now.
BeginPump(mode) ==
    /\ thread' = mode
    /\ \E open \in SUBSET Provider :
         doomed' = {t \in pending' : ProviderOf[key'[t]] \cap open # {}}

Enqueue(files) ==
    /\ Idle
    /\ nextId + Room(files) <= MaxTasks + 1
    /\ LET ids == nextId .. nextId + Room(files) - 1 IN
         /\ \E f \in Orders(ids, files) :
              /\ Mint(ids, f)
              /\ inflight' = inflight \cup {f[t] : t \in ids}
         /\ nextId' = nextId + Room(files)
         /\ pending' = pending \cup ids
         /\ IF ids = {} THEN UNCHANGED <<journal, tailChecked>>
                        ELSE \E w \in Landed(ids) : AppendEnq(w)
    /\ BeginPump("pump")
    /\ UNCHANGED <<restoring, memory, active, settled, attempts, done, starts, deaths>>

-----------------------------------------------------------------------------
(* haltPending: whatever selected the tasks, each leaves the backlog and is *)
(* ended in the journal, from the tail of the queue to its head.            *)

HaltNext ==
    \E t \in doomed :
      /\ Up
      /\ \A u \in doomed : u <= t
      /\ doomed' = doomed \ {t}
      /\ pending' = pending \ {t}
      /\ inflight' = inflight \ {key[t]}
      /\ AppendEnd(t)
      /\ done' = done \cup {t}
      /\ UNCHANGED <<thread, restoring, memory, active, settled, attempts,
                     nextId, key, starts, deaths>>

\* stopBatch: the pending tasks of one batch, here any of the backlog.
StopBatch(batch) ==
    /\ Idle
    /\ batch # {}
    /\ batch \subseteq pending
    /\ doomed' = batch
    /\ UNCHANGED <<journal, thread, restoring, memory, backlog, tailChecked, history, deaths>>

-----------------------------------------------------------------------------
(* The admission scan, for one reading lim of the settings and one stat est *)
(* of every pending file.                                                   *)

HasSlot(t, lim) == running[BucketOfTask(t)] < lim.cap[BucketOfTask(t)]

\* Mutants: no second admission test; no valve for an oversize file.
MemoryIgnored(e, lim) == TRUE
MemoryStrict(e, lim) == e = 0 \/ memoryActive + e <= lim.mem

MemoryFits(e, lim) == e = 0 \/ memoryActive = 0 \/ memoryActive + e <= lim.mem

\* Mutant: the scan walks past a job that waits for memory.
NeverMemBlocked(t, est, lim) == FALSE

\* A task of the same bucket ahead of t that fits a slot and not the heap.
MemBlocked(t, est, lim) ==
    \E u \in pending : /\ u < t
                       /\ BucketOfTask(u) = BucketOfTask(t)
                       /\ HasSlot(u, lim)
                       /\ ~MemoryFits(est[u], lim)

Runnable(est, lim) ==
    {t \in pending : /\ HasSlot(t, lim)
                     /\ MemoryFits(est[t], lim)
                     /\ ~MemBlocked(t, est, lim)}

Stats == {est \in [pending -> UNION {Estimates[k] : k \in Key}] :
            \A t \in pending : est[t] \in Estimates[key[t]]}

Pumping == thread \in {"pump", "release"} /\ doomed = {}

\* takeRunnable, then start: the try record is on disk before the runner runs.
Start(t, est, lim) ==
    /\ Pumping
    /\ t \in Runnable(est, lim)
    /\ \A u \in Runnable(est, lim) : t <= u
    /\ pending' = pending \ {t}
    /\ reserved' = [reserved EXCEPT ![t] = est[t]]
    /\ memoryActive' = memoryActive + est[t]
    /\ running' = [running EXCEPT ![BucketOfTask(t)] = @ + 1]
    /\ attempts' = [attempts EXCEPT ![t] = @ + 1]
    /\ AppendTry(t, attempts[t] + 1)
    /\ active' = active \cup {t}
    /\ starts' = [starts EXCEPT ![t] = @ + 1]
    /\ UNCHANGED <<control, inflight, settled, nextId, key, done, deaths>>

StartNext == \E lim \in Limits, est \in Stats : \E t \in pending : Start(t, est, lim)

\* Nothing more can start.  After a release the journal is compacted when the
\* queue drained, or when the file has outgrown its cap.
PumpEnd ==
    /\ Pumping
    /\ \E lim \in Limits, est \in Stats : Runnable(est, lim) = {}
    /\ thread' = "idle"
    /\ \/ /\ thread = "pump" \/ pending # {} \/ \E b \in Bucket : running[b] # 0
          /\ UNCHANGED journal
       \/ /\ thread = "release"
          /\ journal' \in CompactOutcomes
    /\ UNCHANGED <<doomed, restoring, memory, backlog, tailChecked, history, deaths>>

-----------------------------------------------------------------------------
\* The finally of runTask.  A failure may trip the batch's retry budget, which
\* halts what is pending of that batch.
Settle(t, batch) ==
    /\ Idle
    /\ t \in active
    /\ AppendEnd(t)
    /\ active' = active \ {t}
    /\ settled' = settled \cup {t}
    /\ done' = done \cup {t}
    /\ batch \subseteq pending
    /\ doomed' = batch
    /\ UNCHANGED <<thread, restoring, memory, pending, inflight, attempts,
                   nextId, key, starts, deaths>>

\* The finally of start, a later microtask: only now are the slot, the key and
\* the heap given back.
Release(t) ==
    /\ Idle
    /\ t \in settled
    /\ settled' = settled \ {t}
    /\ running' = [running EXCEPT ![BucketOfTask(t)] = @ - 1]
    /\ inflight' = inflight \ {key[t]}
    /\ reserved' = [reserved EXCEPT ![t] = 0]
    /\ memoryActive' = IF reserved[t] <= memoryActive THEN memoryActive - reserved[t] ELSE 0
    /\ UNCHANGED <<restoring, pending, active, attempts, journal, tailChecked, history, deaths>>
    /\ BeginPump("release")

-----------------------------------------------------------------------------
NothingRuns ==
    /\ doomed' = {} /\ restoring' = {}
    /\ pending' = {} /\ inflight' = {} /\ active' = {} /\ settled' = {}
    /\ running' = [b \in Bucket |-> 0]
    /\ attempts' = [t \in Task |-> 0]
    /\ reserved' = [t \in Task |-> 0] /\ memoryActive' = 0
    /\ tailChecked' = FALSE

Die ==
    /\ deaths < MaxDeaths
    /\ deaths' = deaths + 1
    /\ thread' = "down"
    /\ NothingRuns

\* A crash, perhaps in the middle of the append of a single record.
Crash ==
    /\ Up
    /\ \E c \in {journal.cut, TRUE} : journal' = [journal EXCEPT !.cut = c]
    /\ Die
    /\ UNCHANGED history

\* A crash in the middle of the one append of a whole request.
CrashInEnqueue(files) ==
    /\ Idle
    /\ nextId + Room(files) <= MaxTasks + 1
    /\ LET ids == nextId .. nextId + Room(files) - 1 IN
         \E f \in Orders(ids, files), k \in ids :
           /\ Mint({t \in ids : t < k}, f)
           /\ nextId' = k
           /\ journal' = [journal EXCEPT !.enq = @ \cup Torn(ids, k).got, !.cut = TRUE]
    /\ Die
    /\ UNCHANGED <<done, starts>>

\* shutdown on SIGTERM or SIGINT: the journal is left as it is.
Stop ==
    /\ Idle
    /\ Die
    /\ UNCHANGED <<journal, history>>

\* The fold at boot: of a file it cannot read, it returns no task.
Boot ==
    /\ thread = "down"
    /\ thread' = "restore"
    /\ restoring' \in {Live(journal)} \cup (IF "read" \in Faults THEN {{}} ELSE {})
    /\ UNCHANGED <<journal, doomed, memory, backlog, tailChecked, history, deaths>>

\* The next candidate of restoreQueueOnBoot, in file order.
Candidate(t) ==
    /\ thread = "restore"
    /\ t \in restoring
    /\ \A u \in restoring : t <= u
    /\ restoring' = restoring \ {t}

Drop(t) ==
    /\ AppendEnd(t)
    /\ done' = done \cup {t}
    /\ UNCHANGED <<thread, doomed, memory, backlog, nextId, key, starts, deaths>>

\* Mutant: one strike too many.
PoisonLate(t) == journal.try[t] > MaxAttempts

Poison(t) == journal.try[t] >= MaxAttempts

Quarantine(t) == Candidate(t) /\ Poison(t) /\ Drop(t)

\* The file is gone, or its output exists already.
Skip(t) == Candidate(t) /\ ~Poison(t) /\ Drop(t)

Admitted(t) == key[t] \in inflight

\* A survivor is handed to admitRestored, which drops a key it already has and
\* journals nothing.
Restore(t) ==
    /\ Candidate(t)
    /\ ~Poison(t)
    /\ IF Admitted(t)
       THEN UNCHANGED <<pending, inflight, attempts>>
       ELSE /\ pending' = pending \cup {t}
            /\ inflight' = inflight \cup {key[t]}
            /\ attempts' = [attempts EXCEPT ![t] = journal.try[t]]
    /\ UNCHANGED <<journal, thread, doomed, memory, active, settled, tailChecked,
                   history, deaths>>

RestoreEnd ==
    /\ thread = "restore"
    /\ restoring = {}
    /\ journal' \in CompactOutcomes
    /\ UNCHANGED <<restoring, memory, backlog, tailChecked, history, deaths>>
    /\ BeginPump("pump")

-----------------------------------------------------------------------------
Init ==
    /\ journal = [enq |-> {}, end |-> {}, try |-> [t \in Task |-> 0], cut |-> FALSE]
    /\ thread = "down"
    /\ doomed = {} /\ restoring = {}
    /\ pending = {} /\ inflight = {} /\ active = {} /\ settled = {}
    /\ running = [b \in Bucket |-> 0]
    /\ attempts = [t \in Task |-> 0]
    /\ reserved = [t \in Task |-> 0] /\ memoryActive = 0
    /\ tailChecked = FALSE
    /\ nextId = 1
    /\ key = [t \in Task |-> NoKey]
    /\ done = {}
    /\ starts = [t \in Task |-> 0]
    /\ deaths = 0

\* The rest of the handler that has the thread.
Continue ==
    \/ HaltNext
    \/ StartNext
    \/ PumpEnd
    \/ \E t \in Task : Quarantine(t) \/ Skip(t) \/ Restore(t)
    \/ RestoreEnd

Work ==
    \/ \E files \in SUBSET Key \ {{}} : Enqueue(files)
    \/ \E batch \in SUBSET Task : StopBatch(batch)
    \/ \E t \in Task, batch \in SUBSET Task : Settle(t, batch)
    \/ \E t \in Task : Release(t)
    \/ Continue
    \/ Boot

Next ==
    \/ Work
    \/ Crash
    \/ \E files \in SUBSET Key \ {{}} : CrashInEnqueue(files)
    \/ Stop

Spec == Init /\ [][Next]_vars

\* A handler that has the thread runs on, and the supervisor boots a dead
\* backend again.  A runner returns, and the event loop serves its promise
\* chain in turn however many requests it takes in between: strong fairness.
Fairness ==
    /\ WF_vars(Continue)
    /\ WF_vars(Boot)
    /\ \A t \in Task : SF_vars(\E batch \in SUBSET Task : Settle(t, batch))
    /\ \A t \in Task : SF_vars(Release(t))

FairSpec == Spec /\ Fairness

-----------------------------------------------------------------------------
(* Properties.                                                              *)

\* The shapes of the queue's variables.
TypeOK ==
    /\ journal \in [enq : SUBSET Task, end : SUBSET Task,
                    try : [Task -> Nat], cut : BOOLEAN]
    /\ thread \in {"down", "restore", "idle", "pump", "release"}
    /\ doomed \subseteq pending
    /\ restoring \subseteq Task
    /\ pending \subseteq Task /\ active \subseteq Task /\ settled \subseteq Task
    /\ inflight \subseteq Key
    /\ running \in [Bucket -> Int]
    /\ attempts \in [Task -> Nat] /\ starts \in [Task -> Nat]
    /\ reserved \in [Task -> Nat] /\ memoryActive \in Nat
    /\ tailChecked \in BOOLEAN
    /\ nextId \in 1 .. MaxTasks + 1
    /\ key \in [Task -> Key \cup {NoKey}]
    /\ done \subseteq Task
    /\ deaths \in Nat

\* Whatever order of crashes, torn appends, restores and compactions: what the
\* next boot would read back is exactly what enqueue accepted and no terminal
\* has ended (crash_recovery.mdx 8.1, commit points 1 and 2).
Durable == Live(journal) = (1 .. nextId - 1) \ done

\* A live journal entry is always somebody's work: still to be restored, in the
\* backlog, or running.  Nothing accepted sits in the file until the next boot,
\* and nothing runs that a crash would forget.
Owned == Up => Live(journal) = restoring \cup pending \cup active

Holders == pending \cup active \cup settled

\* inflight is exactly the keys of the tasks pending or running, one task per
\* key: two runners never write the output of one file.
OneTaskPerKey ==
    /\ inflight = {key[t] : t \in Holders}
    /\ \A t, u \in Holders : key[t] = key[u] => t = u

\* Reservations of two jobs never exceed the heap budget together; a job over
\* the budget runs alone; and no reservation outlives its job (a leak would
\* close admission for good).
HeapBudget ==
    LET holding == {t \in Task : reserved[t] > 0} IN
    /\ holding \subseteq active \cup settled
    /\ holding = {} => memoryActive = 0
    /\ \A t \in holding : holding = {t} => memoryActive = reserved[t]
    /\ Cardinality(holding) > 1 => \E lim \in Limits : memoryActive <= lim.mem

\* Strikes survive the crash they count: the file knows every run of a live
\* task, and no task is run more often than the limit, over all boots.
Strikes ==
    \A t \in Task : /\ starts[t] <= MaxAttempts
                    /\ t \in Live(journal) => journal.try[t] = starts[t]

\* The backlog of a bucket is first come, first served: a job never starts
\* over an older one of its bucket, however small it is (memory.mdx 2.3).
FirstComeFirstServed ==
    [][\A t \in active' \ active, u \in pending :
          BucketOfTask(u) = BucketOfTask(t) => t <= u]_vars

\* The queue implements the promise of DurableBacklog, a task being ended when
\* the journal says so: deaths, restores and compactions are invisible.
Backlog == INSTANCE DurableBacklog WITH
             accepted <- 1 .. nextId - 1,
             ended    <- (1 .. nextId - 1) \ Live(journal),
             tries    <- starts

ImplementsBacklog == Backlog!BacklogSpec

\* Every accepted task comes to a terminal, over crashes, restarts and jobs
\* larger than the heap budget.
EverySettles == \A t \in Task : (t < nextId) ~> (t \in done)
=============================================================================
