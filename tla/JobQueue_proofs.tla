--------------------------- MODULE JobQueue_proofs ---------------------------
(* Proofs about JobQueue, for every set of keys, buckets, limits and bounds. *)
EXTENDS JobQueue, FiniteSetTheorems, TLAPS

\* Ids are minted from a counter: nothing refers to an id above it, and every
\* id below it stands for a file.
Ids ==
    /\ journal.enq \subseteq 1 .. nextId - 1
    /\ restoring \subseteq 1 .. nextId - 1
    /\ Holders \subseteq 1 .. nextId - 1
    /\ \A t \in 1 .. nextId - 1 : key[t] \in Key

\* A task is in one place at a time.
Disjoint ==
    /\ pending \cap active = {}
    /\ pending \cap settled = {}
    /\ active \cap settled = {}

\* The inductive invariant behind TypeOK and OneTaskPerKey.  OneTaskPerKey is
\* not inductive alone: giving back the key of one task must not free the key
\* of another, which needs Disjoint and doomed \subseteq pending, and a fresh
\* id must not be in use, which needs Ids.
QueueInv == TypeOK /\ Ids /\ Disjoint /\ OneTaskPerKey

-----------------------------------------------------------------------------
\* What an append leaves of the records it was given, whatever fails.
LEMMA LandedType ==
    ASSUME NEW ids \in SUBSET Task, NEW w \in Landed(ids), TypeOK
    PROVE  /\ w.got \subseteq ids
           /\ w.cut \in BOOLEAN
           /\ w.checked \in BOOLEAN
<1>1. Readable(ids) \subseteq ids
  BY DEF Readable
<1>2. CASE w = [got |-> Readable(ids), cut |-> FALSE, checked |-> TRUE]
  BY <1>1, <1>2
<1>3. CASE w \in {Torn(ids, k) : k \in ids}
  <2>1. PICK k \in ids : w = Torn(ids, k)
    BY <1>3
  <2> QED
    BY <1>1, <2>1 DEF Torn
<1>4. CASE w \in [got : {{}}, cut : {journal.cut}, checked : {tailChecked, TRUE}]
  BY <1>4 DEF TypeOK
<1> QED
  BY <1>2, <1>3, <1>4 DEF Landed

\* Appending the record of one task keeps the type of the journal.
LEMMA AppendTryType ==
    ASSUME NEW t \in Task, NEW n \in Nat, TypeOK, AppendTry(t, n)
    PROVE  /\ journal' \in [enq : SUBSET Task, end : SUBSET Task,
                            try : [Task -> Nat], cut : BOOLEAN]
           /\ journal'.enq = journal.enq
           /\ tailChecked' \in BOOLEAN
<1>1. PICK w \in Landed({t}) :
        /\ journal' = [journal EXCEPT !.try[t] = IF t \in w.got THEN n ELSE @, !.cut = w.cut]
        /\ tailChecked' = w.checked
  BY DEF AppendTry
<1>2. w.cut \in BOOLEAN /\ w.checked \in BOOLEAN
  BY LandedType
<1> QED
  BY <1>1, <1>2 DEF TypeOK

LEMMA AppendEndType ==
    ASSUME NEW t \in Task, TypeOK, AppendEnd(t)
    PROVE  /\ journal' \in [enq : SUBSET Task, end : SUBSET Task,
                            try : [Task -> Nat], cut : BOOLEAN]
           /\ journal'.enq = journal.enq
           /\ tailChecked' \in BOOLEAN
<1>1. PICK w \in Landed({t}) :
        /\ journal' = [journal EXCEPT !.end = @ \cup w.got, !.cut = w.cut]
        /\ tailChecked' = w.checked
  BY DEF AppendEnd
<1>2. w.got \subseteq Task /\ w.cut \in BOOLEAN /\ w.checked \in BOOLEAN
  BY LandedType
<1> QED
  BY <1>1, <1>2 DEF TypeOK

\* Counting a slot up or down keeps the type of the counters.
LEMMA CounterType ==
    ASSUME NEW f \in [Bucket -> Int], NEW b, NEW d \in Int
    PROVE  /\ [f EXCEPT ![b] = @ + d] \in [Bucket -> Int]
           /\ [f EXCEPT ![b] = @ - d] \in [Bucket -> Int]
<1>1. CASE b \in Bucket
  BY <1>1
<1>2. CASE b \notin Bucket
  BY <1>2
<1> QED
  BY <1>1, <1>2

\* A compaction keeps the type and invents no id.
LEMMA CompactType ==
    ASSUME TypeOK, journal' \in CompactOutcomes
    PROVE  /\ journal' \in [enq : SUBSET Task, end : SUBSET Task,
                            try : [Task -> Nat], cut : BOOLEAN]
           /\ journal'.enq \subseteq journal.enq
<1>1. Compacted(journal) \in [enq : SUBSET Task, end : SUBSET Task,
                              try : [Task -> Nat], cut : BOOLEAN]
      /\ Compacted(journal).enq \subseteq journal.enq
  BY DEF TypeOK, Compacted, Live
<1>2. CASE journal' = Compacted(journal)
  BY <1>1, <1>2
<1>3. CASE journal' = [Compacted(journal) EXCEPT !.enq = {}, !.try = [t \in Task |-> 0]]
  BY <1>1, <1>3
<1>4. CASE journal' = journal
  BY <1>4 DEF TypeOK
<1> QED
  BY <1>2, <1>3, <1>4 DEF CompactOutcomes

\* The number of tasks a request is granted is a natural number.
LEMMA RoomType ==
    ASSUME NEW files \in SUBSET Key, TypeOK
    PROVE  Room(files) \in Nat
<1>1. IsFiniteSet(Task)
  BY BoundAssumption, FS_Interval DEF Task
<1>2. IsFiniteSet(pending)
  BY <1>1, FS_Subset, pending \in SUBSET Task DEF TypeOK
<1>3. IsFiniteSet(Fresh(files))
  BY KeyAssumption, FS_Subset, Fresh(files) \in SUBSET Key DEF Fresh
<1>4. Cardinality(pending) \in Nat /\ Cardinality(Fresh(files)) \in Nat
  BY <1>2, <1>3, FS_CardinalityType
<1> QED
  BY <1>4, BoundAssumption DEF Room

LEMMA OldIds ==
    ASSUME TypeOK
    PROVE  (1 .. nextId - 1) \subseteq Task
<1>1. nextId \in 1 .. MaxTasks + 1 /\ MaxTasks \in Nat
  BY BoundAssumption DEF TypeOK
<1> QED
  BY <1>1 DEF Task

\* The ids an accepted request is given are new.
LEMMA NewIds ==
    ASSUME NEW files \in SUBSET Key, TypeOK, nextId + Room(files) <= MaxTasks + 1
    PROVE  /\ (nextId .. nextId + Room(files) - 1) \subseteq Task
           /\ (nextId .. nextId + Room(files) - 1) \cap (1 .. nextId - 1) = {}
           /\ 1 .. nextId + Room(files) - 1
                = (1 .. nextId - 1) \cup (nextId .. nextId + Room(files) - 1)
           /\ nextId + Room(files) \in 1 .. MaxTasks + 1
<1>1. Room(files) \in Nat
  BY RoomType
<1>2. nextId \in 1 .. MaxTasks + 1 /\ MaxTasks \in Nat
  BY BoundAssumption DEF TypeOK
<1>3. \A a \in Nat, n \in Nat, m \in Nat :
        a \in 1 .. m + 1 /\ a + n <= m + 1
          => /\ (a .. a + n - 1) \subseteq 1 .. m
             /\ (a .. a + n - 1) \cap (1 .. a - 1) = {}
             /\ 1 .. a + n - 1 = (1 .. a - 1) \cup (a .. a + n - 1)
             /\ a + n \in 1 .. m + 1
  OBVIOUS
<1> QED
  BY <1>1, <1>2, <1>3 DEF Task

-----------------------------------------------------------------------------
LEMMA InitQueueInv == Init => QueueInv
<1> SUFFICES ASSUME Init PROVE QueueInv
  OBVIOUS
<1>1. TypeOK
  <2>1. nextId \in 1 .. MaxTasks + 1
    BY BoundAssumption DEF Init
  <2>2. journal \in [enq : SUBSET Task, end : SUBSET Task,
                     try : [Task -> Nat], cut : BOOLEAN]
    BY DEF Init
  <2>3. /\ running \in [Bucket -> Int]
        /\ attempts \in [Task -> Nat]
        /\ starts \in [Task -> Nat]
        /\ reserved \in [Task -> Nat]
        /\ key \in [Task -> Key \cup {NoKey}]
    BY DEF Init
  <2> QED
    BY <2>1, <2>2, <2>3 DEF Init, TypeOK
<1>2. Ids
  BY DEF Init, Ids, Holders
<1>3. Disjoint /\ OneTaskPerKey
  BY DEF Init, Disjoint, OneTaskPerKey, Holders
<1> QED
  BY <1>1, <1>2, <1>3 DEF QueueInv

-----------------------------------------------------------------------------
(* Every action preserves QueueInv.                                          *)

LEMMA EnqueueInv ==
    ASSUME QueueInv, NEW files \in SUBSET Key, Enqueue(files)
    PROVE  QueueInv'
<1> DEFINE ids == nextId .. nextId + Room(files) - 1
<1>1. PICK f \in Orders(ids, files) :
        /\ Mint(ids, f)
        /\ inflight' = inflight \cup {f[t] : t \in ids}
  BY DEF Enqueue
<1>2. /\ nextId' = nextId + Room(files)
      /\ pending' = pending \cup ids
      /\ doomed' \subseteq pending'
      /\ thread' = "pump"
      /\ UNCHANGED <<restoring, running, reserved, memoryActive, active, settled,
                     attempts, done, starts, deaths>>
  BY DEF Enqueue, BeginPump, memory
<1>3. /\ ids \subseteq Task
      /\ ids \cap (1 .. nextId - 1) = {}
      /\ 1 .. nextId' - 1 = (1 .. nextId - 1) \cup ids
      /\ nextId' \in 1 .. MaxTasks + 1
  <2>1. nextId + Room(files) <= MaxTasks + 1 /\ TypeOK
    BY DEF Enqueue, QueueInv
  <2>2. /\ ids \subseteq Task
        /\ ids \cap (1 .. nextId - 1) = {}
        /\ 1 .. nextId + Room(files) - 1 = (1 .. nextId - 1) \cup ids
        /\ nextId + Room(files) \in 1 .. MaxTasks + 1
    BY <2>1, NewIds, Zenon
  <2>3. nextId' = nextId + Room(files) /\ nextId' - 1 = nextId + Room(files) - 1
    <3>1. nextId \in Int
      BY BoundAssumption DEF QueueInv, TypeOK
    <3>2. Room(files) \in Int
      BY RoomType DEF QueueInv
    <3> QED
      BY <1>2, <3>1, <3>2
  <2> QED
    BY <2>2, <2>3, Zenon
<1>4. /\ f \in [ids -> Key \ inflight]
      /\ \A t, u \in ids : f[t] = f[u] => t = u
  BY DEF Orders, Fresh
<1>5. /\ journal' \in [enq : SUBSET Task, end : SUBSET Task,
                        try : [Task -> Nat], cut : BOOLEAN]
      /\ journal'.enq \subseteq journal.enq \cup ids
      /\ tailChecked' \in BOOLEAN
  <2>1. CASE UNCHANGED <<journal, tailChecked>>
    BY <2>1 DEF QueueInv, TypeOK
  <2>2. CASE \E w \in Landed(ids) : AppendEnq(w)
    <3>1. PICK w \in Landed(ids) : AppendEnq(w)
      BY <2>2
    <3>2. w.got \subseteq ids /\ w.cut \in BOOLEAN /\ w.checked \in BOOLEAN
      BY LandedType, <1>3 DEF QueueInv
    <3> QED
      BY <3>1, <3>2, <1>3 DEF QueueInv, TypeOK, AppendEnq
  <2> QED
    BY <2>1, <2>2 DEF Enqueue
<1>6. /\ key' \in [Task -> Key \cup {NoKey}]
      /\ \A t \in ids : key'[t] = f[t]
      /\ \A t \in Task \ ids : key'[t] = key[t]
  BY <1>1, <1>3, <1>4 DEF Mint, QueueInv, TypeOK
<1>7. TypeOK'
  <2>1. inflight' \subseteq Key
    BY <1>1, <1>4 DEF QueueInv, TypeOK
  <2>2. pending' \subseteq Task /\ done' \subseteq Task
    BY <1>2, <1>3 DEF QueueInv, TypeOK
  <2> QED
    BY <1>2, <1>3, <1>5, <1>6, <2>1, <2>2 DEF QueueInv, TypeOK
<1>8. Ids'
  <2>1. journal'.enq \subseteq 1 .. nextId' - 1
    BY <1>3, <1>5 DEF QueueInv, Ids
  <2>2. restoring' \subseteq 1 .. nextId' - 1 /\ Holders' \subseteq 1 .. nextId' - 1
    BY <1>2, <1>3 DEF QueueInv, Ids, Holders
  <2>3. (1 .. nextId - 1) \subseteq Task \ ids
    BY <1>3, OldIds DEF QueueInv
  <2>4. \A t \in 1 .. nextId' - 1 : key'[t] \in Key
    BY <1>3, <1>4, <1>6, <2>3 DEF QueueInv, Ids
  <2> QED
    BY <2>1, <2>2, <2>4 DEF Ids
<1>9. Disjoint'
  BY <1>2, <1>3 DEF QueueInv, Ids, Disjoint, Holders
<1>10. OneTaskPerKey'
  <2>1. Holders' = Holders \cup ids /\ Holders \cap ids = {}
    BY <1>2, <1>3 DEF QueueInv, Ids, Holders
  <2>2. \A t \in Holders : t \in Task \ ids
    BY <2>1 DEF QueueInv, TypeOK, Holders
  <2>3. \A t \in Holders : key'[t] = key[t] /\ key[t] \in inflight
    BY <2>2, <1>6 DEF QueueInv, OneTaskPerKey
  <2>4. \A t \in ids : key'[t] = f[t] /\ f[t] \notin inflight
    BY <1>4, <1>6
  <2>5. inflight' = {key'[t] : t \in Holders'}
    BY <1>1, <2>1, <2>3, <2>4 DEF QueueInv, OneTaskPerKey
  <2>6. \A t, u \in Holders' : key'[t] = key'[u] => t = u
    BY <1>4, <2>1, <2>3, <2>4 DEF QueueInv, OneTaskPerKey
  <2> QED
    BY <2>5, <2>6 DEF OneTaskPerKey
<1> QED
  BY <1>7, <1>8, <1>9, <1>10 DEF QueueInv

LEMMA HaltInv ==
    ASSUME QueueInv, HaltNext
    PROVE  QueueInv'
<1>1. PICK t \in doomed :
        /\ doomed' = doomed \ {t}
        /\ pending' = pending \ {t}
        /\ inflight' = inflight \ {key[t]}
        /\ AppendEnd(t)
        /\ done' = done \cup {t}
  BY DEF HaltNext
<1>2. UNCHANGED <<thread, restoring, running, reserved, memoryActive, active, settled,
                  attempts, nextId, key, starts, deaths>>
  BY DEF HaltNext, memory
<1>3. t \in pending /\ t \in Task
  BY DEF QueueInv, TypeOK
<1>4. TypeOK'
  BY <1>1, <1>2, <1>3, AppendEndType DEF QueueInv, TypeOK
<1>5. Ids'
  BY <1>1, <1>2, <1>3, AppendEndType DEF QueueInv, Ids, Holders
<1>6. Disjoint'
  BY <1>1, <1>2 DEF QueueInv, Disjoint
<1>7. OneTaskPerKey'
  <2>1. Holders' = Holders \ {t}
    BY <1>1, <1>2, <1>3 DEF QueueInv, Disjoint, Holders
  <2> QED
    BY <1>1, <1>2, <1>3, <2>1 DEF QueueInv, OneTaskPerKey, Holders
<1> QED
  BY <1>4, <1>5, <1>6, <1>7 DEF QueueInv

LEMMA StopBatchInv ==
    ASSUME QueueInv, NEW batch, StopBatch(batch)
    PROVE  QueueInv'
  BY DEF StopBatch, QueueInv, TypeOK, Ids, Disjoint, OneTaskPerKey, Holders,
         memory, backlog, history

LEMMA StartInv ==
    ASSUME QueueInv, StartNext
    PROVE  QueueInv'
<1>1. PICK lim \in Limits, est \in Stats, t \in pending : Start(t, est, lim)
  BY DEF StartNext
<1>2. t \in Task /\ est[t] \in Nat
  <2>1. est[t] \in Estimates[key[t]] /\ est[t] \in UNION {Estimates[k] : k \in Key}
    BY DEF Stats
  <2> QED
    BY <2>1, MapAssumption DEF QueueInv, TypeOK
<1>3. /\ pending' = pending \ {t}
      /\ active' = active \cup {t}
      /\ doomed = {}
      /\ UNCHANGED <<thread, doomed, restoring, inflight, settled, nextId, key, done, deaths>>
  BY <1>1 DEF Start, Pumping, control
<1>4. TypeOK'
  <2>1. /\ running' \in [Bucket -> Int]
        /\ reserved' \in [Task -> Nat]
        /\ memoryActive' \in Nat
        /\ attempts' \in [Task -> Nat]
        /\ starts' \in [Task -> Nat]
    <3>1. /\ running' = [running EXCEPT ![BucketOfTask(t)] = @ + 1]
          /\ reserved' = [reserved EXCEPT ![t] = est[t]]
          /\ memoryActive' = memoryActive + est[t]
          /\ attempts' = [attempts EXCEPT ![t] = @ + 1]
          /\ starts' = [starts EXCEPT ![t] = @ + 1]
      BY <1>1 DEF Start
    <3>2. running' \in [Bucket -> Int]
      <4>1. running \in [Bucket -> Int] /\ 1 \in Int
        BY DEF QueueInv, TypeOK
      <4>2. [running EXCEPT ![BucketOfTask(t)] = @ + 1] \in [Bucket -> Int]
        BY <4>1, CounterType, Zenon
      <4> QED
        BY <3>1, <4>2, Zenon
    <3>3. reserved' \in [Task -> Nat] /\ memoryActive' \in Nat
      BY <3>1, <1>2 DEF QueueInv, TypeOK
    <3>4. attempts' \in [Task -> Nat] /\ starts' \in [Task -> Nat]
      BY <3>1, <1>2 DEF QueueInv, TypeOK
    <3> QED
      BY <3>2, <3>3, <3>4
  <2>2. attempts[t] + 1 \in Nat /\ AppendTry(t, attempts[t] + 1)
    BY <1>1, <1>2 DEF Start, QueueInv, TypeOK
  <2> QED
    BY <1>2, <1>3, <2>1, <2>2, AppendTryType DEF QueueInv, TypeOK
<1>5. Ids'
  <2>1. journal'.enq = journal.enq
    BY <1>1, <1>2, AppendTryType DEF Start, QueueInv, TypeOK
  <2> QED
    BY <1>3, <2>1 DEF QueueInv, Ids, Holders
<1>6. Disjoint'
  BY <1>3 DEF QueueInv, Disjoint
<1>7. OneTaskPerKey'
  <2>1. Holders' = Holders
    BY <1>3 DEF Holders
  <2> QED
    BY <1>3, <2>1 DEF QueueInv, OneTaskPerKey
<1> QED
  BY <1>4, <1>5, <1>6, <1>7 DEF QueueInv

LEMMA PumpEndInv ==
    ASSUME QueueInv, PumpEnd
    PROVE  QueueInv'
<1>1. /\ thread' = "idle"
      /\ UNCHANGED <<doomed, restoring, memory, backlog, tailChecked, history, deaths>>
      /\ UNCHANGED journal \/ journal' \in CompactOutcomes
  BY DEF PumpEnd
<1>2. /\ journal' \in [enq : SUBSET Task, end : SUBSET Task,
                        try : [Task -> Nat], cut : BOOLEAN]
      /\ journal'.enq \subseteq journal.enq
  BY <1>1, CompactType DEF QueueInv, TypeOK
<1> QED
  BY <1>1, <1>2 DEF QueueInv, TypeOK, Ids, Disjoint, OneTaskPerKey, Holders,
                    memory, backlog, history

LEMMA SettleInv ==
    ASSUME QueueInv, NEW t \in Task, NEW batch, Settle(t, batch)
    PROVE  QueueInv'
<1>1. /\ t \in active
      /\ AppendEnd(t)
      /\ active' = active \ {t}
      /\ settled' = settled \cup {t}
      /\ done' = done \cup {t}
      /\ doomed' \subseteq pending
      /\ UNCHANGED <<thread, restoring, running, reserved, memoryActive, pending, inflight,
                     attempts, nextId, key, starts, deaths>>
  BY DEF Settle, memory
<1>2. TypeOK'
  BY <1>1, AppendEndType DEF QueueInv, TypeOK
<1>3. Ids'
  BY <1>1, AppendEndType DEF QueueInv, Ids, Holders
<1>4. Disjoint'
  BY <1>1 DEF QueueInv, Disjoint
<1>5. OneTaskPerKey'
  <2>1. Holders' = Holders
    BY <1>1 DEF Holders
  <2> QED
    BY <1>1, <2>1 DEF QueueInv, OneTaskPerKey
<1> QED
  BY <1>2, <1>3, <1>4, <1>5 DEF QueueInv

LEMMA ReleaseInv ==
    ASSUME QueueInv, NEW t \in Task, Release(t)
    PROVE  QueueInv'
<1>1. /\ t \in settled
      /\ settled' = settled \ {t}
      /\ inflight' = inflight \ {key[t]}
      /\ running' = [running EXCEPT ![BucketOfTask(t)] = @ - 1]
      /\ reserved' = [reserved EXCEPT ![t] = 0]
      /\ memoryActive' = IF reserved[t] <= memoryActive THEN memoryActive - reserved[t] ELSE 0
      /\ doomed' \subseteq pending'
      /\ thread' = "release"
      /\ UNCHANGED <<restoring, pending, active, attempts, journal, tailChecked,
                     nextId, key, done, starts, deaths>>
  BY DEF Release, BeginPump, history
<1>2. TypeOK'
  <2>1. running' \in [Bucket -> Int]
    <3>1. running \in [Bucket -> Int] /\ 1 \in Int
      BY DEF QueueInv, TypeOK
    <3>2. [running EXCEPT ![BucketOfTask(t)] = @ - 1] \in [Bucket -> Int]
      BY <3>1, CounterType, Zenon
    <3> QED
      BY <1>1, <3>2, Zenon
  <2>2. reserved' \in [Task -> Nat] /\ memoryActive' \in Nat
    BY <1>1 DEF QueueInv, TypeOK
  <2> QED
    BY <1>1, <2>1, <2>2 DEF QueueInv, TypeOK
<1>3. Ids'
  BY <1>1 DEF QueueInv, Ids, Holders
<1>4. Disjoint'
  BY <1>1 DEF QueueInv, Disjoint
<1>5. OneTaskPerKey'
  <2>1. Holders' = Holders \ {t} /\ t \in Holders
    BY <1>1 DEF QueueInv, Disjoint, Holders
  <2> QED
    BY <1>1, <2>1 DEF QueueInv, OneTaskPerKey
<1> QED
  BY <1>2, <1>3, <1>4, <1>5 DEF QueueInv

\* Death empties everything the process held, whatever it leaves on disk.
LEMMA DieInv ==
    ASSUME QueueInv, Die,
           journal' \in [enq : SUBSET Task, end : SUBSET Task,
                         try : [Task -> Nat], cut : BOOLEAN],
           journal'.enq \subseteq 1 .. nextId' - 1,
           nextId' \in 1 .. MaxTasks + 1,
           key' \in [Task -> Key \cup {NoKey}],
           \A t \in 1 .. nextId' - 1 : key'[t] \in Key,
           UNCHANGED <<done, starts>>
    PROVE  QueueInv'
<1>1. /\ thread' = "down" /\ deaths' \in Nat
      /\ doomed' = {} /\ restoring' = {} /\ pending' = {} /\ inflight' = {}
      /\ active' = {} /\ settled' = {} /\ tailChecked' = FALSE
      /\ running' = [b \in Bucket |-> 0] /\ attempts' = [t \in Task |-> 0]
      /\ reserved' = [t \in Task |-> 0] /\ memoryActive' = 0
  BY DEF Die, NothingRuns, QueueInv, TypeOK
<1>2. TypeOK'
  <2>1. /\ running' \in [Bucket -> Int]
        /\ attempts' \in [Task -> Nat]
        /\ reserved' \in [Task -> Nat]
    BY <1>1
  <2> QED
    BY <1>1, <2>1 DEF QueueInv, TypeOK
<1>3. Ids'
  BY <1>1 DEF Ids, Holders
<1>4. Disjoint' /\ OneTaskPerKey'
  BY <1>1 DEF Disjoint, OneTaskPerKey, Holders
<1> QED
  BY <1>2, <1>3, <1>4 DEF QueueInv

LEMMA CrashInv ==
    ASSUME QueueInv, Crash \/ Stop
    PROVE  QueueInv'
<1>1. Die /\ UNCHANGED <<nextId, key, done, starts>>
  BY DEF Crash, Stop, history
<1>2. /\ journal' \in [enq : SUBSET Task, end : SUBSET Task,
                        try : [Task -> Nat], cut : BOOLEAN]
      /\ journal'.enq = journal.enq
  BY DEF Crash, Stop, QueueInv, TypeOK
<1> QED
  BY <1>1, <1>2, DieInv DEF QueueInv, TypeOK, Ids

LEMMA CrashInEnqueueInv ==
    ASSUME QueueInv, NEW files \in SUBSET Key, CrashInEnqueue(files)
    PROVE  QueueInv'
<1> DEFINE ids == nextId .. nextId + Room(files) - 1
<1>1. PICK f \in Orders(ids, files), k \in ids :
        /\ Mint({t \in ids : t < k}, f)
        /\ nextId' = k
        /\ journal' = [journal EXCEPT !.enq = @ \cup Torn(ids, k).got, !.cut = TRUE]
  BY DEF CrashInEnqueue
<1>2. Die /\ UNCHANGED <<done, starts>>
  BY DEF CrashInEnqueue
<1>3. ids \subseteq Task
  <2>1. nextId + Room(files) <= MaxTasks + 1 /\ TypeOK
    BY DEF CrashInEnqueue, QueueInv
  <2> QED
    BY <2>1, NewIds
<1>4. f \in [ids -> Key]
  BY DEF Orders, Fresh
<1>5. Torn(ids, k).got \subseteq {t \in ids : t < k}
  BY DEF Torn, Readable
<1>6. /\ nextId' \in 1 .. MaxTasks + 1
      /\ 1 .. nextId' - 1 = (1 .. nextId - 1) \cup {t \in ids : t < k}
  <2>1. /\ nextId \in Nat /\ nextId >= 1
        /\ Room(files) \in Nat
    <3>1. nextId \in 1 .. MaxTasks + 1
      BY DEF QueueInv, TypeOK
    <3>2. Room(files) \in Nat
      BY RoomType DEF QueueInv
    <3> QED
      BY <3>1, <3>2, BoundAssumption
  <2>2. k \in 1 .. MaxTasks /\ k >= nextId /\ k <= nextId + Room(files) - 1
    BY <1>3, <2>1 DEF Task
  <2>3. MaxTasks \in Nat
    BY BoundAssumption
  <2> QED
    BY <1>1, <2>1, <2>2, <2>3
<1>7. /\ journal' \in [enq : SUBSET Task, end : SUBSET Task,
                        try : [Task -> Nat], cut : BOOLEAN]
      /\ journal'.enq \subseteq 1 .. nextId' - 1
  BY <1>1, <1>3, <1>5, <1>6 DEF QueueInv, TypeOK, Ids
<1>8. /\ key' \in [Task -> Key \cup {NoKey}]
      /\ \A t \in 1 .. nextId' - 1 : key'[t] \in Key
  <2>1. key' = [t \in Task |-> IF t \in {u \in ids : u < k} THEN f[t] ELSE key[t]]
    BY <1>1 DEF Mint
  <2>2. (1 .. nextId - 1) \subseteq Task
    BY OldIds DEF QueueInv
  <2>3. key' \in [Task -> Key \cup {NoKey}]
    BY <2>1, <1>4 DEF QueueInv, TypeOK
  <2>4. \A t \in {u \in ids : u < k} : key'[t] \in Key
    BY <2>1, <1>3, <1>4
  <2>5. \A t \in (1 .. nextId - 1) \ {u \in ids : u < k} : key'[t] \in Key
    BY <2>1, <2>2 DEF QueueInv, Ids
  <2> QED
    BY <1>6, <2>3, <2>4, <2>5
<1> QED
  BY <1>2, <1>6, <1>7, <1>8, DieInv

LEMMA BootInv ==
    ASSUME QueueInv, Boot
    PROVE  QueueInv'
<1>1. /\ thread' = "restore"
      /\ restoring' \subseteq journal.enq
      /\ UNCHANGED <<journal, doomed, memory, backlog, tailChecked, history, deaths>>
  BY DEF Boot, Live
<1> QED
  BY <1>1 DEF QueueInv, TypeOK, Ids, Disjoint, OneTaskPerKey, Holders,
              memory, backlog, history

LEMMA DropInv ==
    ASSUME QueueInv, NEW t \in Task, Candidate(t), Drop(t)
    PROVE  QueueInv'
<1>1. /\ restoring' \subseteq restoring
      /\ AppendEnd(t)
      /\ done' = done \cup {t}
      /\ UNCHANGED <<thread, doomed, memory, backlog, nextId, key, starts, deaths>>
  BY DEF Candidate, Drop
<1>2. TypeOK'
  BY <1>1, AppendEndType DEF QueueInv, TypeOK, memory, backlog
<1>3. Ids'
  BY <1>1, AppendEndType DEF QueueInv, Ids, Holders, memory, backlog
<1> QED
  BY <1>1, <1>2, <1>3 DEF QueueInv, Disjoint, OneTaskPerKey, Holders, memory, backlog

LEMMA RestoreInv ==
    ASSUME QueueInv, NEW t \in Task, Restore(t)
    PROVE  QueueInv'
<1>1. /\ t \in restoring
      /\ restoring' = restoring \ {t}
      /\ UNCHANGED <<journal, thread, doomed, memory, active, settled, tailChecked,
                     history, deaths>>
  BY DEF Restore, Candidate
<1>2. CASE Admitted(t)
  <2>1. UNCHANGED <<pending, inflight, attempts>>
    BY <1>2 DEF Restore
  <2> QED
    BY <1>1, <2>1 DEF QueueInv, TypeOK, Ids, Disjoint, OneTaskPerKey, Holders,
                      memory, history
<1>3. CASE ~Admitted(t)
  <2>1. /\ pending' = pending \cup {t}
        /\ inflight' = inflight \cup {key[t]}
        /\ attempts' = [attempts EXCEPT ![t] = journal.try[t]]
        /\ key[t] \notin inflight
    BY <1>3 DEF Restore, Admitted
  <2>2. t \notin Holders /\ key[t] \in Key /\ t \in 1 .. nextId - 1
    BY <1>1, <2>1 DEF QueueInv, OneTaskPerKey, Ids
  <2>3. TypeOK'
    BY <1>1, <2>1, <2>2 DEF QueueInv, TypeOK, memory, history
  <2>4. Ids'
    BY <1>1, <2>1, <2>2 DEF QueueInv, Ids, Holders, history
  <2>5. Disjoint'
    BY <1>1, <2>1, <2>2 DEF QueueInv, Disjoint, Holders
  <2>6. OneTaskPerKey'
    BY <1>1, <2>1, <2>2 DEF QueueInv, OneTaskPerKey, Holders, history
  <2> QED
    BY <2>3, <2>4, <2>5, <2>6 DEF QueueInv
<1> QED
  BY <1>2, <1>3

LEMMA RestoreEndInv ==
    ASSUME QueueInv, RestoreEnd
    PROVE  QueueInv'
<1>1. /\ journal' \in CompactOutcomes
      /\ thread' = "pump"
      /\ doomed' \subseteq pending'
      /\ UNCHANGED <<restoring, memory, backlog, tailChecked, history, deaths>>
  BY DEF RestoreEnd, BeginPump
<1>2. /\ journal' \in [enq : SUBSET Task, end : SUBSET Task,
                        try : [Task -> Nat], cut : BOOLEAN]
      /\ journal'.enq \subseteq journal.enq
  BY <1>1, CompactType DEF QueueInv
<1> QED
  BY <1>1, <1>2 DEF QueueInv, TypeOK, Ids, Disjoint, OneTaskPerKey, Holders,
                    memory, backlog, history

LEMMA NextQueueInv == QueueInv /\ [Next]_vars => QueueInv'
<1> SUFFICES ASSUME QueueInv, [Next]_vars PROVE QueueInv'
  OBVIOUS
<1>1. CASE \E files \in SUBSET Key \ {{}} : Enqueue(files)
  BY <1>1, EnqueueInv
<1>2. CASE \E batch \in SUBSET Task : StopBatch(batch)
  BY <1>2, StopBatchInv
<1>3. CASE \E t \in Task, batch \in SUBSET Task : Settle(t, batch)
  BY <1>3, SettleInv
<1>4. CASE \E t \in Task : Release(t)
  BY <1>4, ReleaseInv
<1>5. CASE Continue
  <2>1. CASE \E t \in Task : Quarantine(t) \/ Skip(t)
    BY <2>1, DropInv DEF Quarantine, Skip
  <2>2. CASE \E t \in Task : Restore(t)
    BY <2>2, RestoreInv
  <2> QED
    BY <1>5, <2>1, <2>2, HaltInv, StartInv, PumpEndInv, RestoreEndInv DEF Continue
<1>6. CASE Boot
  BY <1>6, BootInv
<1>7. CASE Crash \/ Stop
  BY <1>7, CrashInv
<1>8. CASE \E files \in SUBSET Key \ {{}} : CrashInEnqueue(files)
  BY <1>8, CrashInEnqueueInv
<1>9. CASE UNCHANGED vars
  BY <1>9 DEF vars, control, memory, backlog, history, QueueInv, TypeOK, Ids, Disjoint,
              OneTaskPerKey, Holders
<1> QED
  BY <1>1, <1>2, <1>3, <1>4, <1>5, <1>6, <1>7, <1>8, <1>9 DEF Next, Work

\* The queue's variables keep their shapes, whatever fails: no counter of ids
\* overruns, and a drain only ever holds pending tasks.
THEOREM TypeCorrect == Spec => []TypeOK
<1>1. QueueInv => TypeOK
  BY DEF QueueInv
<1> QED
  BY InitQueueInv, NextQueueInv, <1>1, PTL DEF Spec

\* Whatever interleaving of requests, runners, halts, deaths and restores, and
\* whatever the disk does to the journal, no two tasks of one op and path are
\* pending or running together, and the dedup set is exactly their keys.
THEOREM NoDoubleWork == Spec => []OneTaskPerKey
<1>1. QueueInv => OneTaskPerKey
  BY DEF QueueInv
<1> QED
  BY InitQueueInv, NextQueueInv, <1>1, PTL DEF Spec

-----------------------------------------------------------------------------
(* With a disk that keeps what it is given, no crash, restore or compaction *)
(* loses an accepted task or brings an ended one back.                      *)

Term == journal.end \subseteq 1 .. nextId - 1 /\ done \subseteq 1 .. nextId - 1

\* No two live records name one key: a restore admits every candidate.
LiveKeys == \A t, u \in Live(journal) : key[t] = key[u] => t = u

\* Which parts of the process's state each stage of its life leaves empty.
Stages ==
    /\ thread = "down" => Holders = {} /\ restoring = {}
    /\ thread = "restore" => active = {} /\ settled = {} /\ doomed = {}
    /\ thread \in {"idle", "pump", "release"} => restoring = {}
    /\ restoring \cap pending = {}

\* After the first append of a process the journal ends on a whole line, as the
\* comment of healTornTail says; true only while no append falls short.
WholeLines == tailChecked => ~journal.cut

\* Durable and Owned are inductive together with the facts a restore relies on:
\* the live keys are distinct, so admitRestored drops nobody, and a stump is
\* always healed before the next record.
DurableInv == QueueInv /\ Durable /\ Owned /\ WholeLines /\ Term /\ LiveKeys /\ Stages

-----------------------------------------------------------------------------
\* An append on a whole line writes exactly its records.
LEMMA LandedExact ==
    ASSUME Faults = {}, WholeLines, NEW ids \in SUBSET Task, NEW w \in Landed(ids)
    PROVE  w = [got |-> ids, cut |-> FALSE, checked |-> TRUE]
<1>1. Readable(ids) = ids
  BY DEF Readable, Glued, WholeLines
<1> QED
  BY <1>1 DEF Landed

LEMMA AppendEndExact ==
    ASSUME Faults = {}, WholeLines, TypeOK, NEW t \in Task, AppendEnd(t)
    PROVE  /\ journal'.enq = journal.enq
           /\ journal'.end = journal.end \cup {t}
           /\ journal'.cut = FALSE
           /\ Live(journal') = Live(journal) \ {t}
           /\ WholeLines'
<1>1. PICK w \in Landed({t}) :
        /\ journal' = [journal EXCEPT !.end = @ \cup w.got, !.cut = w.cut]
        /\ tailChecked' = w.checked
  BY DEF AppendEnd
<1>2. w = [got |-> {t}, cut |-> FALSE, checked |-> TRUE]
  BY LandedExact
<1>3. /\ journal'.enq = journal.enq
      /\ journal'.end = journal.end \cup {t}
      /\ journal'.cut = FALSE
  BY <1>1, <1>2 DEF TypeOK
<1> QED
  BY <1>3 DEF Live, WholeLines

LEMMA AppendTryExact ==
    ASSUME Faults = {}, WholeLines, TypeOK, NEW t \in Task, NEW n \in Nat, AppendTry(t, n)
    PROVE  /\ journal'.enq = journal.enq
           /\ journal'.end = journal.end
           /\ Live(journal') = Live(journal)
           /\ WholeLines'
<1>1. PICK w \in Landed({t}) :
        /\ journal' = [journal EXCEPT !.try[t] = IF t \in w.got THEN n ELSE @, !.cut = w.cut]
        /\ tailChecked' = w.checked
  BY DEF AppendTry
<1>2. w = [got |-> {t}, cut |-> FALSE, checked |-> TRUE]
  BY LandedExact
<1>3. /\ journal'.enq = journal.enq
      /\ journal'.end = journal.end
      /\ journal'.cut = FALSE
  BY <1>1, <1>2 DEF TypeOK
<1> QED
  BY <1>3 DEF Live, WholeLines

LEMMA CompactExact ==
    ASSUME Faults = {}, journal' \in CompactOutcomes, TypeOK
    PROVE  /\ Live(journal') = Live(journal)
           /\ journal'.end = {}
           /\ journal'.cut = FALSE
<1>1. journal' = Compacted(journal)
  BY DEF CompactOutcomes
<1> QED
  BY <1>1 DEF Compacted, Live

-----------------------------------------------------------------------------
(* Every action preserves DurableInv.                                        *)

LEMMA InitDurable == Init => DurableInv
<1> SUFFICES ASSUME Init PROVE DurableInv
  OBVIOUS
<1>1. QueueInv
  BY InitQueueInv
<1>2. Live(journal) = {} /\ 1 .. nextId - 1 = {}
  BY DEF Init, Live
<1> QED
  BY <1>1, <1>2 DEF Init, DurableInv, Durable, Owned, WholeLines, Term, LiveKeys, Stages,
                    Holders, Up

LEMMA EnqueueDurable ==
    ASSUME Faults = {}, DurableInv, QueueInv', NEW files \in SUBSET Key, Enqueue(files)
    PROVE  DurableInv'
<1> DEFINE ids == nextId .. nextId + Room(files) - 1
<1>1. PICK f \in Orders(ids, files) :
        /\ Mint(ids, f)
        /\ inflight' = inflight \cup {f[t] : t \in ids}
  BY DEF Enqueue
<1>2. /\ nextId' = nextId + Room(files)
      /\ pending' = pending \cup ids
      /\ thread' = "pump" /\ thread = "idle"
      /\ UNCHANGED <<restoring, active, settled, done>>
  BY DEF Enqueue, BeginPump, Idle
<1>3. /\ ids \subseteq Task
      /\ ids \cap (1 .. nextId - 1) = {}
      /\ 1 .. nextId' - 1 = (1 .. nextId - 1) \cup ids
  <2>1. nextId + Room(files) <= MaxTasks + 1 /\ TypeOK
    BY DEF Enqueue, DurableInv, QueueInv
  <2>2. /\ ids \subseteq Task
        /\ ids \cap (1 .. nextId - 1) = {}
        /\ 1 .. nextId + Room(files) - 1 = (1 .. nextId - 1) \cup ids
    BY <2>1, NewIds, Zenon
  <2>3. nextId' - 1 = nextId + Room(files) - 1
    <3>1. nextId \in Int
      BY BoundAssumption DEF DurableInv, QueueInv, TypeOK
    <3>2. Room(files) \in Int
      BY RoomType DEF DurableInv, QueueInv
    <3> QED
      BY <1>2, <3>1, <3>2
  <2> QED
    BY <2>2, <2>3, Zenon
<1>4. /\ journal'.enq = journal.enq \cup ids
      /\ journal'.end = journal.end
      /\ WholeLines'
  <2>1. CASE ids = {}
    <3>1. UNCHANGED <<journal, tailChecked>>
      BY <2>1 DEF Enqueue
    <3> QED
      BY <2>1, <3>1 DEF DurableInv, WholeLines
  <2>2. CASE ids # {}
    <3>1. PICK w \in Landed(ids) : AppendEnq(w)
      BY <2>2 DEF Enqueue
    <3>2. w = [got |-> ids, cut |-> FALSE, checked |-> TRUE]
      BY <1>3, LandedExact DEF DurableInv
    <3> QED
      BY <3>1, <3>2 DEF AppendEnq, DurableInv, QueueInv, TypeOK, WholeLines
  <2> QED
    BY <2>1, <2>2
<1>5. Live(journal') = Live(journal) \cup ids
  BY <1>3, <1>4 DEF Live, DurableInv, Term
<1>6. Durable'
  BY <1>2, <1>3, <1>5 DEF Durable, DurableInv, Term
<1>7. Owned'
  BY <1>2, <1>5 DEF Owned, DurableInv, Up
<1>8. LiveKeys'
  <2>1. Live(journal) = pending \cup active
    BY <1>2 DEF DurableInv, Owned, Stages, Up
  <2>2. \A t \in Live(journal) : t \in Holders /\ t \in Task \ ids
    BY <2>1, <1>3 DEF DurableInv, QueueInv, TypeOK, Ids, Holders
  <2>3. \A t \in Live(journal) : key'[t] = key[t] /\ key[t] \in inflight
    BY <2>2, <1>1 DEF Mint, DurableInv, QueueInv, OneTaskPerKey
  <2>4. \A t \in ids : key'[t] = f[t] /\ f[t] \notin inflight
    BY <1>1, <1>3 DEF Mint, Orders, Fresh
  <2>5. \A t, u \in ids : f[t] = f[u] => t = u
    BY DEF Orders
  <2> QED
    BY <1>5, <2>3, <2>4, <2>5 DEF LiveKeys, DurableInv
<1>9. Stages' /\ Term'
  BY <1>2, <1>3, <1>4 DEF Stages, Term, DurableInv
<1> QED
  BY <1>4, <1>6, <1>7, <1>8, <1>9 DEF DurableInv

\* Ending a task that is pending, running or a candidate.
LEMMA EndDurable ==
    ASSUME Faults = {}, DurableInv, QueueInv', NEW t \in Task, AppendEnd(t),
           t \in 1 .. nextId - 1,
           done' = done \cup {t}, UNCHANGED <<nextId, key>>,
           Up' => restoring' \cup pending' \cup active'
                    = (restoring \cup pending \cup active) \ {t},
           Up, Stages'
    PROVE  DurableInv'
<1>1. /\ journal'.enq = journal.enq
      /\ journal'.end = journal.end \cup {t}
      /\ Live(journal') = Live(journal) \ {t}
      /\ WholeLines'
  BY AppendEndExact DEF DurableInv, QueueInv
<1>2. Durable'
  BY <1>1 DEF Durable, DurableInv
<1>3. Owned'
  BY <1>1 DEF Owned, DurableInv
<1>4. Term' /\ LiveKeys'
  BY <1>1 DEF Term, LiveKeys, DurableInv
<1> QED
  BY <1>1, <1>2, <1>3, <1>4 DEF DurableInv

LEMMA HaltDurable ==
    ASSUME Faults = {}, DurableInv, QueueInv', HaltNext
    PROVE  DurableInv'
<1>1. PICK t \in doomed :
        /\ pending' = pending \ {t}
        /\ AppendEnd(t)
        /\ done' = done \cup {t}
        /\ doomed' = doomed \ {t}
        /\ UNCHANGED <<thread, restoring, active, settled, nextId, key>>
        /\ Up
  BY DEF HaltNext
<1>2. t \in pending /\ t \in Task /\ t \in 1 .. nextId - 1
  BY DEF DurableInv, QueueInv, TypeOK, Ids, Holders
<1>3. t \notin active /\ t \notin restoring
  BY <1>2 DEF DurableInv, QueueInv, Disjoint, Stages
<1>4. restoring' \cup pending' \cup active' = (restoring \cup pending \cup active) \ {t}
  BY <1>1, <1>3
<1>5. Stages'
  BY <1>1 DEF DurableInv, Stages, Holders, Up
<1> QED
  BY <1>1, <1>2, <1>4, <1>5, EndDurable

LEMMA SettleDurable ==
    ASSUME Faults = {}, DurableInv, QueueInv', NEW t \in Task, NEW batch, Settle(t, batch)
    PROVE  DurableInv'
<1>1. /\ t \in active
      /\ AppendEnd(t)
      /\ active' = active \ {t}
      /\ done' = done \cup {t}
      /\ thread = "idle" /\ Up
      /\ UNCHANGED <<thread, restoring, pending, nextId, key>>
  BY DEF Settle, Idle, Up
<1>2. t \in 1 .. nextId - 1 /\ t \notin pending /\ t \notin restoring
  BY <1>1 DEF DurableInv, QueueInv, Ids, Disjoint, Stages, Holders
<1>3. restoring' \cup pending' \cup active' = (restoring \cup pending \cup active) \ {t}
  BY <1>1, <1>2
<1>4. Stages'
  BY <1>1 DEF DurableInv, Stages
<1> QED
  BY <1>1, <1>2, <1>3, <1>4, EndDurable

LEMMA DropDurable ==
    ASSUME Faults = {}, DurableInv, QueueInv', NEW t \in Task, Candidate(t), Drop(t)
    PROVE  DurableInv'
<1>1. /\ t \in restoring
      /\ thread = "restore" /\ Up
      /\ restoring' = restoring \ {t}
      /\ AppendEnd(t)
      /\ done' = done \cup {t}
      /\ UNCHANGED <<thread, doomed, pending, active, settled, nextId, key>>
  BY DEF Candidate, Drop, backlog, Up
<1>2. t \in 1 .. nextId - 1 /\ t \notin pending /\ t \notin active
  BY <1>1 DEF DurableInv, QueueInv, Ids, Stages
<1>3. restoring' \cup pending' \cup active' = (restoring \cup pending \cup active) \ {t}
  BY <1>1, <1>2
<1>4. Stages'
  BY <1>1 DEF DurableInv, Stages
<1> QED
  BY <1>1, <1>2, <1>3, <1>4, EndDurable

LEMMA RestoreDurable ==
    ASSUME Faults = {}, DurableInv, QueueInv', NEW t \in Task, Restore(t)
    PROVE  DurableInv'
<1>1. /\ t \in restoring
      /\ thread = "restore"
      /\ restoring' = restoring \ {t}
      /\ UNCHANGED <<journal, thread, doomed, active, settled, tailChecked, nextId, key, done>>
  BY DEF Restore, Candidate, history
<1>2. t \in Live(journal) /\ pending \subseteq Live(journal) /\ t \notin pending
  BY <1>1 DEF DurableInv, Owned, Stages, Up
<1>3. Holders = pending
  BY <1>1 DEF DurableInv, Stages, Holders
<1>4. key[t] \notin inflight
  BY <1>2, <1>3 DEF DurableInv, QueueInv, OneTaskPerKey, LiveKeys
<1>5. pending' = pending \cup {t}
  BY <1>4 DEF Restore, Admitted
<1> QED
  BY <1>1, <1>2, <1>5 DEF DurableInv, Durable, Owned, WholeLines, Term, LiveKeys, Stages, Up

LEMMA StartDurable ==
    ASSUME Faults = {}, DurableInv, QueueInv', StartNext
    PROVE  DurableInv'
<1>1. PICK lim \in Limits, est \in Stats, t \in pending : Start(t, est, lim)
  BY DEF StartNext
<1>2. /\ pending' = pending \ {t}
      /\ active' = active \cup {t}
      /\ AppendTry(t, attempts[t] + 1)
      /\ thread \in {"pump", "release"}
      /\ UNCHANGED <<thread, doomed, restoring, settled, nextId, key, done>>
  BY <1>1 DEF Start, Pumping, control
<1>3. t \in Task /\ attempts[t] + 1 \in Nat
  BY DEF DurableInv, QueueInv, TypeOK
<1>4. /\ journal'.end = journal.end
      /\ Live(journal') = Live(journal)
      /\ WholeLines'
  BY <1>2, <1>3, AppendTryExact DEF DurableInv, QueueInv
<1> QED
  BY <1>2, <1>4 DEF DurableInv, Durable, Owned, Term, LiveKeys, Stages, Up, Holders

LEMMA PumpEndDurable ==
    ASSUME Faults = {}, DurableInv, QueueInv', PumpEnd
    PROVE  DurableInv'
<1>1. /\ thread' = "idle" /\ thread \in {"pump", "release"}
      /\ UNCHANGED <<doomed, restoring, backlog, tailChecked, nextId, key, done>>
      /\ UNCHANGED journal \/ journal' \in CompactOutcomes
  BY DEF PumpEnd, Pumping, history
<1>2. /\ Live(journal') = Live(journal)
      /\ WholeLines'
      /\ Term'
  BY <1>1, CompactExact DEF DurableInv, QueueInv, WholeLines, Term
<1> QED
  BY <1>1, <1>2 DEF DurableInv, Durable, Owned, LiveKeys, Stages, Up, Holders, backlog

LEMMA RestoreEndDurable ==
    ASSUME Faults = {}, DurableInv, QueueInv', RestoreEnd
    PROVE  DurableInv'
<1>1. /\ thread' = "pump" /\ thread = "restore" /\ restoring = {}
      /\ journal' \in CompactOutcomes
      /\ UNCHANGED <<restoring, backlog, tailChecked, nextId, key, done>>
  BY DEF RestoreEnd, BeginPump, history
<1>2. /\ Live(journal') = Live(journal)
      /\ WholeLines'
      /\ Term'
  BY <1>1, CompactExact DEF DurableInv, QueueInv, WholeLines, Term
<1> QED
  BY <1>1, <1>2 DEF DurableInv, Durable, Owned, LiveKeys, Stages, Up, Holders, backlog

LEMMA BootDurable ==
    ASSUME Faults = {}, DurableInv, QueueInv', Boot
    PROVE  DurableInv'
<1>1. /\ thread = "down" /\ thread' = "restore"
      /\ restoring' = Live(journal)
      /\ UNCHANGED <<journal, doomed, backlog, tailChecked, nextId, key, done>>
  BY DEF Boot, history
<1>2. pending = {} /\ active = {} /\ settled = {} /\ doomed = {}
  BY <1>1 DEF DurableInv, Stages, Holders, QueueInv, TypeOK
<1> QED
  BY <1>1, <1>2 DEF DurableInv, Durable, Owned, WholeLines, Term, LiveKeys, Stages, Up,
                    Holders, backlog

\* Death takes nothing from the journal; a torn request leaves a prefix of it,
\* and those tasks were accepted.
LEMMA DieDurable ==
    ASSUME DurableInv, QueueInv', Die, UNCHANGED done,
           NEW ids,
           ids \cap (1 .. nextId - 1) = {},
           1 .. nextId' - 1 = (1 .. nextId - 1) \cup ids,
           journal'.enq = journal.enq \cup ids,
           journal'.end = journal.end,
           \A t, u \in Live(journal) \cup ids : key'[t] = key'[u] => t = u
    PROVE  DurableInv'
<1>1. /\ thread' = "down" /\ tailChecked' = FALSE
      /\ Holders' = {} /\ restoring' = {}
  BY DEF Die, NothingRuns, Holders
<1>2. Live(journal') = Live(journal) \cup ids
  BY DEF Live, DurableInv, Term
<1>3. Durable' /\ LiveKeys' /\ Term'
  BY <1>2 DEF Durable, LiveKeys, Term, DurableInv
<1>4. Owned' /\ WholeLines' /\ Stages'
  BY <1>1 DEF Owned, WholeLines, Stages, Up
<1> QED
  BY <1>3, <1>4 DEF DurableInv

LEMMA CrashDurable ==
    ASSUME DurableInv, QueueInv', Crash \/ Stop
    PROVE  DurableInv'
<1>1. Die /\ UNCHANGED <<nextId, key, done>>
  BY DEF Crash, Stop, history
<1>2. journal'.enq = journal.enq /\ journal'.end = journal.end
  BY DEF Crash, Stop, DurableInv, QueueInv, TypeOK
<1>3. \A t, u \in Live(journal) \cup {} : key'[t] = key'[u] => t = u
  BY <1>1 DEF DurableInv, LiveKeys
<1> QED
  BY <1>1, <1>2, <1>3, DieDurable

LEMMA CrashInEnqueueDurable ==
    ASSUME DurableInv, QueueInv', NEW files \in SUBSET Key, CrashInEnqueue(files)
    PROVE  DurableInv'
<1> DEFINE ids == nextId .. nextId + Room(files) - 1
<1>1. PICK f \in Orders(ids, files), k \in ids :
        /\ Mint({t \in ids : t < k}, f)
        /\ nextId' = k
        /\ journal' = [journal EXCEPT !.enq = @ \cup Torn(ids, k).got, !.cut = TRUE]
  BY DEF CrashInEnqueue
<1> DEFINE written == {t \in ids : t < k}
<1>2. Die /\ UNCHANGED done /\ thread = "idle"
  BY DEF CrashInEnqueue, Idle
<1>3. ids \subseteq Task /\ ids \cap (1 .. nextId - 1) = {}
  <2>1. nextId + Room(files) <= MaxTasks + 1 /\ TypeOK
    BY DEF CrashInEnqueue, DurableInv, QueueInv
  <2> QED
    BY <2>1, NewIds
<1>4. Torn(ids, k).got = written
  BY DEF Torn, Readable, Glued, DurableInv, WholeLines
<1>5. 1 .. nextId' - 1 = (1 .. nextId - 1) \cup written
  <2>1. nextId \in 1 .. MaxTasks + 1
    BY DEF DurableInv, QueueInv, TypeOK
  <2>2. Room(files) \in Nat
    BY RoomType DEF DurableInv, QueueInv
  <2>3. nextId \in Nat /\ nextId >= 1
    BY <2>1, BoundAssumption
  <2>4. k \in Int /\ k >= nextId /\ k <= nextId + Room(files) - 1
    BY <2>2, <2>3
  <2> QED
    BY <1>1, <2>2, <2>3, <2>4
<1>6. journal'.enq = journal.enq \cup written /\ journal'.end = journal.end
  BY <1>1, <1>4 DEF DurableInv, QueueInv, TypeOK
<1>7. \A t, u \in Live(journal) \cup written : key'[t] = key'[u] => t = u
  <2>1. Live(journal) = pending \cup active
    BY <1>2 DEF DurableInv, Owned, Stages, Up
  <2>2. \A t \in Live(journal) : t \in Holders /\ t \in Task \ ids
    BY <2>1, <1>3 DEF DurableInv, QueueInv, TypeOK, Ids, Holders
  <2>3. key' = [t \in Task |-> IF t \in written THEN f[t] ELSE key[t]]
    BY <1>1 DEF Mint
  <2>4. \A t \in Live(journal) : key'[t] = key[t] /\ key[t] \in inflight
    BY <2>2, <2>3 DEF DurableInv, QueueInv, OneTaskPerKey
  <2>5. \A t \in written : key'[t] = f[t] /\ f[t] \notin inflight
    BY <1>3, <2>3 DEF Orders, Fresh
  <2>6. \A t, u \in written : f[t] = f[u] => t = u
    BY DEF Orders
  <2> QED
    BY <2>4, <2>5, <2>6 DEF LiveKeys, DurableInv
<1>8. written \cap (1 .. nextId - 1) = {}
  BY <1>3
<1> QED
  BY <1>2, <1>5, <1>6, <1>7, <1>8, DieDurable

LEMMA NextDurable ==
    ASSUME Faults = {}
    PROVE  DurableInv /\ [Next]_vars => DurableInv'
<1> SUFFICES ASSUME DurableInv, [Next]_vars PROVE DurableInv'
  OBVIOUS
<1>0. QueueInv'
  BY NextQueueInv DEF DurableInv
<1>1. CASE \E files \in SUBSET Key \ {{}} : Enqueue(files)
  BY <1>0, <1>1, EnqueueDurable
<1>2. CASE \E batch \in SUBSET Task : StopBatch(batch)
  <2>1. UNCHANGED <<journal, thread, restoring, backlog, tailChecked, nextId, key, done>>
        /\ thread = "idle"
    BY <1>2 DEF StopBatch, Idle, history
  <2> QED
    BY <1>0, <2>1 DEF DurableInv, Durable, Owned, WholeLines, Term, LiveKeys, Stages, Up,
                      Holders, backlog
<1>3. CASE \E t \in Task, batch \in SUBSET Task : Settle(t, batch)
  BY <1>0, <1>3, SettleDurable
<1>4. CASE \E t \in Task : Release(t)
  <2>1. PICK t \in Task : Release(t)
    BY <1>4
  <2>2. /\ thread = "idle" /\ thread' = "release"
        /\ UNCHANGED <<journal, restoring, pending, active, tailChecked, nextId, key, done>>
    BY <2>1 DEF Release, BeginPump, Idle, history
  <2> QED
    BY <1>0, <2>2 DEF DurableInv, Durable, Owned, WholeLines, Term, LiveKeys, Stages, Up
<1>5. CASE Continue
  <2>1. CASE \E t \in Task : Quarantine(t) \/ Skip(t)
    BY <1>0, <2>1, DropDurable DEF Quarantine, Skip
  <2>2. CASE \E t \in Task : Restore(t)
    BY <1>0, <2>2, RestoreDurable
  <2> QED
    BY <1>0, <1>5, <2>1, <2>2, HaltDurable, StartDurable, PumpEndDurable, RestoreEndDurable
    DEF Continue
<1>6. CASE Boot
  BY <1>0, <1>6, BootDurable
<1>7. CASE Crash \/ Stop
  BY <1>0, <1>7, CrashDurable
<1>8. CASE \E files \in SUBSET Key \ {{}} : CrashInEnqueue(files)
  BY <1>0, <1>8, CrashInEnqueueDurable
<1>9. CASE UNCHANGED vars
  BY <1>0, <1>9 DEF vars, control, backlog, history, DurableInv, Durable, Owned, WholeLines,
                    Term, LiveKeys, Stages, Up, Holders
<1> QED
  BY <1>1, <1>2, <1>3, <1>4, <1>5, <1>6, <1>7, <1>8, <1>9 DEF Next, Work

\* Over every crash, torn append, stop, restore and compaction, what a boot
\* would read back is what enqueue accepted less what was ended, and all of it
\* has an owner in the process that runs.
THEOREM NothingLost ==
    ASSUME Faults = {}
    PROVE  Spec => [](Durable /\ Owned)
<1>1. DurableInv => Durable /\ Owned
  BY DEF DurableInv
<1>2. DurableInv /\ [Next]_vars => DurableInv'
  BY NextDurable
<1> QED
  BY InitDurable, <1>2, <1>1, PTL DEF Spec

\* In particular nothing that the journal holds is without an owner.
THEOREM EverythingOwned ==
    ASSUME Faults = {}
    PROVE  Spec => []Owned
<1>1. Durable /\ Owned => Owned
  OBVIOUS
<1> QED
  BY NothingLost, <1>1, PTL

-----------------------------------------------------------------------------
(* The job queue implements DurableBacklog: on a disk that keeps what it is  *)
(* given, process deaths are invisible to whoever queued the work.           *)

\* Strikes, with what ties the three counters together: the file, the memory
\* of the process and the history agree on every task that may still start.
StrikeInv ==
    /\ DurableInv
    /\ \A t \in Live(journal) : journal.try[t] = starts[t]
    /\ \A t \in pending : attempts[t] = journal.try[t] /\ attempts[t] < MaxAttempts
    /\ \A t \in Task : starts[t] <= MaxAttempts
    /\ \A t \in Task : t >= nextId =>
         starts[t] = 0 /\ journal.try[t] = 0 /\ attempts[t] = 0

-----------------------------------------------------------------------------
LEMMA InitStrike == Init => StrikeInv
<1> SUFFICES ASSUME Init PROVE StrikeInv
  OBVIOUS
<1>1. DurableInv
  BY InitDurable
<1>2. MaxAttempts \in Nat
  BY BoundAssumption
<1> QED
  BY <1>1, <1>2 DEF Init, StrikeInv, Live

\* An append of an end record changes no strike.
LEMMA EndStrike ==
    ASSUME Faults = {}, StrikeInv, DurableInv', NEW t \in Task, AppendEnd(t),
           pending' \subseteq pending, UNCHANGED <<attempts, starts, nextId>>
    PROVE  StrikeInv'
<1>1. Live(journal') = Live(journal) \ {t}
  BY AppendEndExact DEF StrikeInv, DurableInv, QueueInv
<1>2. journal'.try = journal.try
  BY DEF AppendEnd, StrikeInv, DurableInv, QueueInv, TypeOK
<1> QED
  BY <1>1, <1>2 DEF StrikeInv

\* A compaction keeps the strikes of the tasks it keeps.
LEMMA CompactStrike ==
    ASSUME Faults = {}, StrikeInv, DurableInv', journal' \in CompactOutcomes,
           UNCHANGED <<pending, attempts, starts, nextId>>, pending \subseteq Live(journal)
    PROVE  StrikeInv'
<1>1. journal' = Compacted(journal)
  BY DEF CompactOutcomes
<1>2. /\ Live(journal') = Live(journal)
      /\ Live(journal) \subseteq Task
      /\ \A t \in Live(journal) : journal'.try[t] = journal.try[t]
      /\ \A t \in Task : t \notin Live(journal) => journal'.try[t] = 0
  BY <1>1 DEF Compacted, Live, StrikeInv, DurableInv, QueueInv, TypeOK
<1> QED
  BY <1>2 DEF StrikeInv

LEMMA StartStrike ==
    ASSUME Faults = {}, StrikeInv, DurableInv', StartNext
    PROVE  /\ StrikeInv'
           /\ Live(journal') = Live(journal)
           /\ nextId' = nextId
           /\ \E t \in Live(journal) : /\ starts[t] < MaxAttempts
                                       /\ starts' = [starts EXCEPT ![t] = @ + 1]
<1>1. PICK lim \in Limits, est \in Stats, t \in pending : Start(t, est, lim)
  BY DEF StartNext
<1>2. /\ pending' = pending \ {t}
      /\ AppendTry(t, attempts[t] + 1)
      /\ attempts' = [attempts EXCEPT ![t] = @ + 1]
      /\ starts' = [starts EXCEPT ![t] = @ + 1]
      /\ nextId' = nextId
      /\ Up
  BY <1>1 DEF Start, Pumping, Up
<1>3. /\ TypeOK /\ t \in Task /\ attempts[t] + 1 \in Nat
      /\ t \in Live(journal) /\ t < nextId
  <2>1. TypeOK /\ Ids
    BY DEF StrikeInv, DurableInv, QueueInv
  <2>2. t \in Task /\ attempts[t] \in Nat
    BY <2>1 DEF TypeOK
  <2>3. t \in Live(journal)
    BY <1>2 DEF StrikeInv, DurableInv, Owned
  <2>4. t \in 1 .. nextId - 1 /\ nextId \in Int
    BY <2>1, BoundAssumption DEF Ids, Holders, TypeOK
  <2> QED
    BY <2>1, <2>2, <2>3, <2>4
<1>4. journal'.try = [journal.try EXCEPT ![t] = attempts[t] + 1]
  <2>1. PICK w \in Landed({t}) :
          journal' = [journal EXCEPT !.try[t] = IF t \in w.got THEN attempts[t] + 1 ELSE @,
                                     !.cut = w.cut]
    BY <1>2 DEF AppendTry
  <2>2. w = [got |-> {t}, cut |-> FALSE, checked |-> TRUE]
    BY <1>3, LandedExact DEF StrikeInv, DurableInv
  <2> QED
    BY <2>1, <2>2, <1>3 DEF TypeOK
<1>5. Live(journal') = Live(journal)
  BY <1>2, <1>3, AppendTryExact DEF StrikeInv, DurableInv
<1>6. attempts[t] = starts[t] /\ starts[t] < MaxAttempts /\ MaxAttempts \in Nat
  BY <1>3, BoundAssumption DEF StrikeInv
<1>7. Live(journal) \subseteq Task
  BY <1>3 DEF Live, TypeOK
<1>8. \A u \in Task : u # t => /\ journal'.try[u] = journal.try[u]
                             /\ starts'[u] = starts[u]
                             /\ attempts'[u] = attempts[u]
  BY <1>2, <1>3, <1>4 DEF TypeOK
<1>9. /\ journal'.try[t] = starts[t] + 1
      /\ starts'[t] = starts[t] + 1
      /\ starts[t] + 1 <= MaxAttempts
  BY <1>2, <1>3, <1>4, <1>6 DEF TypeOK
<1>10. \A u \in Live(journal') : journal'.try[u] = starts'[u]
  BY <1>5, <1>7, <1>8, <1>9 DEF StrikeInv
<1>11. \A u \in pending' : attempts'[u] = journal'.try[u] /\ attempts'[u] < MaxAttempts
  BY <1>2, <1>3, <1>8 DEF StrikeInv, TypeOK
<1>12. \A u \in Task : starts'[u] <= MaxAttempts
  BY <1>8, <1>9 DEF StrikeInv
<1>13. \A u \in Task : u >= nextId' =>
         starts'[u] = 0 /\ journal'.try[u] = 0 /\ attempts'[u] = 0
  <2> SUFFICES ASSUME NEW u \in Task, u >= nextId
               PROVE  starts'[u] = 0 /\ journal'.try[u] = 0 /\ attempts'[u] = 0
    BY <1>2
  <2>1. u # t
    BY <1>3, BoundAssumption DEF TypeOK, Task
  <2> QED
    BY <2>1, <1>8 DEF StrikeInv
<1> QED
  BY <1>2, <1>3, <1>5, <1>6, <1>10, <1>11, <1>12, <1>13 DEF StrikeInv

LEMMA EnqueueStrike ==
    ASSUME Faults = {}, StrikeInv, DurableInv', NEW files \in SUBSET Key, Enqueue(files)
    PROVE  StrikeInv' /\ starts' = starts
<1> DEFINE ids == nextId .. nextId + Room(files) - 1
<1>1. /\ pending' = pending \cup ids
      /\ nextId' = nextId + Room(files)
      /\ UNCHANGED <<attempts, starts>>
  BY DEF Enqueue
<1>2. ids \subseteq Task /\ nextId \in Int /\ Room(files) \in Nat
  <2>1. nextId + Room(files) <= MaxTasks + 1 /\ TypeOK
    BY DEF Enqueue, StrikeInv, DurableInv, QueueInv
  <2>2. Room(files) \in Nat
    BY RoomType, <2>1
  <2>3. nextId \in Int
    BY BoundAssumption, <2>1 DEF TypeOK
  <2> QED
    BY <2>1, <2>2, <2>3, NewIds
<1>3. /\ journal'.try = journal.try
      /\ Live(journal') \subseteq Live(journal) \cup ids
  <2>1. CASE UNCHANGED <<journal, tailChecked>>
    BY <2>1
  <2>2. CASE \E w \in Landed(ids) : AppendEnq(w)
    <3>1. PICK w \in Landed(ids) : AppendEnq(w)
      BY <2>2
    <3>2. w = [got |-> ids, cut |-> FALSE, checked |-> TRUE]
      BY <1>2, LandedExact DEF StrikeInv, DurableInv
    <3> QED
      BY <3>1, <3>2 DEF AppendEnq, StrikeInv, DurableInv, QueueInv, TypeOK, Live
  <2> QED
    BY <2>1, <2>2 DEF Enqueue
<1>4. \A t \in ids : t >= nextId
  BY <1>2
<1>5. \A t \in ids : starts[t] = 0 /\ journal.try[t] = 0 /\ attempts[t] = 0
  BY <1>2, <1>4 DEF StrikeInv
<1>6. MaxAttempts \in Nat \ {0}
  BY BoundAssumption
<1>7. \A t \in Task : t >= nextId' => t >= nextId
  BY <1>1, <1>2 DEF Task
<1>8. \A t \in Live(journal') : journal'.try[t] = starts'[t]
  BY <1>1, <1>3, <1>5 DEF StrikeInv
<1>9. \A t \in pending' : attempts'[t] = journal'.try[t] /\ attempts'[t] < MaxAttempts
  BY <1>1, <1>3, <1>5, <1>6 DEF StrikeInv
<1> QED
  BY <1>1, <1>3, <1>7, <1>8, <1>9 DEF StrikeInv

LEMMA RestoreStrike ==
    ASSUME Faults = {}, StrikeInv, DurableInv', NEW t \in Task, Restore(t)
    PROVE  StrikeInv' /\ UNCHANGED <<journal, starts, nextId>>
<1>1. /\ t \in restoring /\ ~Poison(t)
      /\ UNCHANGED <<journal, starts, nextId>>
  BY DEF Restore, Candidate, history
<1>2. t < nextId /\ nextId \in Int /\ journal.try[t] < MaxAttempts
  <2>1. Ids /\ TypeOK
    BY DEF StrikeInv, DurableInv, QueueInv
  <2>2. t \in 1 .. nextId - 1 /\ nextId \in Int
    BY <1>1, <2>1, BoundAssumption DEF Ids, TypeOK
  <2>3. journal.try[t] \in Nat /\ MaxAttempts \in Nat
    BY <2>1, BoundAssumption DEF TypeOK
  <2> QED
    BY <1>1, <2>2, <2>3 DEF Poison
<1>3. CASE Admitted(t)
  <2>1. UNCHANGED <<pending, attempts>>
    BY <1>3 DEF Restore
  <2> QED
    BY <1>1, <2>1 DEF StrikeInv
<1>4. CASE ~Admitted(t)
  <2>1. /\ pending' = pending \cup {t}
        /\ attempts' = [attempts EXCEPT ![t] = journal.try[t]]
    BY <1>4 DEF Restore
  <2>2. attempts \in [Task -> Nat] /\ pending \subseteq Task
    BY DEF StrikeInv, DurableInv, QueueInv, TypeOK
  <2>3. \A u \in Task : attempts'[u] = IF u = t THEN journal.try[t] ELSE attempts[u]
    BY <2>1, <2>2
  <2>4. \A u \in pending' : attempts'[u] = journal'.try[u] /\ attempts'[u] < MaxAttempts
    BY <1>1, <1>2, <2>1, <2>2, <2>3 DEF StrikeInv
  <2>5. \A u \in Task : u >= nextId' => attempts'[u] = 0
    BY <1>1, <1>2, <2>3 DEF StrikeInv, Task
  <2> QED
    BY <1>1, <2>4, <2>5 DEF StrikeInv
<1> QED
  BY <1>1, <1>3, <1>4

LEMMA DieStrike ==
    ASSUME StrikeInv, DurableInv', Die, UNCHANGED starts,
           journal'.try = journal.try, nextId' >= nextId, nextId' \in Int,
           \A t \in Live(journal') \ Live(journal) : t >= nextId
    PROVE  StrikeInv'
<1>1. pending' = {} /\ attempts' = [t \in Task |-> 0]
  BY DEF Die, NothingRuns
<1>2. Live(journal') \subseteq Task
  BY DEF DurableInv, QueueInv, TypeOK, Live
<1>3. nextId \in Int /\ \A t \in Task : t \in Int
  BY BoundAssumption DEF StrikeInv, DurableInv, QueueInv, TypeOK, Task
<1>4. \A t \in Task : t >= nextId' => t >= nextId
  BY <1>3
<1>5. \A t \in Live(journal') : journal'.try[t] = starts'[t]
  BY <1>2 DEF StrikeInv
<1> QED
  BY <1>1, <1>4, <1>5 DEF StrikeInv

LEMMA CrashStrike ==
    ASSUME StrikeInv, DurableInv', Crash \/ Stop
    PROVE  StrikeInv' /\ Live(journal') = Live(journal) /\ UNCHANGED <<starts, nextId>>
<1>1. Die /\ UNCHANGED <<nextId, starts>>
  BY DEF Crash, Stop, history
<1>2. journal'.enq = journal.enq /\ journal'.end = journal.end /\ journal'.try = journal.try
  BY DEF Crash, Stop, StrikeInv, DurableInv, QueueInv, TypeOK
<1>3. Live(journal') = Live(journal)
  BY <1>2 DEF Live
<1>4. nextId \in Int
  BY BoundAssumption DEF StrikeInv, DurableInv, QueueInv, TypeOK
<1> QED
  BY <1>1, <1>2, <1>3, <1>4, DieStrike

LEMMA CrashInEnqueueStrike ==
    ASSUME StrikeInv, DurableInv', NEW files \in SUBSET Key, CrashInEnqueue(files)
    PROVE  StrikeInv' /\ starts' = starts /\ nextId' >= nextId
<1> DEFINE ids == nextId .. nextId + Room(files) - 1
<1>1. PICK f \in Orders(ids, files), k \in ids :
        /\ nextId' = k
        /\ journal' = [journal EXCEPT !.enq = @ \cup Torn(ids, k).got, !.cut = TRUE]
  BY DEF CrashInEnqueue
<1>2. Die /\ UNCHANGED starts
  BY DEF CrashInEnqueue
<1>3. nextId \in Int /\ Room(files) \in Nat
  <2>1. nextId \in Int
    BY BoundAssumption DEF StrikeInv, DurableInv, QueueInv, TypeOK
  <2>2. Room(files) \in Nat
    BY RoomType DEF StrikeInv, DurableInv, QueueInv
  <2> QED
    BY <2>1, <2>2
<1>4. Torn(ids, k).got \subseteq ids
  BY DEF Torn, Readable
<1>5. /\ journal'.try = journal.try
      /\ journal'.enq \subseteq journal.enq \cup ids
      /\ journal'.end = journal.end
  BY <1>1, <1>4 DEF StrikeInv, DurableInv, QueueInv, TypeOK
<1>6. \A t \in Live(journal') \ Live(journal) : t >= nextId
  BY <1>3, <1>5 DEF Live
<1>7. nextId' >= nextId /\ nextId' \in Int
  BY <1>1, <1>3
<1> QED
  BY <1>2, <1>5, <1>6, <1>7, DieStrike

LEMMA NextStrike ==
    ASSUME Faults = {}
    PROVE  StrikeInv /\ [Next]_vars => StrikeInv'
<1> SUFFICES ASSUME StrikeInv, [Next]_vars PROVE StrikeInv'
  OBVIOUS
<1>0. DurableInv'
  BY NextDurable DEF StrikeInv
<1>1. CASE \E files \in SUBSET Key \ {{}} : Enqueue(files)
  BY <1>0, <1>1, EnqueueStrike
<1>2. CASE \E batch \in SUBSET Task : StopBatch(batch)
  <2>1. UNCHANGED <<journal, pending, attempts, starts, nextId>>
    BY <1>2 DEF StopBatch, backlog, history
  <2> QED
    BY <1>0, <2>1 DEF StrikeInv
<1>3. CASE \E t \in Task, batch \in SUBSET Task : Settle(t, batch)
  BY <1>0, <1>3, EndStrike DEF Settle
<1>4. CASE \E t \in Task : Release(t)
  <2>1. UNCHANGED <<journal, pending, attempts, starts, nextId>>
    BY <1>4 DEF Release, history
  <2> QED
    BY <1>0, <2>1 DEF StrikeInv
<1>5. CASE Continue
  <2>1. CASE HaltNext
    <3>1. PICK t \in doomed : /\ AppendEnd(t)
                              /\ pending' = pending \ {t}
                              /\ UNCHANGED <<attempts, starts, nextId>>
      BY <2>1 DEF HaltNext
    <3>2. t \in Task
      BY DEF StrikeInv, DurableInv, QueueInv, TypeOK
    <3> QED
      BY <1>0, <3>1, <3>2, EndStrike
  <2>2. CASE StartNext
    BY <1>0, <2>2, StartStrike
  <2>3. CASE PumpEnd
    <3>1. /\ Up /\ restoring = {}
          /\ UNCHANGED <<pending, attempts, starts, nextId>>
          /\ UNCHANGED journal \/ journal' \in CompactOutcomes
      BY <2>3 DEF PumpEnd, Pumping, Up, backlog, history, StrikeInv, DurableInv, Stages
    <3>2. pending \subseteq Live(journal)
      BY <3>1 DEF StrikeInv, DurableInv, Owned
    <3>3. CASE UNCHANGED journal
      BY <1>0, <3>1, <3>3 DEF StrikeInv
    <3> QED
      BY <1>0, <3>1, <3>2, <3>3, CompactStrike
  <2>4. CASE \E t \in Task : Quarantine(t) \/ Skip(t)
    <3>1. PICK t \in Task : AppendEnd(t) /\ UNCHANGED <<pending, attempts, starts, nextId>>
      BY <2>4 DEF Quarantine, Skip, Drop, backlog
    <3> QED
      BY <1>0, <3>1, EndStrike
  <2>5. CASE \E t \in Task : Restore(t)
    BY <1>0, <2>5, RestoreStrike
  <2>6. CASE RestoreEnd
    <3>1. /\ Up
          /\ UNCHANGED <<pending, attempts, starts, nextId>>
          /\ journal' \in CompactOutcomes
      BY <2>6 DEF RestoreEnd, Up, backlog, history
    <3>2. pending \subseteq Live(journal)
      BY <3>1 DEF StrikeInv, DurableInv, Owned
    <3> QED
      BY <1>0, <3>1, <3>2, CompactStrike
  <2> QED
    BY <1>5, <2>1, <2>2, <2>3, <2>4, <2>5, <2>6 DEF Continue
<1>6. CASE Boot
  <2>1. UNCHANGED <<journal, pending, attempts, starts, nextId>>
    BY <1>6 DEF Boot, backlog, history
  <2> QED
    BY <1>0, <2>1 DEF StrikeInv
<1>7. CASE Crash \/ Stop
  BY <1>0, <1>7, CrashStrike
<1>8. CASE \E files \in SUBSET Key \ {{}} : CrashInEnqueue(files)
  BY <1>0, <1>8, CrashInEnqueueStrike
<1>9. CASE UNCHANGED vars
  <2>1. UNCHANGED <<journal, pending, attempts, starts, nextId>>
    BY <1>9 DEF vars, backlog, history
  <2> QED
    BY <1>0, <2>1 DEF StrikeInv
<1> QED
  BY <1>1, <1>2, <1>3, <1>4, <1>5, <1>6, <1>7, <1>8, <1>9 DEF Next, Work

\* No task is run more often than the limit, however many processes run it, and
\* the file never forgets a strike of a task it would bring back.
THEOREM StrikesCount ==
    ASSUME Faults = {}
    PROVE  Spec => []Strikes
<1>1. StrikeInv => Strikes
  BY DEF StrikeInv, Strikes
<1>2. StrikeInv /\ [Next]_vars => StrikeInv'
  BY NextStrike
<1> QED
  BY InitStrike, <1>1, <1>2, PTL DEF Spec

-----------------------------------------------------------------------------
(* The refinement.  Under DurableInv the ended tasks of the mapping are done *)
(* itself, so every step is told by nextId, done and starts alone.           *)

LEMMA EndedIsDone ==
    ASSUME DurableInv
    PROVE  (1 .. nextId - 1) \ Live(journal) = done
BY DEF DurableInv, Durable, Term

\* What the three mapped variables do in each step of the queue.
Unchanged == UNCHANGED <<nextId, done, starts>>
Accepts   == nextId' >= nextId /\ nextId' \in 1 .. MaxTasks + 1 /\ UNCHANGED <<done, starts>>
Tries     == /\ UNCHANGED <<nextId, done>>
             /\ \E t \in Live(journal) : /\ starts[t] < MaxAttempts
                                         /\ starts' = [starts EXCEPT ![t] = @ + 1]
Ends      == /\ UNCHANGED <<nextId, starts>>
             /\ \E t \in Live(journal) : done' = done \cup {t}

LEMMA StepKinds ==
    ASSUME Faults = {}, StrikeInv, [Next]_vars
    PROVE  Unchanged \/ Accepts \/ Tries \/ Ends
<1>0. StrikeInv' /\ DurableInv'
  BY NextStrike DEF StrikeInv
<1>1. nextId' \in 1 .. MaxTasks + 1
  BY <1>0 DEF StrikeInv, DurableInv, QueueInv, TypeOK
<1>2. Up => restoring \cup pending \cup active = Live(journal)
  BY DEF StrikeInv, DurableInv, Owned
<1>3. CASE \E files \in SUBSET Key \ {{}} : Enqueue(files)
  <2>1. PICK files \in SUBSET Key : Enqueue(files)
    BY <1>3
  <2>2. nextId' = nextId + Room(files) /\ UNCHANGED <<done, starts>>
    BY <2>1 DEF Enqueue
  <2>3. nextId \in Int
    BY BoundAssumption DEF StrikeInv, DurableInv, QueueInv, TypeOK
  <2>4. Room(files) \in Nat
    BY RoomType DEF StrikeInv, DurableInv, QueueInv
  <2>5. nextId' >= nextId
    BY <2>2, <2>3, <2>4
  <2> QED
    BY <1>1, <2>2, <2>5 DEF Accepts
<1>4. CASE \E batch \in SUBSET Task : StopBatch(batch)
  BY <1>4 DEF StopBatch, history, Unchanged
<1>5. CASE \E t \in Task, batch \in SUBSET Task : Settle(t, batch)
  BY <1>2, <1>5 DEF Settle, Idle, Up, Ends
<1>6. CASE \E t \in Task : Release(t)
  BY <1>6 DEF Release, history, Unchanged
<1>7. CASE Continue
  <2>1. CASE HaltNext
    <3>1. doomed \subseteq pending
      BY DEF StrikeInv, DurableInv, QueueInv, TypeOK
    <3> QED
      BY <1>2, <2>1, <3>1 DEF HaltNext, Ends
  <2>2. CASE StartNext
    <3>1. done' = done
      BY <2>2 DEF StartNext, Start
    <3> QED
      BY <1>0, <2>2, <3>1, StartStrike DEF Tries
  <2>3. CASE PumpEnd \/ RestoreEnd
    BY <2>3 DEF PumpEnd, RestoreEnd, history, Unchanged
  <2>4. CASE \E t \in Task : Quarantine(t) \/ Skip(t)
    BY <1>2, <2>4 DEF Quarantine, Skip, Candidate, Drop, Up, Ends
  <2>5. CASE \E t \in Task : Restore(t)
    BY <2>5 DEF Restore, history, Unchanged
  <2> QED
    BY <1>7, <2>1, <2>2, <2>3, <2>4, <2>5 DEF Continue
<1>8. CASE Boot \/ Crash \/ Stop
  BY <1>8 DEF Boot, Crash, Stop, history, Unchanged
<1>9. CASE \E files \in SUBSET Key \ {{}} : CrashInEnqueue(files)
  <2>1. PICK files \in SUBSET Key : CrashInEnqueue(files)
    BY <1>9
  <2>2. nextId' >= nextId /\ UNCHANGED starts
    BY <1>0, <2>1, CrashInEnqueueStrike
  <2>3. done' = done
    BY <2>1 DEF CrashInEnqueue
  <2> QED
    BY <1>1, <2>2, <2>3 DEF Accepts
<1>10. CASE UNCHANGED vars
  BY <1>10 DEF vars, history, Unchanged
<1> QED
  BY <1>3, <1>4, <1>5, <1>6, <1>7, <1>8, <1>9, <1>10 DEF Next, Work

\* The ids between two values of nextId are tasks, and were not accepted before.
LEMMA NewInterval ==
    ASSUME NEW a \in Nat, NEW b \in Nat, a >= 1, b >= a, b <= MaxTasks + 1
    PROVE  a .. b - 1 \subseteq Task /\ (a .. b - 1) \cap (1 .. a - 1) = {}
BY BoundAssumption DEF Task

LEMMA StepRefines ==
    ASSUME Faults = {}, StrikeInv, [Next]_vars
    PROVE  [Backlog!BacklogNext]_(Backlog!backlogVars)
<1> DEFINE accepted == 1 .. nextId - 1
           ended    == (1 .. nextId - 1) \ Live(journal)
<1>1. DurableInv /\ DurableInv'
  BY NextDurable DEF StrikeInv
<1>2. ended = done /\ ended' = done'
  BY <1>1 DEF DurableInv, Durable, Term
<1>3. Live(journal) = accepted \ done
  BY <1>1 DEF DurableInv, Durable
<1>4. nextId \in 1 .. MaxTasks + 1 /\ nextId' \in 1 .. MaxTasks + 1
  BY <1>1 DEF DurableInv, QueueInv, TypeOK
<1>5. accepted \subseteq Task
  BY <1>4, BoundAssumption DEF Task
<1>6. CASE Unchanged
  BY <1>2, <1>6 DEF Unchanged, Backlog!backlogVars
<1>7. CASE Accepts
  <2> DEFINE new == nextId .. nextId' - 1
  <2>1. new \subseteq Task /\ new \cap accepted = {} /\ accepted' = accepted \cup new
    <3>1. MaxTasks \in Nat /\ nextId \in Nat /\ nextId >= 1
      BY <1>4, BoundAssumption
    <3>2. nextId' \in Nat /\ nextId' >= nextId /\ nextId' <= MaxTasks + 1
      BY <1>4, <1>7, <3>1 DEF Accepts
    <3>3. new \subseteq Task /\ new \cap accepted = {}
      BY <3>1, <3>2, NewInterval
    <3>4. accepted' = accepted \cup new
      BY <3>1, <3>2
    <3> QED
      BY <3>3, <3>4
  <2>2. Backlog!Accept(new)
    BY <1>2, <1>7, <2>1 DEF Accepts, Backlog!Accept
  <2> QED
    BY <2>1, <2>2 DEF Backlog!BacklogNext
<1>8. CASE Tries
  <2>1. PICK t \in Live(journal) : /\ starts[t] < MaxAttempts
                                   /\ starts' = [starts EXCEPT ![t] = @ + 1]
    BY <1>8 DEF Tries
  <2>2. Backlog!Try(t)
    BY <1>2, <1>3, <1>8, <2>1 DEF Tries, Backlog!Try
  <2> QED
    BY <1>3, <1>5, <2>2 DEF Backlog!BacklogNext
<1>9. CASE Ends
  <2>1. PICK t \in Live(journal) : done' = done \cup {t}
    BY <1>9 DEF Ends
  <2>2. Backlog!End(t)
    BY <1>2, <1>3, <1>9, <2>1 DEF Ends, Backlog!End
  <2> QED
    BY <1>3, <1>5, <2>2 DEF Backlog!BacklogNext
<1> QED
  BY <1>6, <1>7, <1>8, <1>9, StepKinds

\* The queue with its process deaths, restores and compactions implements the
\* backlog that knows no process at all.
THEOREM Implements ==
    ASSUME Faults = {}
    PROVE  Spec => ImplementsBacklog
<1>1. Init => Backlog!BacklogInit
  BY DEF Init, Live, Backlog!BacklogInit
<1>2. StrikeInv /\ [Next]_vars => [Backlog!BacklogNext]_(Backlog!backlogVars)
  BY StepRefines
<1>3. StrikeInv /\ [Next]_vars => StrikeInv'
  BY NextStrike
<1> QED
  BY <1>1, <1>2, <1>3, InitStrike, PTL DEF Spec, ImplementsBacklog, Backlog!BacklogSpec

-----------------------------------------------------------------------------
(* The backlog of a bucket is first come, first served.                      *)

\* The first runnable task has no older one of its bucket behind it: such a one
\* fits the same slot, so it would be runnable itself, or block.
LEMMA FirstRunnable ==
    ASSUME TypeOK, NEW lim, NEW est, NEW t \in Runnable(est, lim),
           \A u \in Runnable(est, lim) : t <= u,
           NEW u \in pending, BucketOfTask(u) = BucketOfTask(t)
    PROVE  t <= u
<1>1. t \in pending /\ t \in Int /\ u \in Int
  BY DEF Runnable, TypeOK, Task
<1>2. SUFFICES ASSUME u < t PROVE FALSE
  BY <1>1
<1>3. HasSlot(t, lim) /\ ~MemBlocked(t, est, lim)
  BY DEF Runnable
<1>4. HasSlot(u, lim)
  BY <1>3 DEF HasSlot
<1>5. MemoryFits(est[u], lim)
  BY <1>2, <1>3, <1>4 DEF MemBlocked
<1>6. ~MemBlocked(u, est, lim)
  <2> SUFFICES ASSUME NEW v \in pending, v < u, BucketOfTask(v) = BucketOfTask(u),
                      HasSlot(v, lim), ~MemoryFits(est[v], lim)
               PROVE  FALSE
    BY DEF MemBlocked
  <2>1. v \in Int
    BY DEF TypeOK, Task
  <2>2. v < t
    BY <1>1, <1>2, <2>1
  <2> QED
    BY <1>3, <2>2 DEF MemBlocked
<1>7. u \in Runnable(est, lim)
  BY <1>4, <1>5, <1>6 DEF Runnable
<1> QED
  BY <1>1, <1>2, <1>7

\* A task becomes active in one step only.
LEMMA OnlyStartActivates ==
    ASSUME QueueInv, [Next]_vars, NEW t \in active' \ active
    PROVE  \E lim \in Limits, est \in Stats : Start(t, est, lim)
<1>1. CASE \E files \in SUBSET Key \ {{}} : Enqueue(files)
  BY <1>1 DEF Enqueue
<1>2. CASE \E batch \in SUBSET Task : StopBatch(batch)
  BY <1>2 DEF StopBatch, backlog
<1>3. CASE \E u \in Task, batch \in SUBSET Task : Settle(u, batch)
  BY <1>3 DEF Settle
<1>4. CASE \E u \in Task : Release(u)
  BY <1>4 DEF Release
<1>5. CASE Continue
  <2>1. CASE StartNext
    <3>1. PICK lim \in Limits, est \in Stats, u \in pending : Start(u, est, lim)
      BY <2>1 DEF StartNext
    <3>2. u = t
      BY <3>1 DEF Start
    <3> QED
      BY <3>1, <3>2
  <2>2. CASE HaltNext \/ PumpEnd \/ RestoreEnd
    BY <2>2 DEF HaltNext, PumpEnd, RestoreEnd, backlog
  <2>3. CASE \E u \in Task : Quarantine(u) \/ Skip(u) \/ Restore(u)
    BY <2>3 DEF Quarantine, Skip, Restore, Drop, backlog
  <2> QED
    BY <1>5, <2>1, <2>2, <2>3 DEF Continue
<1>6. CASE Boot
  BY <1>6 DEF Boot, backlog
<1>7. CASE Crash \/ Stop \/ \E files \in SUBSET Key \ {{}} : CrashInEnqueue(files)
  BY <1>7 DEF Crash, Stop, CrashInEnqueue, Die, NothingRuns
<1>8. CASE UNCHANGED vars
  BY <1>8 DEF vars, backlog
<1> QED
  BY <1>1, <1>2, <1>3, <1>4, <1>5, <1>6, <1>7, <1>8 DEF Next, Work

\* No job starts over an older one of its bucket, whatever the settings and the
\* sizes the scan reads, and whatever fails.
THEOREM ServedInOrder == Spec => FirstComeFirstServed
<1>1. QueueInv /\ [Next]_vars =>
        [\A t \in active' \ active, u \in pending :
           BucketOfTask(u) = BucketOfTask(t) => t <= u]_vars
  <2> SUFFICES ASSUME QueueInv, [Next]_vars, NEW t \in active' \ active, NEW u \in pending,
                      BucketOfTask(u) = BucketOfTask(t)
               PROVE  t <= u
    OBVIOUS
  <2>1. PICK lim \in Limits, est \in Stats : Start(t, est, lim)
    BY OnlyStartActivates
  <2>2. t \in Runnable(est, lim) /\ \A v \in Runnable(est, lim) : t <= v
    BY <2>1 DEF Start
  <2>3. TypeOK
    BY DEF QueueInv
  <2> QED
    BY <2>2, <2>3, FirstRunnable
<1> QED
  BY <1>1, InitQueueInv, NextQueueInv, PTL DEF Spec, FirstComeFirstServed

-----------------------------------------------------------------------------
(* The heap budget.  memoryActive is the sum of the reservations, which no   *)
(* induction over the tasks is needed to say: some function gives the sum    *)
(* over every set of tasks, and each step turns it into the next one.        *)

Holding(r) == {t \in Task : r[t] > 0}

SumOf(S, r) ==
    /\ S \in [SUBSET Task -> Nat]
    /\ S[{}] = 0
    /\ \A A \in SUBSET Task : \A t \in Task \ A : S[A \cup {t}] = S[A] + r[t]
    /\ \A A \in SUBSET Task : S[A] = S[A \cap Holding(r)]

HeapAdds == \E S : SumOf(S, reserved) /\ memoryActive = S[Task]

\* HeapBudget alone is not inductive: what is left when one of two jobs gives
\* its heap back is the reservation of the other.
HeapInv == QueueInv /\ HeapBudget /\ HeapAdds

\* Nothing is reserved.
LEMMA SumOfNothing ==
    ASSUME NEW r, r = [t \in Task |-> 0]
    PROVE  \E S : SumOf(S, r) /\ S[Task] = 0
<1> PICK S : S = [A \in SUBSET Task |-> 0]
  OBVIOUS
<1>1. SumOf(S, r)
  BY DEF SumOf
<1> QED
  BY <1>1

\* A task reserves heap for the first time.
LEMMA SumReserves ==
    ASSUME NEW r \in [Task -> Nat], NEW S, SumOf(S, r), NEW t \in Task, r[t] = 0, NEW e \in Nat,
           NEW q, q = [r EXCEPT ![t] = e]
    PROVE  \E T : SumOf(T, q) /\ T[Task] = S[Task] + e
<1> PICK T : T = [A \in SUBSET Task |-> IF t \in A THEN S[A] + e ELSE S[A]]
  OBVIOUS
<1>0. \A A \in SUBSET Task : T[A] = IF t \in A THEN S[A] + e ELSE S[A]
  OBVIOUS
<1>1. /\ S \in [SUBSET Task -> Nat] /\ S[{}] = 0
      /\ \A A \in SUBSET Task : \A u \in Task \ A : S[A \cup {u}] = S[A] + r[u]
      /\ \A A \in SUBSET Task : S[A] = S[A \cap Holding(r)]
  BY DEF SumOf
<1>2. q[t] = e /\ \A u \in Task \ {t} : q[u] = r[u]
  OBVIOUS
<1>3. T \in [SUBSET Task -> Nat] /\ T[{}] = 0 /\ T[Task] = S[Task] + e
  <2>1. ASSUME NEW A \in SUBSET Task PROVE T[A] \in Nat
    <3>1. S[A] \in Nat /\ T[A] = IF t \in A THEN S[A] + e ELSE S[A]
      BY <1>0, <1>1
    <3> QED
      BY <3>1
  <2>2. T[{}] = 0 /\ T[Task] = S[Task] + e
    <3>1. {} \in SUBSET Task /\ Task \in SUBSET Task
      OBVIOUS
    <3> QED
      BY <1>0, <1>1, <3>1
  <2> QED
    BY <2>1, <2>2
<1>4. ASSUME NEW A \in SUBSET Task, NEW u \in Task \ A
      PROVE  T[A \cup {u}] = T[A] + q[u]
  <2>1. A \cup {u} \in SUBSET Task /\ S[A \cup {u}] = S[A] + r[u] /\ S[A] \in Nat /\ r[u] \in Nat
    BY <1>1
  <2>2. CASE u = t
    BY <1>2, <2>1, <2>2
  <2>3. CASE u # t
    BY <1>2, <2>1, <2>3
  <2> QED
    BY <2>2, <2>3
<1>5. ASSUME NEW A \in SUBSET Task
      PROVE  T[A] = T[A \cap Holding(q)]
  <2>1. A \cap Holding(q) \in SUBSET Task /\ A \cap Holding(r) \in SUBSET Task
    OBVIOUS
  <2>2. S[A] = S[A \cap Holding(r)] /\ S[A] \in Nat
    BY <1>1, <2>1
  <2>3. CASE t \in A /\ e > 0
    <3>1. A \cap Holding(q) = (A \cap Holding(r)) \cup {t} /\ t \notin A \cap Holding(r)
      BY <1>2, <2>3 DEF Holding
    <3>2. S[A \cap Holding(q)] = S[A \cap Holding(r)] + r[t]
      BY <1>1, <2>1, <3>1
    <3> QED
      <4>1. T[A] = S[A] + e
        BY <1>0, <2>3
      <4>2. T[A \cap Holding(q)] = S[A \cap Holding(q)] + e
        BY <1>0, <2>1, <2>3, <3>1
      <4>3. S[A \cap Holding(q)] = S[A]
        BY <2>2, <3>2
      <4> QED
        BY <4>1, <4>2, <4>3
  <2>4. CASE ~(t \in A /\ e > 0)
    <3>1. A \cap Holding(q) = A \cap Holding(r)
      BY <1>2, <2>4 DEF Holding
    <3>2. t \notin A \cap Holding(r)
      BY DEF Holding
    <3> QED
      <4>1. t \notin A \cap Holding(q)
        BY <3>1, <3>2
      <4>2. T[A \cap Holding(q)] = S[A \cap Holding(q)]
        BY <1>0, <2>1, <4>1
      <4>3. T[A] = S[A]
        BY <1>0, <2>2, <2>4
      <4> QED
        BY <2>2, <3>1, <4>2, <4>3
  <2> QED
    BY <2>3, <2>4
<1>6. SumOf(T, q)
  BY <1>3, <1>4, <1>5 DEF SumOf
<1> QED
  BY <1>3, <1>6

\* A task gives its reservation back.
LEMMA SumReleases ==
    ASSUME NEW r \in [Task -> Nat], NEW S, SumOf(S, r), NEW t \in Task, NEW q, q = [r EXCEPT ![t] = 0]
    PROVE  /\ S[Task] \in Nat /\ r[t] <= S[Task]
           /\ \E T : SumOf(T, q) /\ T[Task] = S[Task] - r[t]
<1> PICK T : T = [A \in SUBSET Task |-> IF t \in A THEN S[A] - r[t] ELSE S[A]]
  OBVIOUS
<1>0. \A A \in SUBSET Task : T[A] = IF t \in A THEN S[A] - r[t] ELSE S[A]
  OBVIOUS
<1>1. /\ S \in [SUBSET Task -> Nat] /\ S[{}] = 0
      /\ \A A \in SUBSET Task : \A u \in Task \ A : S[A \cup {u}] = S[A] + r[u]
      /\ \A A \in SUBSET Task : S[A] = S[A \cap Holding(r)]
  BY DEF SumOf
<1>2. q[t] = 0 /\ (\A u \in Task \ {t} : q[u] = r[u]) /\ r[t] \in Nat
  OBVIOUS
<1>3. ASSUME NEW A \in SUBSET Task, t \in A
      PROVE  S[A] = S[A \ {t}] + r[t] /\ S[A \ {t}] \in Nat /\ S[A] \in Nat
  <2>1. A \ {t} \in SUBSET Task /\ t \in Task \ (A \ {t}) /\ (A \ {t}) \cup {t} = A
    BY <1>3
  <2>2. S[(A \ {t}) \cup {t}] = S[A \ {t}] + r[t]
    BY <1>1, <2>1
  <2> QED
    BY <1>1, <2>1, <2>2
<1>4. T \in [SUBSET Task -> Nat] /\ T[{}] = 0
  <2>1. \A A \in SUBSET Task : T[A] \in Nat
    <3> SUFFICES ASSUME NEW A \in SUBSET Task PROVE T[A] \in Nat
      OBVIOUS
    <3>1. CASE t \in A
      <4>1. T[A] = S[A] - r[t]
        BY <1>0, <3>1
      <4> QED
        <5>1. S[A] = S[A \ {t}] + r[t] /\ S[A \ {t}] \in Nat
          BY <1>3, <3>1
        <5> QED
          BY <1>2, <4>1, <5>1
    <3>2. CASE t \notin A
      BY <1>0, <1>1, <3>2
    <3> QED
      BY <3>1, <3>2
  <2> QED
    BY <1>1, <2>1
<1>5. S[Task] \in Nat /\ r[t] <= S[Task] /\ T[Task] = S[Task] - r[t]
  <2>1. S[Task] = S[Task \ {t}] + r[t] /\ S[Task \ {t}] \in Nat /\ S[Task] \in Nat
    BY <1>3
  <2> QED
    BY <1>2, <2>1
<1>6. ASSUME NEW A \in SUBSET Task, NEW u \in Task \ A
      PROVE  T[A \cup {u}] = T[A] + q[u]
  <2>1. A \cup {u} \in SUBSET Task /\ S[A \cup {u}] = S[A] + r[u] /\ S[A] \in Nat /\ r[u] \in Nat
    BY <1>1
  <2>2. CASE u = t
    BY <1>2, <2>1, <2>2
  <2>3. CASE u # t
    BY <1>2, <2>1, <2>3
  <2> QED
    BY <2>2, <2>3
<1>7. ASSUME NEW A \in SUBSET Task
      PROVE  T[A] = T[A \cap Holding(q)]
  <2>1. /\ A \cap Holding(q) \in SUBSET Task /\ A \cap Holding(r) \in SUBSET Task
        /\ t \notin A \cap Holding(q)
    BY <1>2 DEF Holding
  <2>2. S[A] = S[A \cap Holding(r)] /\ S[A] \in Nat /\ S[A \cap Holding(q)] \in Nat
    BY <1>1, <2>1
  <2>3. CASE t \in A /\ r[t] > 0
    <3>1. A \cap Holding(r) = (A \cap Holding(q)) \cup {t}
      BY <1>2, <2>3 DEF Holding
    <3>2. S[A \cap Holding(r)] = S[A \cap Holding(q)] + r[t]
      BY <1>1, <2>1, <3>1
    <3> QED
      <4>1. T[A \cap Holding(q)] = S[A \cap Holding(q)] /\ T[A] = S[A] - r[t]
        BY <1>0, <2>1, <2>3
      <4>2. S[A] - r[t] = S[A \cap Holding(q)]
        BY <1>2, <2>2, <3>2
      <4> QED
        BY <4>1, <4>2
  <2>4. CASE ~(t \in A /\ r[t] > 0)
    <3>1. A \cap Holding(q) = A \cap Holding(r)
      BY <1>2, <2>4 DEF Holding
    <3>2. t \in A => r[t] = 0
      BY <1>2, <2>4
    <3> QED
      <4>1. T[A \cap Holding(q)] = S[A \cap Holding(q)]
        BY <1>0, <2>1
      <4>2. T[A] = S[A]
        BY <1>0, <1>2, <2>2, <3>2
      <4> QED
        BY <2>2, <3>1, <4>1, <4>2
  <2> QED
    BY <2>3, <2>4
<1>8. SumOf(T, q)
  BY <1>4, <1>6, <1>7 DEF SumOf
<1> QED
  BY <1>5, <1>8

\* The sum of no reservation, of one, and of several.
LEMMA SumOfHolders ==
    ASSUME NEW r \in [Task -> Nat], NEW S, SumOf(S, r)
    PROVE  /\ S[Task] \in Nat
           /\ Holding(r) = {} => S[Task] = 0
           /\ \A t \in Task : Holding(r) = {t} => S[Task] = r[t]
           /\ S[Task] = 0 => Holding(r) = {}
<1>1. /\ S \in [SUBSET Task -> Nat] /\ S[{}] = 0
      /\ \A A \in SUBSET Task : \A u \in Task \ A : S[A \cup {u}] = S[A] + r[u]
      /\ \A A \in SUBSET Task : S[A] = S[A \cap Holding(r)]
  BY DEF SumOf
<1>2. Task \cap Holding(r) = Holding(r) /\ Holding(r) \in SUBSET Task
  BY DEF Holding
<1>3. S[Task] = S[Holding(r)] /\ S[Task] \in Nat
  BY <1>1, <1>2
<1>4. ASSUME NEW t \in Task, Holding(r) = {t} PROVE S[Task] = r[t]
  <2>1. S[{} \cup {t}] = S[{}] + r[t] /\ {} \cup {t} = {t}
    BY <1>1
  <2> QED
    BY <1>1, <1>3, <1>4, <2>1
<1>5. ASSUME S[Task] = 0 PROVE Holding(r) = {}
  <2> SUFFICES ASSUME NEW t \in Holding(r) PROVE FALSE
    OBVIOUS
  <2>1. t \in Task /\ r[t] \in Nat /\ r[t] > 0
    BY DEF Holding
  <2>2. r[t] <= S[Task]
    <3>1. [r EXCEPT ![t] = 0] = [r EXCEPT ![t] = 0]
      OBVIOUS
    <3> QED
      BY <2>1, <3>1, SumReleases
  <2> QED
    BY <1>5, <2>1, <2>2
<1> QED
  BY <1>1, <1>3, <1>4, <1>5

\* HeapBudget, with the tasks that hold heap named.
LEMMA HeapParts ==
    HeapBudget <=>
      /\ Holding(reserved) \subseteq active \cup settled
      /\ Holding(reserved) = {} => memoryActive = 0
      /\ \A t \in Holding(reserved) : Holding(reserved) = {t} => memoryActive = reserved[t]
      /\ Cardinality(Holding(reserved)) > 1 => \E lim \in Limits : memoryActive <= lim.mem
  BY DEF HeapBudget, Holding

\* The sum implies the first half of the budget.
LEMMA HeapFromSum ==
    ASSUME NEW r \in [Task -> Nat], NEW m, \E S : SumOf(S, r) /\ m = S[Task]
    PROVE  /\ Holding(r) = {} => m = 0
           /\ \A t \in Holding(r) : Holding(r) = {t} => m = r[t]
<1>1. PICK S : SumOf(S, r) /\ m = S[Task]
  OBVIOUS
<1>2. Holding(r) \subseteq Task
  BY DEF Holding
<1> QED
  BY <1>1, <1>2, SumOfHolders

LEMMA HeapStays ==
    ASSUME HeapInv, QueueInv', reserved' = reserved, memoryActive' = memoryActive,
           active \cup settled \subseteq active' \cup settled'
    PROVE  HeapInv'
<1>1. HeapAdds'
  BY DEF HeapInv, HeapAdds
<1>2. HeapBudget'
  BY DEF HeapInv, HeapBudget
<1> QED
  BY <1>1, <1>2 DEF HeapInv

LEMMA HeapDies ==
    ASSUME QueueInv', reserved' = [t \in Task |-> 0], memoryActive' = 0
    PROVE  HeapInv'
<1>1. HeapAdds'
  <2>1. \E S : SumOf(S, reserved') /\ S[Task] = 0
    BY SumOfNothing
  <2> QED
    BY <2>1 DEF HeapAdds
<1>2. Holding(reserved') = {}
  BY DEF Holding
<1>3. Cardinality(Holding(reserved')) = 0
  BY <1>2, FS_EmptySet
<1>4. HeapBudget'
  BY <1>2, <1>3 DEF HeapBudget, Holding
<1> QED
  BY <1>1, <1>4 DEF HeapInv

\* One job more: it fits beside the others, or it runs alone.
LEMMA HeapStart ==
    ASSUME HeapInv, StartNext
    PROVE  HeapInv'
<1>1. PICK lim \in Limits, est \in Stats, t \in pending : Start(t, est, lim)
  BY DEF StartNext
<1>2. PICK e : e = est[t]
  OBVIOUS
<1>3. /\ t \in Runnable(est, lim)
      /\ reserved' = [reserved EXCEPT ![t] = e] /\ memoryActive' = memoryActive + e
      /\ active' = active \cup {t} /\ settled' = settled
  BY <1>1, <1>2 DEF Start
<1>4. QueueInv' /\ TypeOK /\ TypeOK'
  BY StartInv DEF HeapInv, QueueInv
<1>5. t \in Task /\ e \in Nat
  <2>1. est[t] \in Estimates[key[t]] /\ est[t] \in UNION {Estimates[k] : k \in Key}
    BY DEF Stats
  <2> QED
    BY <1>2, <1>4, <2>1, MapAssumption DEF TypeOK
<1>6. reserved \in [Task -> Nat] /\ memoryActive \in Nat
  BY <1>4 DEF TypeOK
<1>7. reserved[t] = 0
  <2>1. t \notin active \cup settled
    BY DEF HeapInv, QueueInv, Disjoint
  <2>2. ~(reserved[t] > 0)
    BY <1>5, <2>1, HeapParts DEF HeapInv, Holding
  <2>3. reserved[t] \in Nat
    BY <1>5, <1>6
  <2> QED
    BY <2>2, <2>3
<1>8. PICK S : SumOf(S, reserved) /\ memoryActive = S[Task]
  BY DEF HeapInv, HeapAdds
<1>9. HeapAdds'
  <2>1. \E T : SumOf(T, reserved') /\ T[Task] = S[Task] + e
    BY <1>3, <1>5, <1>6, <1>7, <1>8, SumReserves
  <2> QED
    BY <1>3, <1>8, <2>1 DEF HeapAdds
<1>10. Holding(reserved') = IF e > 0 THEN Holding(reserved) \cup {t} ELSE Holding(reserved)
  <2>1. reserved'[t] = e /\ \A u \in Task \ {t} : reserved'[u] = reserved[u]
    BY <1>3, <1>5, <1>6
  <2> QED
    BY <1>5, <1>7, <2>1 DEF Holding
<1>11. Holding(reserved') \subseteq active' \cup settled'
  BY <1>3, <1>10, HeapParts DEF HeapInv
<1>12. ASSUME Cardinality(Holding(reserved')) > 1
       PROVE  \E l \in Limits : memoryActive' <= l.mem
  <2>1. CASE e = 0
    <3>1. Holding(reserved') = Holding(reserved) /\ memoryActive' = memoryActive
      BY <1>3, <1>6, <1>10, <2>1
    <3> QED
      BY <1>12, <3>1, HeapParts DEF HeapInv
  <2>2. CASE e > 0
    <3>1. e = 0 \/ memoryActive = 0 \/ memoryActive + e <= lim.mem
      BY <1>2, <1>3 DEF Runnable, MemoryFits
    <3>2. CASE memoryActive = 0
      <4>1. Holding(reserved) = {}
        BY <1>6, <1>8, <3>2, SumOfHolders
      <4>2. Cardinality(Holding(reserved')) = 1
        BY <1>10, <2>2, <4>1, FS_Singleton
      <4> QED
        BY <1>12, <4>2
    <3>3. CASE memoryActive + e <= lim.mem
      BY <1>3, <3>3
    <3> QED
      BY <2>2, <3>1, <3>2, <3>3
  <2> QED
    BY <1>5, <2>1, <2>2
<1>13. HeapBudget'
  <2>1. reserved' \in [Task -> Nat]
    BY <1>4 DEF TypeOK
  <2>2. /\ Holding(reserved') = {} => memoryActive' = 0
        /\ \A u \in Holding(reserved') : Holding(reserved') = {u} => memoryActive' = reserved'[u]
    BY <2>1, <1>9, HeapFromSum DEF HeapAdds
  <2> QED
    BY <2>2, <1>11, <1>12 DEF HeapBudget, Holding
<1> QED
  BY <1>4, <1>9, <1>13 DEF HeapInv

\* The heap of a released job goes back, and no more than that.
LEMMA HeapRelease ==
    ASSUME HeapInv, NEW t \in Task, Release(t)
    PROVE  HeapInv'
<1>1. /\ reserved' = [reserved EXCEPT ![t] = 0]
      /\ memoryActive' = IF reserved[t] <= memoryActive THEN memoryActive - reserved[t] ELSE 0
      /\ settled' = settled \ {t} /\ active' = active
  BY DEF Release
<1>2. QueueInv' /\ TypeOK /\ TypeOK'
  BY ReleaseInv DEF HeapInv, QueueInv
<1>3. reserved \in [Task -> Nat] /\ memoryActive \in Nat /\ reserved[t] \in Nat
  BY <1>2 DEF TypeOK
<1>4. PICK S : SumOf(S, reserved) /\ memoryActive = S[Task]
  BY DEF HeapInv, HeapAdds
<1>5. /\ reserved[t] <= S[Task] /\ \E T : SumOf(T, reserved') /\ T[Task] = S[Task] - reserved[t]
  <2>1. PICK q : q = [reserved EXCEPT ![t] = 0]
    OBVIOUS
  <2>2. /\ reserved[t] <= S[Task] /\ \E T : SumOf(T, q) /\ T[Task] = S[Task] - reserved[t]
    BY <1>3, <1>4, <2>1, SumReleases
  <2> QED
    BY <1>1, <2>1, <2>2
<1>6. memoryActive' = memoryActive - reserved[t] /\ memoryActive' <= memoryActive
  BY <1>1, <1>3, <1>4, <1>5
<1>7. HeapAdds'
  BY <1>4, <1>5, <1>6 DEF HeapAdds
<1>8. Holding(reserved') = Holding(reserved) \ {t}
  <2>1. reserved'[t] = 0 /\ \A u \in Task \ {t} : reserved'[u] = reserved[u]
    BY <1>1, <1>3
  <2> QED
    BY <2>1 DEF Holding
<1>9. Holding(reserved') \subseteq active' \cup settled'
  BY <1>1, <1>8, HeapParts DEF HeapInv
<1>10. ASSUME Cardinality(Holding(reserved')) > 1
       PROVE  \E l \in Limits : memoryActive' <= l.mem
  <2>1. IsFiniteSet(Holding(reserved))
    <3>1. IsFiniteSet(Task) /\ Holding(reserved) \in SUBSET Task
      BY BoundAssumption, FS_Interval DEF Task, Holding
    <3> QED
      BY <3>1, FS_Subset
  <2>2. /\ Cardinality(Holding(reserved')) <= Cardinality(Holding(reserved))
        /\ Cardinality(Holding(reserved')) \in Nat /\ Cardinality(Holding(reserved)) \in Nat
    <3>1. Holding(reserved') \in SUBSET Holding(reserved)
      BY <1>8
    <3>2. /\ IsFiniteSet(Holding(reserved'))
          /\ Cardinality(Holding(reserved')) <= Cardinality(Holding(reserved))
      BY <2>1, <3>1, FS_Subset
    <3> QED
      BY <2>1, <3>2, FS_CardinalityType
  <2>3. PICK l \in Limits : memoryActive <= l.mem
    BY <1>10, <2>2, HeapParts DEF HeapInv
  <2>4. l.mem \in Nat
    BY LimitAssumption
  <2> QED
    BY <1>3, <1>6, <2>3, <2>4
<1>11. HeapBudget'
  <2>1. reserved' \in [Task -> Nat]
    BY <1>2 DEF TypeOK
  <2>2. /\ Holding(reserved') = {} => memoryActive' = 0
        /\ \A u \in Holding(reserved') : Holding(reserved') = {u} => memoryActive' = reserved'[u]
    BY <2>1, <1>7, HeapFromSum DEF HeapAdds
  <2> QED
    BY <2>2, <1>9, <1>10 DEF HeapBudget, Holding
<1> QED
  BY <1>2, <1>7, <1>11 DEF HeapInv

LEMMA InitHeap == Init => HeapInv
<1> SUFFICES ASSUME Init PROVE HeapInv
  OBVIOUS
<1>1. reserved = [t \in Task |-> 0] /\ memoryActive = 0
  BY DEF Init
<1>2. HeapAdds
  BY <1>1, SumOfNothing DEF HeapAdds
<1>3. Holding(reserved) = {} /\ Cardinality({}) = 0
  BY <1>1, FS_EmptySet DEF Holding
<1>4. HeapBudget
  BY <1>1, <1>3, HeapParts
<1> QED
  BY <1>2, <1>4, InitQueueInv DEF HeapInv

LEMMA NextHeap == HeapInv /\ [Next]_vars => HeapInv'
<1> SUFFICES ASSUME HeapInv, [Next]_vars PROVE HeapInv'
  OBVIOUS
<1>0. QueueInv'
  BY NextQueueInv DEF HeapInv
<1>1. CASE \E files \in SUBSET Key \ {{}} : Enqueue(files)
  BY <1>0, <1>1, HeapStays DEF Enqueue, memory
<1>2. CASE \E batch \in SUBSET Task : StopBatch(batch)
  BY <1>0, <1>2, HeapStays DEF StopBatch, memory, backlog
<1>3. CASE \E t \in Task, batch \in SUBSET Task : Settle(t, batch)
  <2>1. /\ reserved' = reserved /\ memoryActive' = memoryActive
        /\ active \cup settled \subseteq active' \cup settled'
    BY <1>3 DEF Settle, memory
  <2> QED
    BY <1>0, <2>1, HeapStays
<1>4. CASE \E t \in Task : Release(t)
  BY <1>4, HeapRelease
<1>5. CASE Continue
  <2>1. CASE StartNext
    BY <2>1, HeapStart
  <2>2. CASE HaltNext \/ PumpEnd \/ RestoreEnd
    BY <1>0, <2>2, HeapStays DEF HaltNext, PumpEnd, RestoreEnd, memory, backlog
  <2>3. CASE \E t \in Task : Quarantine(t) \/ Skip(t) \/ Restore(t)
    BY <1>0, <2>3, HeapStays DEF Quarantine, Skip, Restore, Drop, memory, backlog
  <2> QED
    BY <1>5, <2>1, <2>2, <2>3 DEF Continue
<1>6. CASE Boot
  BY <1>0, <1>6, HeapStays DEF Boot, memory, backlog
<1>7. CASE Crash \/ Stop \/ \E files \in SUBSET Key \ {{}} : CrashInEnqueue(files)
  BY <1>0, <1>7, HeapDies DEF Crash, Stop, CrashInEnqueue, Die, NothingRuns
<1>8. CASE UNCHANGED vars
  BY <1>0, <1>8, HeapStays DEF vars, memory, backlog
<1> QED
  BY <1>1, <1>2, <1>3, <1>4, <1>5, <1>6, <1>7, <1>8 DEF Next, Work

\* Two jobs never hold more heap together than a budget allows, a job beyond it
\* runs alone, and no reservation is leaked, whatever crashes, halts and faults.
THEOREM HeapStaysInBudget == Spec => []HeapBudget
<1>1. HeapInv => HeapBudget
  BY DEF HeapInv
<1> QED
  BY InitHeap, NextHeap, <1>1, PTL DEF Spec

-----------------------------------------------------------------------------
(* Slots, and the safety half of EverySettles: a backlog is never left to    *)
(* itself, so the pump that admits its next task is still to come.           *)

InBucket(tasks, k, b) == {t \in tasks : BucketOf[k[t]] = b}

\* A counter of slots is the number of tasks that hold one.
SlotsExact ==
    \A b \in Bucket : running[b] = Cardinality(InBucket(active \cup settled, key, b))

\* No bucket runs more than some setting of its cap allowed.
SlotBudget == \A b \in Bucket : running[b] > 0 => \E lim \in Limits : running[b] <= lim.cap[b]

\* When no handler runs, a backlog has a task in front of it whose release will pump.
Attended == thread = "idle" /\ pending # {} => active \cup settled # {}

\* Attended rests on the two counters that could keep a task out for good.
AdmissionInv == HeapInv /\ SlotsExact /\ SlotBudget /\ Attended

LEMMA FiniteTasks ==
    ASSUME NEW tasks \in SUBSET Task, NEW k, NEW b
    PROVE  /\ IsFiniteSet(InBucket(tasks, k, b))
           /\ Cardinality(InBucket(tasks, k, b)) \in Nat
<1>1. IsFiniteSet(Task)
  BY BoundAssumption, FS_Interval DEF Task
<1>2. InBucket(tasks, k, b) \in SUBSET Task
  BY DEF InBucket
<1>3. IsFiniteSet(InBucket(tasks, k, b))
  BY <1>1, <1>2, FS_Subset
<1> QED
  BY <1>3, FS_CardinalityType

\* A step that moves no slot.
LEMMA SlotsStay ==
    ASSUME AdmissionInv, running' = running, active' \cup settled' = active \cup settled,
           \A t \in active \cup settled : key'[t] = key[t]
    PROVE  SlotsExact' /\ SlotBudget'
<1>1. \A b \in Bucket : InBucket(active' \cup settled', key', b) = InBucket(active \cup settled, key, b)
  BY DEF InBucket
<1> QED
  BY <1>1 DEF AdmissionInv, SlotsExact, SlotBudget

LEMMA SlotsDie ==
    ASSUME running' = [b \in Bucket |-> 0], active' = {}, settled' = {}
    PROVE  SlotsExact' /\ SlotBudget'
<1>1. \A b \in Bucket : InBucket(active' \cup settled', key', b) = {} /\ running'[b] = 0
  BY DEF InBucket
<1> QED
  BY <1>1, FS_EmptySet DEF SlotsExact, SlotBudget

LEMMA SlotsStart ==
    ASSUME AdmissionInv, StartNext
    PROVE  SlotsExact' /\ SlotBudget'
<1>1. PICK lim \in Limits, est \in Stats, t \in pending : Start(t, est, lim)
  BY DEF StartNext
<1>2. /\ t \in Runnable(est, lim) /\ running' = [running EXCEPT ![BucketOfTask(t)] = @ + 1]
      /\ active' = active \cup {t} /\ settled' = settled /\ key' = key
  BY <1>1 DEF Start
<1>3. TypeOK /\ Disjoint
  BY DEF AdmissionInv, HeapInv, QueueInv
<1>4. /\ active \cup settled \in SUBSET Task /\ t \notin active \cup settled
      /\ running \in [Bucket -> Int]
  BY <1>3 DEF TypeOK, Disjoint
<1>5. \A b \in Bucket : running'[b] = IF b = BucketOfTask(t) THEN running[b] + 1 ELSE running[b]
  BY <1>2, <1>4
<1>6. ASSUME NEW b \in Bucket
      PROVE  running'[b] = Cardinality(InBucket(active' \cup settled', key', b))
  <2>1. /\ running[b] = Cardinality(InBucket(active \cup settled, key, b))
        /\ IsFiniteSet(InBucket(active \cup settled, key, b))
    BY <1>4, FiniteTasks DEF AdmissionInv, SlotsExact
  <2>2. CASE b = BucketOfTask(t)
    <3>1. /\ InBucket(active' \cup settled', key', b) = InBucket(active \cup settled, key, b) \cup {t}
          /\ t \notin InBucket(active \cup settled, key, b)
      BY <1>2, <1>4, <2>2 DEF InBucket, BucketOfTask
    <3>2. Cardinality(InBucket(active \cup settled, key, b) \cup {t})
            = Cardinality(InBucket(active \cup settled, key, b)) + 1
      BY <2>1, <3>1, FS_AddElement
    <3> QED
      BY <1>5, <2>1, <2>2, <3>1, <3>2
  <2>3. CASE b # BucketOfTask(t)
    <3>1. InBucket(active' \cup settled', key', b) = InBucket(active \cup settled, key, b)
      BY <1>2, <2>3 DEF InBucket, BucketOfTask
    <3> QED
      BY <1>5, <2>1, <2>3, <3>1
  <2> QED
    BY <2>2, <2>3
<1>7. ASSUME NEW b \in Bucket, running'[b] > 0
      PROVE  \E l \in Limits : running'[b] <= l.cap[b]
  <2>1. CASE b = BucketOfTask(t)
    <3>1. running[b] < lim.cap[b]
      BY <1>2, <2>1 DEF Runnable, HasSlot
    <3>2. running[b] \in Int /\ lim.cap[b] \in Nat
      BY <1>4, LimitAssumption
    <3> QED
      BY <1>5, <2>1, <3>1, <3>2
  <2>2. CASE b # BucketOfTask(t)
    BY <1>5, <1>7, <2>2 DEF AdmissionInv, SlotBudget
  <2> QED
    BY <2>1, <2>2
<1> QED
  BY <1>6, <1>7 DEF SlotsExact, SlotBudget

LEMMA SlotsRelease ==
    ASSUME AdmissionInv, NEW t \in Task, Release(t)
    PROVE  SlotsExact' /\ SlotBudget'
<1>1. /\ t \in settled /\ running' = [running EXCEPT ![BucketOfTask(t)] = @ - 1]
      /\ settled' = settled \ {t} /\ active' = active /\ key' = key
  BY DEF Release, history
<1>2. TypeOK /\ Disjoint
  BY DEF AdmissionInv, HeapInv, QueueInv
<1>3. /\ active \cup settled \in SUBSET Task /\ active' \cup settled' = (active \cup settled) \ {t}
      /\ running \in [Bucket -> Int]
  BY <1>1, <1>2 DEF TypeOK, Disjoint
<1>4. \A b \in Bucket : running'[b] = IF b = BucketOfTask(t) THEN running[b] - 1 ELSE running[b]
  BY <1>1, <1>3
<1>5. ASSUME NEW b \in Bucket
      PROVE  running'[b] = Cardinality(InBucket(active' \cup settled', key', b))
  <2>1. /\ running[b] = Cardinality(InBucket(active \cup settled, key, b))
        /\ IsFiniteSet(InBucket(active \cup settled, key, b))
    BY <1>3, FiniteTasks DEF AdmissionInv, SlotsExact
  <2>2. CASE b = BucketOfTask(t)
    <3>1. /\ InBucket(active' \cup settled', key', b) = InBucket(active \cup settled, key, b) \ {t}
          /\ t \in InBucket(active \cup settled, key, b)
      BY <1>1, <1>3, <2>2 DEF InBucket, BucketOfTask
    <3>2. Cardinality(InBucket(active \cup settled, key, b) \ {t})
            = Cardinality(InBucket(active \cup settled, key, b)) - 1
      BY <2>1, <3>1, FS_RemoveElement
    <3> QED
      BY <1>4, <2>1, <2>2, <3>1, <3>2
  <2>3. CASE b # BucketOfTask(t)
    <3>1. InBucket(active' \cup settled', key', b) = InBucket(active \cup settled, key, b)
      BY <1>1, <1>3, <2>3 DEF InBucket, BucketOfTask
    <3> QED
      BY <1>4, <2>1, <2>3, <3>1
  <2> QED
    BY <2>2, <2>3
<1>6. ASSUME NEW b \in Bucket, running'[b] > 0
      PROVE  \E l \in Limits : running'[b] <= l.cap[b]
  <2>1. running[b] \in Int /\ running'[b] <= running[b] /\ running'[b] \in Int
    BY <1>3, <1>4
  <2>2. PICK l \in Limits : running[b] <= l.cap[b]
    BY <1>6, <2>1 DEF AdmissionInv, SlotBudget
  <2>3. l.cap[b] \in Nat
    BY LimitAssumption
  <2> QED
    BY <2>1, <2>2, <2>3
<1> QED
  BY <1>5, <1>6 DEF SlotsExact, SlotBudget

\* A scan that finds nothing to start has somebody to wait for: with nothing running,
\* the head of every bucket has a slot and the whole heap.
LEMMA ScanEndsBehindSomebody ==
    ASSUME AdmissionInv, PumpEnd, pending # {}
    PROVE  active \cup settled # {}
<1> SUFFICES ASSUME active \cup settled = {} PROVE FALSE
  OBVIOUS
<1>1. PICK lim \in Limits, est \in Stats : Runnable(est, lim) = {}
  BY DEF PumpEnd
<1>2. PICK t \in pending : TRUE
  OBVIOUS
<1>3. TypeOK /\ Ids
  BY DEF AdmissionInv, HeapInv, QueueInv
<1>4. memoryActive = 0
  BY HeapParts DEF AdmissionInv, HeapInv
<1>5. \A b \in Bucket : running[b] = 0
  <2>1. \A b \in Bucket : InBucket(active \cup settled, key, b) = {}
    BY DEF InBucket
  <2> QED
    BY <2>1, FS_EmptySet DEF AdmissionInv, SlotsExact
<1>6. \A u \in pending : HasSlot(u, lim) /\ MemoryFits(est[u], lim)
  <2> SUFFICES ASSUME NEW u \in pending PROVE HasSlot(u, lim) /\ MemoryFits(est[u], lim)
    OBVIOUS
  <2>1. BucketOfTask(u) \in Bucket
    <3>1. key[u] \in Key
      BY <1>3 DEF Ids, Holders
    <3> QED
      BY <3>1, MapAssumption DEF BucketOfTask
  <2>2. lim.cap[BucketOfTask(u)] \in Nat \ {0}
    BY <2>1, LimitAssumption
  <2> QED
    BY <1>4, <1>5, <2>1, <2>2 DEF HasSlot, MemoryFits
<1>7. t \in Runnable(est, lim)
  BY <1>2, <1>6 DEF Runnable, MemBlocked
<1> QED
  BY <1>1, <1>7

LEMMA NextAdmission == AdmissionInv /\ [Next]_vars => AdmissionInv'
<1> SUFFICES ASSUME AdmissionInv, [Next]_vars PROVE AdmissionInv'
  OBVIOUS
<1>0. HeapInv' /\ TypeOK /\ Ids
  BY NextHeap DEF AdmissionInv, HeapInv, QueueInv
<1> SUFFICES SlotsExact' /\ SlotBudget' /\ Attended'
  BY <1>0 DEF AdmissionInv
<1>1. ASSUME NEW files \in SUBSET Key \ {{}}, Enqueue(files)
      PROVE  SlotsExact' /\ SlotBudget' /\ Attended'
  <2>1. /\ running' = running /\ active' = active /\ settled' = settled /\ thread' = "pump"
        /\ nextId + Room(files) <= MaxTasks + 1
    BY <1>1 DEF Enqueue, memory, BeginPump
  <2>2. PICK f : Mint(nextId .. nextId + Room(files) - 1, f)
    BY <1>1 DEF Enqueue
  <2>3. (nextId .. nextId + Room(files) - 1) \cap (1 .. nextId - 1) = {}
    BY <1>0, <2>1, NewIds
  <2>4. \A t \in active \cup settled : key'[t] = key[t]
    BY <1>0, <2>2, <2>3 DEF Mint, Ids, Holders, TypeOK
  <2> QED
    BY <2>1, <2>4, SlotsStay DEF Attended
<1>2. ASSUME NEW batch \in SUBSET Task, StopBatch(batch)
      PROVE  SlotsExact' /\ SlotBudget' /\ Attended'
  <2>1. UNCHANGED <<running, active, settled, key, thread, pending>>
    BY <1>2 DEF StopBatch, memory, backlog, history
  <2> QED
    BY <2>1, SlotsStay DEF AdmissionInv, Attended
<1>3. ASSUME NEW t \in Task, NEW batch \in SUBSET Task, Settle(t, batch)
      PROVE  SlotsExact' /\ SlotBudget' /\ Attended'
  <2>1. UNCHANGED <<running, key, thread, pending>> /\ active' \cup settled' = active \cup settled
    BY <1>3 DEF Settle, memory
  <2> QED
    BY <2>1, SlotsStay DEF AdmissionInv, Attended
<1>4. ASSUME NEW t \in Task, Release(t)
      PROVE  SlotsExact' /\ SlotBudget' /\ Attended'
  BY <1>4, SlotsRelease DEF Release, BeginPump, Attended
<1>5. CASE HaltNext
  <2>1. UNCHANGED <<running, active, settled, key, thread>> /\ pending' \subseteq pending
    BY <1>5 DEF HaltNext, memory
  <2> QED
    BY <2>1, SlotsStay DEF AdmissionInv, Attended
<1>6. CASE StartNext
  <2>1. thread' # "idle"
    BY <1>6 DEF StartNext, Start, Pumping, control
  <2> QED
    BY <1>6, <2>1, SlotsStart DEF Attended
<1>7. CASE PumpEnd
  <2>1. UNCHANGED <<running, active, settled, key, pending>>
    BY <1>7 DEF PumpEnd, memory, backlog, history
  <2> QED
    BY <1>7, <2>1, SlotsStay, ScanEndsBehindSomebody DEF Attended
<1>8. CASE RestoreEnd \/ Boot \/ \E t \in Task : Quarantine(t) \/ Skip(t) \/ Restore(t)
  <2>1. UNCHANGED <<running, active, settled, key>> /\ thread' # "idle"
    BY <1>8 DEF RestoreEnd, BeginPump, Boot, Quarantine, Skip, Restore, Drop, Candidate,
                memory, backlog, history
  <2> QED
    BY <2>1, SlotsStay DEF Attended
<1>9. CASE Crash \/ Stop \/ \E files \in SUBSET Key \ {{}} : CrashInEnqueue(files)
  BY <1>9, SlotsDie DEF Crash, Stop, CrashInEnqueue, Die, NothingRuns, Attended
<1>10. CASE UNCHANGED vars
  <2>1. UNCHANGED <<running, active, settled, key, thread, pending>>
    BY <1>10 DEF vars, control, memory, backlog, history
  <2> QED
    BY <2>1, SlotsStay DEF AdmissionInv, Attended
<1> QED
  BY <1>1, <1>2, <1>3, <1>4, <1>5, <1>6, <1>7, <1>8, <1>9, <1>10 DEF Next, Work, Continue

LEMMA AdmissionInvariant == Spec => []AdmissionInv
<1>1. Init => AdmissionInv
  <2> SUFFICES ASSUME Init PROVE AdmissionInv
    OBVIOUS
  <2>1. \A b \in Bucket : InBucket(active \cup settled, key, b) = {} /\ running[b] = 0
    BY DEF Init, InBucket
  <2> QED
    BY <2>1, InitHeap, FS_EmptySet DEF Init, AdmissionInv, SlotsExact, SlotBudget, Attended
<1> QED
  BY <1>1, NextAdmission, PTL DEF Spec

\* The slots in use are the tasks that run or have not released, and no bucket runs more
\* than some reading of its cap allowed, whatever crashes, halts and faults.
THEOREM SlotsAreCounted == Spec => [](SlotsExact /\ SlotBudget)
<1>1. AdmissionInv => SlotsExact /\ SlotBudget
  BY DEF AdmissionInv
<1> QED
  BY <1>1, AdmissionInvariant, PTL

\* A backlog never waits for a pump that nobody will make: settings that shrink and files
\* larger than the whole budget included, a task runs whose release pumps again.
THEOREM BacklogIsAttended == Spec => []Attended
<1>1. AdmissionInv => Attended
  BY DEF AdmissionInv
<1> QED
  BY <1>1, AdmissionInvariant, PTL

=============================================================================
