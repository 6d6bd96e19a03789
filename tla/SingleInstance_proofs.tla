------------------------ MODULE SingleInstance_proofs ------------------------
(* However many backends boot at once, crash, drain or find a stale file,    *)
(* one holds the lock, unless a racer removed the file of another.           *)
EXTENDS SingleInstance, TLAPS

\* A boot in progress has an attempt left.
AttemptLeft == \A p \in Proc : pc[p] \in Booting \cup {"new"} => tries[p] < MaxTries

\* What the file says while p is between two of its calls.
CreatedIsMine == \A p \in Proc \ taken : pc[p] = "created" => lock = [by |-> p, pid |-> NoOne]
HeldIsMine    == \A p \in Proc \ taken : pc[p] \in Holding => lock = [by |-> p, pid |-> p]

\* Whoever is about to remove the file of a holder had read it before.
RemoversRace ==
    \A p \in Proc \ taken, q \in Proc :
      pc[p] \in Holding /\ q \in Deciding /\ q # p => q \in racers[p]

\* LockNamesHolder alone is not inductive: an Unlink or a Release must be known to
\* be a racer's, and a WritePid to reach the file of its own process.
Lineage == CreatedIsMine /\ HeldIsMine /\ RemoversRace
LockInv == TypeOK /\ AttemptLeft /\ Lineage

Where == {"new", "stood down", "draining", "gone"} \cup Booting \cup Holding

-----------------------------------------------------------------------------
LEMMA InitLock == Init => LockInv
BY ProcAssumption, TryAssumption
DEF Init, LockInv, Lineage, TypeOK, AttemptLeft, CreatedIsMine, HeldIsMine,
    RemoversRace, Deciding, Booting, Holding

LEMMA LockIsRecord ==
    ASSUME NEW p \in Proc, NEW q \in Proc \cup {NoOne}
    PROVE  [by |-> p, pid |-> q] # NoLock
<1>1. [by |-> p, pid |-> q] \in [by : Proc, pid : Proc \cup {NoOne}]
  OBVIOUS
<1> QED
  BY <1>1, ProcAssumption

\* The file that is there leaves every other process without one.
LEMMA OthersHaveNone ==
    ASSUME LockInv, NEW p \in Proc \ taken,
           lock = NoLock \/ lock.by # p \/ pc[p] \notin Holding \cup {"created"}
    PROVE  pc[p] \notin Holding \cup {"created"}
BY LockIsRecord DEF LockInv, Lineage, CreatedIsMine, HeldIsMine

\* The history keeps its types and never gives a file back.
LEMMA WatchTypes ==
    ASSUME LockInv, Watch
    PROVE  /\ racers' \in [Proc -> SUBSET Proc] /\ taken' \subseteq Proc
           /\ taken \subseteq taken'
BY DEF Watch, LockInv, TypeOK, Deciding

\* It forgets no racer that is still at it.
LEMMA WatchRacers ==
    ASSUME LockInv, Watch, NEW p \in Proc, NEW q \in Proc,
           q \in Deciding', q \in racers[p] \/ (pc[p] = "created" /\ pc'[p] = "held")
    PROVE  q \in racers'[p]
BY DEF Watch, LockInv, TypeOK, Deciding

\* A file that goes leaves no holder behind whom its remover did not race.
LEMMA RemovedIsTaken ==
    ASSUME LockInv, Watch, lock' = NoLock, NEW p \in Proc, p \in Deciding, pc'[p] # pc[p],
           NEW q \in Proc \ taken', q # p
    PROVE  pc[q] \notin Holding \cup {"created"}
<1>1. q \notin taken
  BY WatchTypes
<1>2. ASSUME pc[q] = "created" PROVE FALSE
  <2>1. lock = [by |-> q, pid |-> NoOne]
    BY <1>1, <1>2 DEF LockInv, Lineage, CreatedIsMine
  <2>2. lock # NoLock /\ lock.by = q
    BY <2>1, LockIsRecord
  <2> QED
    BY <1>2, <2>2 DEF Watch
<1>3. ASSUME pc[q] \in Holding PROVE FALSE
  <2>1. lock = [by |-> q, pid |-> q]
    BY <1>1, <1>3 DEF LockInv, Lineage, HeldIsMine
  <2>2. lock # NoLock /\ lock.by = q
    BY <2>1, LockIsRecord
  <2>3. p \in racers[q]
    BY <1>1, <1>3 DEF LockInv, Lineage, RemoversRace
  <2> QED
    BY <2>2, <2>3 DEF Watch
<1> QED
  BY <1>2, <1>3

LEMMA TryAgainTypes ==
    ASSUME LockInv, NEW p \in Proc, TryAgain(p), pc[p] \in Booting
    PROVE  /\ pc' \in [Proc -> Where]
           /\ tries' \in [Proc -> 0 .. MaxTries]
           /\ AttemptLeft'
           /\ \A q \in Proc : q # p => pc'[q] = pc[q]
           /\ pc'[p] \in {"trying", "stood down"}
<1>1. MaxTries \in Nat /\ tries[p] \in 0 .. MaxTries /\ tries[p] < MaxTries
  <2>1. MaxTries \in Nat
    BY TryAssumption
  <2>2. tries \in [Proc -> 0 .. MaxTries]
    BY DEF LockInv, TypeOK
  <2>3. tries[p] < MaxTries
    BY DEF LockInv, AttemptLeft
  <2> QED
    BY <2>1, <2>2, <2>3
<1>2. tries' = [tries EXCEPT ![p] = tries[p] + 1] /\ tries[p] + 1 \in 0 .. MaxTries
  <2>1. tries' = [tries EXCEPT ![p] = tries[p] + 1]
    BY DEF TryAgain
  <2>2. tries[p] + 1 \in 0 .. MaxTries
    BY <1>1
  <2> QED
    BY <2>1, <2>2
<1> DEFINE where == IF tries[p] + 1 < MaxTries THEN "trying" ELSE "stood down"
<1>3. Go(p, where) /\ where \in {"trying", "stood down"}
  BY DEF TryAgain
<1>4. pc' = [pc EXCEPT ![p] = where]
  BY <1>3 DEF Go
<1>5. where = "trying" => tries[p] + 1 < MaxTries
  OBVIOUS
<1> HIDE DEF where
<1>7. AttemptLeft'
  BY <1>2, <1>3, <1>4, <1>5 DEF LockInv, TypeOK, AttemptLeft, Booting
<1> QED
  BY <1>2, <1>3, <1>4, <1>7 DEF LockInv, TypeOK, Booting, Where

-----------------------------------------------------------------------------
\* The types of a step.
LEMMA NextTypes ==
    ASSUME LockInv, [Next]_vars
    PROVE  TypeOK' /\ AttemptLeft'
<1> USE DEF LockInv, TypeOK, AttemptLeft, Booting, Holding
<1>1. ASSUME NEW p \in Proc, Attempt(p) PROVE TypeOK' /\ AttemptLeft'
  <2>1. racers' \in [Proc -> SUBSET Proc] /\ taken' \subseteq Proc
    BY <1>1, WatchTypes DEF Attempt
  <2>2. CASE Exists(p) \/ FindStale(p)
    BY <2>1, <2>2 DEF Exists, FindStale, Go
  <2>5. CASE Create(p)
    <3>1. lock' \in [by : Proc, pid : Proc \cup {NoOne}]
      BY <2>5 DEF Create
    <3> QED
      BY <2>1, <2>5, <3>1 DEF Create, Go
  <2>4. CASE WritePid(p)
    <3>1. lock' \in [by : Proc, pid : Proc \cup {NoOne}] \cup {NoLock}
      BY <2>4 DEF WritePid
    <3> QED
      BY <2>1, <2>4, <3>1 DEF WritePid, Go
  <2>3. CASE Wait(p) \/ Unlink(p)
    <3>1. TryAgain(p) /\ pc[p] \in Booting /\ (lock' = lock \/ lock' = NoLock)
      BY <2>3 DEF Wait, Unlink
    <3> QED
      BY <2>1, <3>1, TryAgainTypes DEF Where
  <2> QED
    BY <1>1, <2>2, <2>3, <2>4, <2>5 DEF Attempt
<1>2. ASSUME NEW p \in Proc, Other(p) PROVE TypeOK' /\ AttemptLeft'
  <2>1. racers' \in [Proc -> SUBSET Proc] /\ taken' \subseteq Proc
    BY <1>2, WatchTypes DEF Other
  <2> QED
    BY <1>2, <2>1 DEF Other, Boot, Signal, Release, Exit, Crash, Go
<1>3. CASE UNCHANGED vars
  BY <1>3 DEF vars
<1> QED
  BY <1>1, <1>2, <1>3 DEF Next

\* A step that leaves the file alone, creates or holds nothing, and does not begin
\* to remove a holder's file.
LEMMA MoveKeeps ==
    ASSUME LockInv, Watch, NEW p \in Proc, lock' = lock,
           \A q \in Proc : q # p => pc'[q] = pc[q],
           pc'[p] \in Holding => pc[p] \in Holding,
           pc'[p] # "created",
           p \in Deciding' /\ p \notin Deciding =>
             \A q \in Proc \ taken : pc[q] \in Holding => q = p
    PROVE  Lineage'
<1>1. taken \subseteq taken'
  BY WatchTypes
<1>2. CreatedIsMine' /\ HeldIsMine'
  BY <1>1 DEF LockInv, Lineage, CreatedIsMine, HeldIsMine
<1>3. ASSUME NEW q \in Proc \ taken', NEW r \in Proc,
             pc'[q] \in Holding, r \in Deciding', r # q
      PROVE  r \in racers'[q]
  <2>1. q \notin taken /\ pc[q] \in Holding
    BY <1>1, <1>3
  <2>2. r \in Deciding
    BY <1>3, <2>1 DEF Deciding
  <2>3. r \in racers[q]
    BY <1>3, <2>1, <2>2 DEF LockInv, Lineage, RemoversRace
  <2> QED
    BY <1>3, <2>3, WatchRacers
<1>4. RemoversRace'
  BY <1>3 DEF RemoversRace
<1> QED
  BY <1>2, <1>4 DEF Lineage

\* A step that removes the file, by a process that had decided to.
LEMMA RemoveKeeps ==
    ASSUME LockInv, Watch, NEW p \in Proc, lock' = NoLock, p \in Deciding, pc'[p] # pc[p],
           \A q \in Proc : q # p => pc'[q] = pc[q],
           pc'[p] \notin Holding \cup {"created"}
    PROVE  Lineage'
<1>1. \A q \in Proc \ taken' : pc'[q] \notin Holding \cup {"created"}
  BY RemovedIsTaken
<1> QED
  BY <1>1 DEF Lineage, CreatedIsMine, HeldIsMine, RemoversRace

LEMMA CreateKeeps ==
    ASSUME LockInv, Watch, NEW p \in Proc, Create(p)
    PROVE  Lineage'
<1>1. \A q \in Proc \ taken : pc[q] \notin Holding \cup {"created"}
  BY OthersHaveNone DEF Create
<1>2. taken \subseteq taken' /\ lock' = [by |-> p, pid |-> NoOne]
      /\ pc'[p] = "created" /\ \A q \in Proc : q # p => pc'[q] = pc[q]
  BY WatchTypes DEF Create, Go, LockInv, TypeOK
<1>3. \A q \in Proc \ taken' : q # p => pc'[q] \notin Holding \cup {"created"}
  BY <1>1, <1>2
<1>4. \A q \in Proc \ taken' : pc'[q] \notin Holding /\ (pc'[q] = "created" => q = p)
  BY <1>2, <1>3 DEF Holding
<1> QED
  BY <1>2, <1>4 DEF Lineage, CreatedIsMine, HeldIsMine, RemoversRace

LEMMA WritePidKeeps ==
    ASSUME LockInv, Watch, NEW p \in Proc, WritePid(p)
    PROVE  Lineage'
<1>1. /\ taken \subseteq taken'
      /\ pc[p] = "created" /\ pc'[p] = "held"
      /\ \A q \in Proc : q # p => pc'[q] = pc[q]
  BY WatchTypes DEF WritePid, Go, LockInv, TypeOK
<1>2. CASE p \in taken
  <2>1. \A q \in Proc \ taken : pc[q] \in Holding \cup {"created"} => lock.by = q
    BY OthersHaveNone
  <2>2. \A q \in Proc \ taken : pc[q] \in Holding \cup {"created"} => lock' = lock
    BY <1>2, <2>1 DEF WritePid
  <2>3. CreatedIsMine' /\ HeldIsMine'
    BY <1>1, <1>2, <2>2 DEF LockInv, Lineage, CreatedIsMine, HeldIsMine
  <2>4. ASSUME NEW q \in Proc \ taken', NEW r \in Proc,
               pc'[q] \in Holding, r \in Deciding', r # q
        PROVE  r \in racers'[q]
    <3>1. q \notin taken /\ q # p /\ pc[q] \in Holding
      BY <1>1, <1>2, <2>4
    <3>2. r \in Deciding
      BY <1>1, <2>4 DEF Deciding
    <3>3. r \in racers[q]
      BY <2>4, <3>1, <3>2 DEF LockInv, Lineage, RemoversRace
    <3> QED
      BY <2>4, <3>3, WatchRacers
  <2>5. RemoversRace'
    BY <2>4 DEF RemoversRace
  <2> QED
    BY <2>3, <2>5 DEF Lineage
<1>3. CASE p \notin taken
  <2>1. lock = [by |-> p, pid |-> NoOne] /\ lock # NoLock
    BY <1>1, <1>3, LockIsRecord DEF LockInv, Lineage, CreatedIsMine
  <2>2. lock' = [by |-> p, pid |-> p]
    BY <2>1 DEF WritePid
  <2>3. \A q \in Proc \ taken : q # p => pc[q] \notin Holding \cup {"created"}
    BY <2>1, OthersHaveNone
  <2>4. \A q \in Proc \ taken' : q # p => pc'[q] \notin Holding \cup {"created"}
    BY <1>1, <2>3
  <2>5. CreatedIsMine' /\ HeldIsMine'
    BY <1>1, <2>2, <2>4 DEF CreatedIsMine, HeldIsMine
  <2>6. \A q \in Proc : q \in Deciding' => q \in racers'[p]
    BY <1>1, WatchRacers
  <2>7. RemoversRace'
    BY <2>4, <2>6 DEF RemoversRace
  <2> QED
    BY <2>5, <2>7 DEF Lineage
<1> QED
  BY <1>2, <1>3

LEMMA AttemptLock ==
    ASSUME LockInv, NEW p \in Proc, Attempt(p)
    PROVE  Lineage'
<1>0. Watch /\ pc \in [Proc -> Where]
  BY DEF Attempt, LockInv, TypeOK, Where
<1>1. CASE Create(p)
  BY <1>0, <1>1, CreateKeeps
<1>2. CASE WritePid(p)
  BY <1>0, <1>2, WritePidKeeps
<1>3. CASE Exists(p)
  BY <1>0, <1>3, MoveKeeps DEF Exists, Go, Deciding, Holding
<1>4. CASE Wait(p)
  <2>1. lock' = lock /\ TryAgain(p) /\ pc[p] \in Booting
    BY <1>4 DEF Wait, Booting
  <2>2. pc'[p] \in {"trying", "stood down"} /\ \A q \in Proc : q # p => pc'[q] = pc[q]
    BY <2>1, TryAgainTypes
  <2> QED
    BY <1>0, <2>1, <2>2, MoveKeeps DEF Deciding, Holding
<1>5. CASE FindStale(p)
  <2>1. ASSUME NEW q \in Proc \ taken, pc[q] \in Holding PROVE FALSE
    <3>1. lock = [by |-> q, pid |-> q]
      BY <2>1 DEF LockInv, Lineage, HeldIsMine
    <3>2. lock # NoLock /\ lock.pid = q /\ q # NoOne
      BY <3>1, LockIsRecord, ProcAssumption
    <3>3. q # p /\ Alive(q)
      BY <1>5, <2>1 DEF FindStale, Alive, Holding
    <3> QED
      BY <1>5, <3>2, <3>3 DEF FindStale, HeldByLive
  <2>2. lock' = lock /\ pc'[p] = "stale" /\ \A q \in Proc : q # p => pc'[q] = pc[q]
    BY <1>0, <1>5 DEF FindStale, Go
  <2> QED
    BY <1>0, <2>1, <2>2, MoveKeeps DEF Holding
<1>6. CASE Unlink(p)
  <2>1. lock' = NoLock /\ TryAgain(p) /\ pc[p] = "stale" /\ pc[p] \in Booting
    BY <1>6 DEF Unlink, Booting
  <2>2. pc'[p] \in {"trying", "stood down"} /\ \A q \in Proc : q # p => pc'[q] = pc[q]
    BY <2>1, TryAgainTypes
  <2> QED
    BY <1>0, <2>1, <2>2, RemoveKeeps DEF Deciding, Holding
<1> QED
  BY <1>1, <1>2, <1>3, <1>4, <1>5, <1>6 DEF Attempt

LEMMA OtherLock ==
    ASSUME LockInv, NEW p \in Proc, Other(p)
    PROVE  Lineage'
<1>0. Watch /\ pc \in [Proc -> Where]
  BY DEF Other, LockInv, TypeOK, Where
<1>1. CASE Boot(p) \/ Exit(p) \/ Crash(p)
  BY <1>0, <1>1, MoveKeeps DEF Boot, Exit, Crash, Go, Deciding, Holding
<1>2. CASE Signal(p)
  <2>1. lock' = lock /\ pc[p] = "held" /\ \A q \in Proc : q # p => pc'[q] = pc[q]
    BY <1>0, <1>2 DEF Signal, Go
  <2>2. pc'[p] \in {"releasing", "draining"} /\ (pc'[p] = "releasing" => lock # NoLock /\ lock.pid = p)
    BY <1>0, <1>2 DEF Signal, Go
  <2>3. ASSUME pc'[p] = "releasing", NEW q \in Proc \ taken, pc[q] \in Holding PROVE q = p
    BY <2>2, <2>3 DEF LockInv, Lineage, HeldIsMine
  <2> QED
    BY <1>0, <2>1, <2>2, <2>3, MoveKeeps DEF Deciding, Holding
<1>3. CASE Release(p)
  <2>1. lock' = NoLock /\ pc[p] = "releasing" /\ pc'[p] = "draining"
        /\ \A q \in Proc : q # p => pc'[q] = pc[q]
    BY <1>0, <1>3 DEF Release, Go
  <2> QED
    BY <1>0, <2>1, RemoveKeeps DEF Deciding, Holding
<1> QED
  BY <1>1, <1>2, <1>3 DEF Other

LEMMA NextLock ==
    ASSUME LockInv, [Next]_vars
    PROVE  LockInv'
<1>1. CASE Next
  BY <1>1, AttemptLock, OtherLock, NextTypes DEF Next, LockInv
<1>2. CASE UNCHANGED vars
  <2>1. Lineage'
    BY <1>2 DEF vars, LockInv, Lineage, CreatedIsMine, HeldIsMine, RemoversRace, Deciding
  <2> QED
    BY <2>1, NextTypes DEF LockInv
<1> QED
  BY <1>1, <1>2

\* For any number of backends, whether they boot one after the other or at once: two
\* hold the lock only if one lost its file to a process that had read it before.
THEOREM Excludes == Spec => []OneHolder
<1>1. LockInv => OneHolder
  <2> SUFFICES ASSUME LockInv, NEW p \in Proc \ taken, NEW q \in Proc \ taken,
                      pc[p] \in Holding, pc[q] \in Holding
               PROVE  p = q
    BY DEF OneHolder
  <2>1. lock = [by |-> p, pid |-> p] /\ lock = [by |-> q, pid |-> q]
    BY DEF LockInv, Lineage, HeldIsMine
  <2> QED
    BY <2>1
<1>2. LockInv /\ [Next]_vars => LockInv'
  BY NextLock
<1> QED
  BY InitLock, <1>1, <1>2, PTL DEF Spec

\* In particular the lock file names its holder.
THEOREM LockIsTrue == Spec => []LockNamesHolder
<1>1. LockInv => LockNamesHolder
  BY LockIsRecord DEF LockInv, Lineage, HeldIsMine, LockNamesHolder
<1>2. LockInv /\ [Next]_vars => LockInv'
  BY NextLock
<1> QED
  BY InitLock, <1>1, <1>2, PTL DEF Spec

\* The types of the variables, however boots overlap.
THEOREM TypeCorrect == Spec => []TypeOK
<1>1. LockInv => TypeOK
  BY DEF LockInv
<1>2. LockInv /\ [Next]_vars => LockInv'
  BY NextLock
<1> QED
  BY InitLock, <1>1, <1>2, PTL DEF Spec
=============================================================================
