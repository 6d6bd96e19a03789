--------------------------- MODULE SingleInstance ---------------------------
(***************************************************************************)
(* One backend per computer: shared/single-instance.ts.                    *)
(*                                                                         *)
(* The lock is a file created with O_EXCL; the holder then writes its pid  *)
(* into it.  A booter that finds the file reads the pid, waits while that  *)
(* process lives, and removes the file when it does not.  Each of these    *)
(* is a system call, and processes interleave between any two of them.     *)
(*                                                                         *)
(* Nothing keeps backends from booting at once.  Between its read and its  *)
(* unlink a booter may be overtaken: the file it removes is another, and   *)
(* two backends hold the lock.  The history below marks those files, so    *)
(* that the properties can say that there is no other way.                 *)
(*                                                                         *)
(* A process here is one incarnation: pids are not reused.                 *)
(***************************************************************************)
EXTENDS Naturals

CONSTANTS
    Proc,      \* the backends that are ever started
    NoOne,     \* a lock file whose pid is not written yet
    NoLock,    \* the file does not exist
    MaxTries   \* attempts of one boot: retries + 1

ASSUME ProcAssumption == NoOne \notin Proc /\ NoLock \notin [by : Proc, pid : Proc \cup {NoOne}]
ASSUME TryAssumption  == MaxTries \in Nat \ {0}

VARIABLES
    lock,   \* backend.lock
    pc,     \* [Proc -> where the process is]
    tries,  \* [Proc -> Nat]: failed attempts of its boot
    racers, \* history: [Proc -> SUBSET Proc], who had read the file, and is to
            \* remove it, since before the process wrote its pid
    taken   \* history: the processes whose file a racer removed

vars == <<lock, pc, tries, racers, taken>>

Booting == {"trying", "found", "stale", "created"}
Holding == {"held", "releasing"}
Alive(p) == pc[p] \in Booting \cup Holding \cup {"draining"}

Go(p, where) == pc' = [pc EXCEPT ![p] = where]

\* Between the read of the file and its removal by name.
Deciding == {q \in Proc : pc[q] \in {"stale", "releasing"}}

\* The history of a step: who races with a pid that is written, and whose file
\* went to a racer, or before its pid was in it.
Watch ==
    /\ racers' = [p \in Proc |-> IF pc[p] = "created" /\ pc'[p] = "held"
                                 THEN Deciding' ELSE racers[p] \cap Deciding']
    /\ taken' = taken \cup
          {p \in Proc : /\ lock # NoLock /\ lock.by = p /\ lock' = NoLock
                        /\ \/ pc[p] = "created"
                           \/ \E q \in racers[p] : pc'[q] # pc[q]}

-----------------------------------------------------------------------------
Boot(p) ==
    /\ pc[p] = "new"
    /\ Go(p, "trying")
    /\ UNCHANGED <<lock, tries>>

\* openSync(file, "wx")
Create(p) ==
    /\ pc[p] = "trying"
    /\ lock = NoLock
    /\ lock' = [by |-> p, pid |-> NoOne]
    /\ Go(p, "created")
    /\ UNCHANGED tries

\* writeSync to the descriptor: it reaches the file p created, if the name still
\* leads there.
WritePid(p) ==
    /\ pc[p] = "created"
    /\ lock' = IF lock # NoLock /\ lock.by = p THEN [lock EXCEPT !.pid = p] ELSE lock
    /\ Go(p, "held")
    /\ UNCHANGED tries

\* EEXIST
Exists(p) ==
    /\ pc[p] = "trying"
    /\ lock # NoLock
    /\ Go(p, "found")
    /\ UNCHANGED <<lock, tries>>

\* Mutant: a backend that drains still counts as the holder it no longer is, and
\* so does one that died.
HeldByAnyone(p) == lock # NoLock /\ lock.pid # NoOne

\* Mutant: no process is ever seen alive.
HeldByNobody(p) == FALSE

\* readFileSync and isAlive: an unreadable or empty file counts as nobody's.
HeldByLive(p) ==
    /\ lock # NoLock
    /\ lock.pid # NoOne
    /\ lock.pid # p
    /\ Alive(lock.pid)

\* One more failed attempt: wait and try again, or stand down.
TryAgain(p) ==
    /\ tries' = [tries EXCEPT ![p] = @ + 1]
    /\ Go(p, IF tries[p] + 1 < MaxTries THEN "trying" ELSE "stood down")

Wait(p) ==
    /\ pc[p] = "found"
    /\ HeldByLive(p)
    /\ TryAgain(p)
    /\ UNCHANGED lock

FindStale(p) ==
    /\ pc[p] = "found"
    /\ ~HeldByLive(p)
    /\ Go(p, "stale")
    /\ UNCHANGED <<lock, tries>>

\* unlinkSync(file): whichever file has the name by now.
Unlink(p) ==
    /\ pc[p] = "stale"
    /\ lock' = NoLock
    /\ TryAgain(p)

-----------------------------------------------------------------------------
\* Mutant: the release does not look whose file it is.
SignalBlindly(p) ==
    /\ pc[p] = "held"
    /\ Go(p, "releasing")
    /\ UNCHANGED <<lock, tries>>

\* A signal: release reads the file before it removes it.
Signal(p) ==
    /\ pc[p] = "held"
    /\ Go(p, IF lock # NoLock /\ lock.pid = p THEN "releasing" ELSE "draining")
    /\ UNCHANGED <<lock, tries>>

\* The lock is given up; the shutdown of main.ts runs on for up to two seconds.
Release(p) ==
    /\ pc[p] = "releasing"
    /\ lock' = NoLock
    /\ Go(p, "draining")
    /\ UNCHANGED tries

Exit(p) ==
    /\ pc[p] = "draining"
    /\ Go(p, "gone")
    /\ UNCHANGED <<lock, tries>>

Crash(p) ==
    /\ Alive(p)
    /\ Go(p, "gone")
    /\ UNCHANGED <<lock, tries>>

-----------------------------------------------------------------------------
Init ==
    /\ lock = NoLock
    /\ pc = [p \in Proc |-> "new"]
    /\ tries = [p \in Proc |-> 0]
    /\ racers = [p \in Proc |-> {}]
    /\ taken = {}

Attempt(p) ==
    /\ Create(p) \/ WritePid(p) \/ Exists(p) \/ Wait(p) \/ FindStale(p) \/ Unlink(p)
    /\ Watch

Other(p) ==
    /\ Boot(p) \/ Signal(p) \/ Release(p) \/ Exit(p) \/ Crash(p)
    /\ Watch

Next == \E p \in Proc : Attempt(p) \/ Other(p)

Spec == Init /\ [][Next]_vars

\* The system runs every process.
FairSpec == Spec /\ \A p \in Proc : WF_vars(Attempt(p))

-----------------------------------------------------------------------------
(* Properties.                                                              *)

\* The shapes of the variables.
TypeOK ==
    /\ lock \in [by : Proc, pid : Proc \cup {NoOne}] \cup {NoLock}
    /\ pc \in [Proc -> {"new", "stood down", "draining", "gone"} \cup Booting \cup Holding]
    /\ tries \in [Proc -> 0 .. MaxTries]
    /\ racers \in [Proc -> SUBSET Proc] /\ taken \subseteq Proc

\* "This lock ensures exactly one live backend ever reaches the config-writing path"
\* (single-instance.ts:5-6), as far as it does: however many boot at once, crash and
\* stop, two hold the lock only if the file of one went to a process that had read the
\* file before that one's pid was in it.  Whoever reads the pid of a live holder never
\* removes the file.
OneHolder ==
    \A p, q \in Proc \ taken : pc[p] \in Holding /\ pc[q] \in Holding => p = q

\* The file names the process that holds it, and goes on doing so while that one
\* releases and drains and others boot: no backend that stops removes its successor's.
LockNamesHolder ==
    \A p \in Proc \ taken : pc[p] \in Holding => lock # NoLock /\ lock.pid = p

\* The lock a crash left behind keeps nobody out: a backend that boots alone comes
\* to hold it, unless it dies too or another one boots.
AloneGetsIn ==
    \A p \in Proc :
      (pc[p] = "trying" /\ tries[p] = 0 /\ \A q \in Proc \ {p} : ~Alive(q))
        ~> pc[p] \in {"held", "gone"} \/ \E q \in Proc \ {p} : pc[q] \in Booting

=============================================================================
