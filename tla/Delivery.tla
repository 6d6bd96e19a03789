------------------------------- MODULE Delivery -------------------------------
(***************************************************************************)
(* How a finished artifact leaves this computer: the trigger that a write  *)
(* arms (pin/sync-trigger.service.ts), the pass it starts on a storage     *)
(* (pin.service.ts: syncStorageText) or on a working repository            *)
(* (repo-artifact-sync.service.ts), and the three ways a pass that failed  *)
(* is started again: the retry of the trigger, the re-arm of a lost push   *)
(* (git/push-health.service.ts), the waiter for the network                *)
(* (shared/net-transient.ts).  All three are timers of one Node process.   *)
(*                                                                         *)
(* The trigger counts in ticks.  The other two timers fire at any time:    *)
(* a waiter runs when its host resolves or when it has waited too long.    *)
(* GitCycles has the pass of a storage in full; here it is three steps.    *)
(***************************************************************************)
EXTENDS Naturals, FiniteSets

CONSTANTS
    Artifact, Target, Pass,
    None,        \* no timer; no pass
    Home,        \* [Artifact -> Target]: who delivers it
    Fleets,      \* set of [Target -> Kinds]: what the targets may be
    Debounce,    \* DEBOUNCE_MS, in ticks
    MaxDelay,    \* MAX_DELAY_MS
    Backoff,     \* the delays backoffMs may return
    MaxTroubles, \* bound: outages and git problems
    MaxBoots     \* bound: restarts

Kinds  == {"storage", "repo"}
Places == {"disk", "index", "head", "origin"}
Keys   == {"sync", "push"}     \* "artifact sync <t>"; "artifact push <t>", "storage <t>"
Timer  == [left : Nat, age : Nat]
Stages == {"queued", "add", "commit", "push"}
PassRecord == [target : Target, by : {"trigger", "other"}, stage : Stages, answers : BOOLEAN]

ASSUME NoneAssumption == None \notin Timer \cup PassRecord
ASSUME PlaceAssumption == /\ Home \in [Artifact -> Target]
                          /\ Fleets \subseteq [Target -> Kinds]
\* A boot has a pass for every storage.
ASSUME PassAssumption == \E f \in [Target -> Pass] : \A t, u \in Target : f[t] = f[u] => t = u
ASSUME TimeAssumption == /\ Debounce \in Nat \ {0} /\ MaxDelay \in Nat \ {0}
                         /\ Backoff \subseteq Nat \ {0} /\ Backoff # {}
ASSUME BoundAssumption == MaxTroubles \in Nat /\ MaxBoots \in Nat

VARIABLES
    kind,     \* [Target -> Kinds], chosen at the start
    place,    \* [Artifact -> Places]: how far its last version has come
    behind,   \* SUBSET Target: repositories whose origin has commits they lack
    pending,  \* [Target -> Timer or None]: the trigger's timer
    floor,    \* [Target -> Nat]: what is left of its backoff (failures)
    rearmed,  \* SUBSET Target: push-health's timers
    waiters,  \* SUBSET (Keys \X Target): net-transient's waiters
    pass,     \* [Pass -> a pass or None]
    online, troubles, boots

carriers == <<pending, floor, rearmed, waiters>>
bounds   == <<troubles, boots>>
vars     == <<kind, place, behind, carriers, pass, online, bounds>>

At(t, where) == {a \in Artifact : Home[a] = t /\ place[a] \in where}
Lifted(t, from, to) == [a \in Artifact |-> IF a \in At(t, from) THEN to ELSE place[a]]

-----------------------------------------------------------------------------
(* Starting a pass.  A storage has one running and one queued pass, and a   *)
(* further caller collapses into the queued one; a repository has no lock.  *)

Of(t, stages) == {p \in Pass : pass[p] # None /\ pass[p].target = t /\ pass[p].stage \in stages}
Running(t) == Of(t, {"add", "commit", "push"})
Queued(t)  == Of(t, {"queued"})
Idle == {p \in Pass : pass[p] = None}

\* Passes are bounded by Pass: a timer that is due waits for a free one.
MayStart(t) == Idle # {} \/ Queued(t) # {}

Started(t, by) ==
    LET stage == IF kind[t] = "storage" /\ Running(t) # {} THEN "queued" ELSE "add" IN
    IF Queued(t) # {}
    THEN [p \in Pass |-> IF p \in Queued(t)
                         THEN [pass[p] EXCEPT !.answers = @ \/ by = "trigger"]
                         ELSE pass[p]]
    ELSE [pass EXCEPT ![CHOOSE p \in Idle : TRUE] =
            [target |-> t, by |-> by, stage |-> stage, answers |-> FALSE]]

Begin(t, by) == MayStart(t) /\ pass' = Started(t, by)

-----------------------------------------------------------------------------
(* The trigger.                                                             *)

Smaller(m, n) == IF m < n THEN m ELSE n
Larger(m, n)  == IF m < n THEN n ELSE m

Age(t) == IF pending[t] = None THEN 0 ELSE pending[t].age

\* Mutant: every write starts the debounce anew.
WaitAnew(t) == Larger(Debounce, floor[t])

\* The debounce, no further than MaxDelay from the first write of the burst, and
\* no sooner than the backoff allows.
Wait(t) == Larger(Smaller(Debounce, MaxDelay - Smaller(Age(t), MaxDelay)), floor[t])

\* An artifact is written, or written again.  A version on its way is not replaced.
NoteArtifactWritten(a) ==
    LET t == Home[a] IN
    /\ place[a] \in {"disk", "origin"}
    /\ place' = [place EXCEPT ![a] = "disk"]
    /\ pending' = [pending EXCEPT ![t] = [left |-> Wait(t), age |-> Age(t)]]
    /\ UNCHANGED <<kind, behind, floor, rearmed, waiters, pass, online, bounds>>

\* The timer is due.
Fire(t) ==
    /\ pending[t] # None /\ pending[t].left = 0
    /\ pending' = [pending EXCEPT ![t] = None]
    /\ Begin(t, "trigger")
    /\ UNCHANGED <<kind, place, behind, floor, rearmed, waiters, online, bounds>>

\* A debug export bypasses the debounce and the backoff.
FlushArtifactSync(t) ==
    /\ pending[t] # None
    /\ pending' = [pending EXCEPT ![t] = None]
    /\ Begin(t, "trigger")
    /\ UNCHANGED <<kind, place, behind, floor, rearmed, waiters, online, bounds>>

\* Timers run out on time: no tick while one is due.
Tick ==
    /\ \A t \in Target : pending[t] # None => pending[t].left > 0
    /\ \E t \in Target : pending[t] # None \/ floor[t] > 0
    /\ pending' = [t \in Target |->
                     IF pending[t] = None THEN None
                     ELSE [left |-> pending[t].left - 1,
                           age  |-> Smaller(pending[t].age + 1, MaxDelay)]]
    /\ floor' = [t \in Target |-> IF floor[t] = 0 THEN 0 ELSE floor[t] - 1]
    /\ UNCHANGED <<kind, place, behind, rearmed, waiters, pass, online, bounds>>

-----------------------------------------------------------------------------
(* The end of a pass: noteFailure, the waiters, the callers that collapsed. *)

\* The trigger's books of one target: its timer and its backoff.
Kept(t)    == [timer |-> pending[t], floor |-> floor[t]]
Cleared(t) == [Kept(t) EXCEPT !.floor = 0]

\* Mutant: the failure is counted, and nothing is armed.
FailedUnarmed(t) == {[Kept(t) EXCEPT !.floor = d] : d \in Backoff}

\* A failure sets the backoff, and the retry unless a timer covers it already.
Failed(t) ==
    {[timer |-> IF pending[t] = None THEN [left |-> d, age |-> 0] ELSE pending[t],
      floor |-> d] : d \in Backoff}

\* What the trigger books for its own pass.  To be offline is no failure, but
\* the problem of a storage behind ssh does not read as offline.
Booked(p, outcome) ==
    LET t == pass[p].target IN
    IF pass[p].by = "other" THEN {Kept(t)} ELSE
    CASE outcome = "ok"      -> {Cleared(t)}
      [] outcome = "problem" -> Failed(t)
      [] outcome = "offline" -> {Kept(t)} \cup (IF kind[t] = "storage" THEN Failed(t) ELSE {})

\* An offline pass waits for the network under its own key, and the trigger that
\* books no failure under a second one, unless a timer covers it.
WaitsFor(p, book) ==
    LET t == pass[p].target IN
    {<<"push", t>>} \cup
        (IF pass[p].by = "trigger" /\ book = Kept(t) /\ pending[t] = None
         THEN {<<"sync", t>>} ELSE {})

\* The pass is over: its caller books the outcome, a trigger that had collapsed into
\* it is told of no problem and clears the backoff, and its successor runs.
Settle(p, outcome) ==
    LET t == pass[p].target IN
    \E book \in Booked(p, outcome) :
        /\ pending' = [pending EXCEPT ![t] = book.timer]
        /\ floor' = [floor EXCEPT ![t] = IF pass[p].answers THEN 0 ELSE book.floor]
        /\ waiters' = waiters \cup (IF outcome = "offline" THEN WaitsFor(p, book) ELSE {})
        /\ pass' = [q \in Pass |-> IF q = p THEN None
                                   ELSE IF q \in Queued(t) THEN [pass[q] EXCEPT !.stage = "add"]
                                   ELSE pass[q]]

-----------------------------------------------------------------------------
(* The steps of a pass.                                                     *)

GoesOn(p, s) == pass' = [pass EXCEPT ![p].stage = s] /\ UNCHANGED <<pending, floor, waiters>>

\* git is refused: a lock, an unfinished merge, a credential, a remote that fails.
Trouble == troubles < MaxTroubles /\ troubles' = troubles + 1
NoTrouble == UNCHANGED troubles

\* Nothing for this pass to carry.  A repository asks the index alone; a storage is
\* also ahead while a commit is unpushed.
NothingToCarry(t) ==
    At(t, {"disk", "index"} \cup (IF kind[t] = "storage" THEN {"head"} ELSE {})) = {}

\* git add.  A pass with nothing to carry ends here; the pull of a storage has
\* failed or not.
Add(p) ==
    LET t == pass[p].target IN
    /\ pass[p] # None /\ pass[p].stage = "add"
    /\ \/ /\ ~NothingToCarry(t)
          /\ place' = Lifted(t, {"disk"}, "index")
          /\ GoesOn(p, "commit")
          /\ NoTrouble
       \/ /\ NothingToCarry(t)
          /\ Settle(p, IF kind[t] = "storage" /\ ~online THEN "offline" ELSE "ok")
          /\ NoTrouble /\ UNCHANGED place
       \/ /\ Trouble
          /\ Settle(p, "problem")
          /\ UNCHANGED place
    /\ UNCHANGED <<kind, behind, rearmed, online, boots>>

\* git commit, with nothing in the index too: another pass may have taken it.
Commit(p) ==
    LET t == pass[p].target IN
    /\ pass[p] # None /\ pass[p].stage = "commit"
    /\ \/ /\ place' = Lifted(t, {"index"}, "head")
          /\ GoesOn(p, "push")
          /\ NoTrouble
       \/ /\ Trouble
          /\ Settle(p, "problem")
          /\ UNCHANGED place
    /\ UNCHANGED <<kind, behind, rearmed, online, boots>>

\* A storage merges what origin has and pushes again.  A repository fetches and
\* fast-forwards, which its own commit forbids.
MayPush(t) == kind[t] = "storage" \/ t \notin behind \/ At(t, {"head"}) = {}

Pushed(p) ==
    LET t == pass[p].target IN
    /\ pass[p] # None /\ pass[p].stage = "push" /\ online /\ MayPush(t)
    /\ place' = Lifted(t, {"head"}, "origin")
    /\ behind' = behind \ {t}
    /\ rearmed' = rearmed \ {t}
    /\ Settle(p, "ok")
    /\ UNCHANGED <<kind, online, bounds>>

\* noteUnpushed: a storage is armed again, whoever had pushed.
PushFails(p) ==
    LET t == pass[p].target IN
    /\ pass[p] # None /\ pass[p].stage = "push" /\ online
    /\ IF MayPush(t) THEN Trouble ELSE NoTrouble
    /\ rearmed' = rearmed \cup {u \in {t} : kind[u] = "storage"}
    /\ Settle(p, "problem")
    /\ UNCHANGED <<kind, place, behind, online, boots>>

PushPostponed(p) ==
    /\ pass[p] # None /\ pass[p].stage = "push" /\ ~online
    /\ Settle(p, "offline")
    /\ UNCHANGED <<kind, place, behind, rearmed, online, bounds>>

-----------------------------------------------------------------------------
(* Who else starts a pass.                                                  *)

\* The network resolves again, or the waiter has reached MAX_WAIT_MS.
ProbeOnce(key, t) ==
    /\ <<key, t>> \in waiters
    /\ waiters' = waiters \ {<<key, t>>}
    /\ Begin(t, IF key = "sync" THEN "trigger" ELSE "other")
    /\ UNCHANGED <<kind, place, behind, pending, floor, rearmed, online, bounds>>

UnpushedRetry(t) ==
    /\ t \in rearmed
    /\ rearmed' = rearmed \ {t}
    /\ Begin(t, "other")
    /\ UNCHANGED <<kind, place, behind, pending, floor, waiters, online, bounds>>

\* The device worker, the pin worker, a page load.
OthersPass(t) ==
    /\ kind[t] = "storage"
    /\ Begin(t, "other")
    /\ UNCHANGED <<kind, place, behind, carriers, online, bounds>>

\* One pass for every storage (syncBackboneOnBoot; it takes them one after another).
BootPasses ==
    LET slot == CHOOSE f \in [{t \in Target : kind[t] = "storage"} -> Pass] :
                    \A t, u \in DOMAIN f : f[t] = f[u] => t = u
    IN  [p \in Pass |-> IF \E t \in DOMAIN slot : slot[t] = p
                        THEN [target |-> CHOOSE t \in DOMAIN slot : slot[t] = p,
                              by |-> "other", stage |-> "add", answers |-> FALSE]
                        ELSE None]

\* The process dies, in whatever step, and is started again.  What is on disk, in
\* the index and in the branch stays.
Restart ==
    /\ boots < MaxBoots
    /\ boots' = boots + 1
    /\ pending' = [t \in Target |-> None] /\ floor' = [t \in Target |-> 0]
    /\ rearmed' = {} /\ waiters' = {}
    /\ pass' = BootPasses
    /\ UNCHANGED <<kind, place, behind, online, troubles>>

-----------------------------------------------------------------------------
(* The world.                                                               *)

\* Another computer pushes to the origin of a repository.  (The race of a storage is
\* in GitCycles; when it is lost, PushFails.)
PeerPushes(t) ==
    /\ kind[t] = "repo"
    /\ behind' = behind \cup {t}
    /\ UNCHANGED <<kind, place, carriers, pass, online, bounds>>

\* A page load converges a repository: fetch, and merge --ff-only.
ConvergeWorkingRepo(t) ==
    /\ kind[t] = "repo" /\ online /\ At(t, {"head"}) = {}
    /\ behind' = behind \ {t}
    /\ UNCHANGED <<kind, place, carriers, pass, online, bounds>>

GoOffline == online /\ Trouble /\ online' = FALSE
             /\ UNCHANGED <<kind, place, behind, carriers, pass, boots>>
GoOnline  == ~online /\ online' = TRUE
             /\ UNCHANGED <<kind, place, behind, carriers, pass, bounds>>

-----------------------------------------------------------------------------
Init ==
    /\ kind \in Fleets
    /\ place = [a \in Artifact |-> "origin"] /\ behind = {}
    /\ pending = [t \in Target |-> None] /\ floor = [t \in Target |-> 0]
    /\ rearmed = {} /\ waiters = {}
    /\ pass = [p \in Pass |-> None]
    /\ online = TRUE /\ troubles = 0 /\ boots = 0

Runs(p) == Add(p) \/ Commit(p) \/ Pushed(p) \/ PushFails(p) \/ PushPostponed(p)

Next ==
    \/ \E a \in Artifact : NoteArtifactWritten(a)
    \/ \E t \in Target : \/ Fire(t) \/ FlushArtifactSync(t) \/ UnpushedRetry(t)
                         \/ OthersPass(t)
                         \/ PeerPushes(t) \/ ConvergeWorkingRepo(t)
                         \/ \E key \in Keys : ProbeOnce(key, t)
    \/ \E p \in Pass : Runs(p)
    \/ Tick \/ Restart \/ GoOffline \/ GoOnline

Spec == Init /\ [][Next]_vars

\* git calls end, timers run out and fire, and the network comes back.  Nobody need
\* write, flush, open a page or run a worker.
Fairness ==
    /\ \A p \in Pass : WF_vars(Runs(p))
    /\ \A t \in Target : /\ WF_vars(Fire(t)) /\ WF_vars(UnpushedRetry(t))
                         /\ \A key \in Keys : WF_vars(ProbeOnce(key, t))
    /\ WF_vars(Tick) /\ WF_vars(GoOnline)

FairSpec == Spec /\ Fairness

-----------------------------------------------------------------------------
TypeOK ==
    /\ kind \in [Target -> Kinds]
    /\ place \in [Artifact -> Places]
    /\ behind \subseteq Target
    /\ pending \in [Target -> Timer \cup {None}]
    /\ floor \in [Target -> Nat]
    /\ rearmed \subseteq Target
    /\ waiters \subseteq Keys \X Target
    /\ pass \in [Pass -> PassRecord \cup {None}]
    /\ online \in BOOLEAN
    /\ troubles \in 0 .. MaxTroubles /\ boots \in 0 .. MaxBoots

\* The stages from which a pass still takes along what lies at a place.
TakesFrom == [disk  |-> {"queued", "add"},
              index |-> {"queued", "add", "commit"},
              head  |-> Stages]

\* Something in this process will, or already does, try to carry the artifact.
HasCarrier(a) ==
    LET t == Home[a] IN
    \/ place[a] = "origin"
    \/ pending[t] # None \/ t \in rearmed
    \/ \E key \in Keys : <<key, t>> \in waiters
    \/ Of(t, TakesFrom[place[a]]) # {}

\* No finished artifact is left behind: until origin has it, a timer, a waiter or a
\* pass has it in hand (sync-trigger.service.ts: a failed pass is retried;
\* repo-artifact-sync.service.ts: only its trip to the remote is postponed).
NothingStranded == \A a \in Artifact : HasCarrier(a)

\* A pass for t ends in this step.
Ends(p, t) == pass[p] # None /\ pass[p].target = t /\ pass'[p] = None

\* A pass the trigger did not start ends, and nobody retries what it failed to do;
\* but a storage's push is always retried.
OthersEnd(t) ==
    \E p \in Pass : /\ Ends(p, t) /\ pass[p].by = "other"
                    /\ pass[p].stage = "push" => kind[t] = "repo"

\* A pass of a repository finds nothing to add, and a commit unpushed.
LeavesQuietly(t) ==
    kind[t] = "repo" /\ \E p \in Pass : Ends(p, t) /\ pass[p].stage = "add"

\* An artifact in hand stays in hand, whatever fails and in whatever order, but for
\* three steps: the process dies, a pass of somebody else fails that a trigger had
\* relied on, a repository's pass leaves an unpushed commit.
KeepsCarrier ==
    [][\A a \in Artifact : HasCarrier(a) =>
           \/ HasCarrier(a)'
           \/ boots' # boots
           \/ OthersEnd(Home[a]) \/ LeavesQuietly(Home[a])]_vars

\* How far the code takes an artifact of its own accord.
Delivered(a) == place[a] = "origin" \/ (kind[Home[a]] = "repo" /\ place[a] = "head")

\* A written artifact is delivered, or loses its carrier in one of those three ways,
\* although the user may go on writing for ever (MAX_DELAY_MS) and no worker runs.
ArtifactsLeave ==
    \A a \in Artifact : place[a] = "disk" ~> (Delivered(a) \/ ~HasCarrier(a))
=============================================================================
