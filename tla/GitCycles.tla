------------------------------ MODULE GitCycles ------------------------------
(***************************************************************************)
(* The git cycles of the backbone and the mirror that writes beside them:  *)
(* the coalescing lock of a storage (git/git-lock.ts), the gate of a       *)
(* working copy (git/worktree-gate.ts), the two git spans of a cycle       *)
(* (git.service.ts: pull, commitAndPush), the passes that run them         *)
(* (pin.service.ts, owner-propagation.service.ts) and the mirror of a      *)
(* repository into the working copy (tracking-sync.service.ts).            *)
(*                                                                         *)
(* A request is one call of withStorageGitLock.  It is run as a pass of    *)
(* its own or is answered by the pass it collapsed into.  What a request   *)
(* wants is that its text reaches origin: the text of request r is the     *)
(* element r of disk, head and origin.  Everything is in the memory of one *)
(* Node process; a step is what runs between two awaits that matter.       *)
(***************************************************************************)
EXTENDS Naturals, FiniteSets

CONSTANTS
    Storage, Tree, Repo, Request,
    None,       \* no request
    TreeOf,     \* [Storage -> Tree]: two storages may resolve to one copy
    Holds,      \* [Repo -> SUBSET Tree]: the copies its mirror lies in
    Calls,      \* [Request -> SUBSET Call]: what each request may turn out to be
    Attempts,   \* ATTEMPTS in commitAndPushInner
    MaxWrites   \* bound: local writes that call the mirror

ASSUME NoneAssumption == None \notin Request
ASSUME PlaceAssumption == /\ TreeOf \in [Storage -> Tree]
                          /\ Holds \in [Repo -> SUBSET Tree]

Kind == {"text", "device", "pin", "assert"}
Call == [kind : Kind, site : Storage]

ASSUME CallAssumption == Calls \in [Request -> SUBSET Call]
ASSUME NumberAssumption == Attempts \in Nat \ {0} /\ MaxWrites \in Nat

VARIABLES
    asked,     \* [Request -> [kind, site]] of the requests made so far
    stage,     \* [Request -> Stages]: where its own pass is
    into,      \* [Request -> Request]: the pass it collapsed into, or None
    running,   \* [Storage -> Request]: the pass that holds the lock, or None
    queued,    \* [Storage -> Request]: its single successor, or None
    busy,      \* [Tree -> Request]: the pass that owns the working copy, or None
    depth,     \* [Tree -> Nat]: nesting of that owner
    result,    \* [Request -> {"ok", "problem", "conflict"}]: result of its pass
    tries,     \* [Request -> Nat]: push attempts made
    disk, head, origin, \* [Tree -> SUBSET Request]: texts written, committed, pushed
    cleared,   \* [Tree -> SUBSET Request]: texts a pull has put out of a merge's way
    mirror,    \* [Repo -> {"idle", "pass", "overtaken", "again"}]: mirrorInFlight,
               \* and whether a pull has changed the copy since the pass began
    deferred,  \* SUBSET Repo: mirrors that wait for a cycle to release
    stale,     \* SUBSET Repo: written locally and not mirrored since
    dropped,   \* SUBSET Repo: the last mirror failed or was discarded
    writes     \* bound counter

lock    == <<asked, stage, into, running, queued>>
gate    == <<busy, depth>>
work    == <<result, tries>>
text    == <<disk, head, origin, cleared>>
mirrors == <<mirror, deferred, stale, dropped>>
unlocked == <<asked, into, running, queued, tries, writes>>
vars    == <<lock, gate, work, text, mirrors, writes>>

\* The stages of a pass: it waits for the copy, it has the copy, the rest.
Waiting == {"pull", "commit"}
Spans   == {"pulling", "pushing", "repulling", "settling"}
Stages  == {"new", "queued", "joined", "work", "leaving", "done"} \cup Waiting \cup Spans

TreeOfReq(r) == TreeOf[asked[r].site]
InCycle(repo) == \E t \in Holds[repo] : busy[t] # None

-----------------------------------------------------------------------------
(* The mirror.  A pass runs in slices of the event loop; between two of     *)
(* them a git cycle may begin.                                              *)

\* mirrorToSyncRepo for the repos of S under the gate as primed: inFlight are
\* the passes in flight, jobs the mirrors that wait already, unmirrored the repos
\* to mirror.  A pass that outlasts its budget is handed to a continuation.
Mirrors(S, inFlight, jobs, unmirrored) ==
    LET joined  == {m \in S : inFlight[m] # "idle"}
        blocked == {m \in S \ joined : InCycle(m)'}
        begun   == S \ (joined \cup blocked)
    IN  \E handed \in SUBSET begun : \E failed \in SUBSET (begun \ handed) :
          /\ mirror' = [m \in Repo |-> IF m \in handed THEN "pass"
                                       ELSE IF m \in joined THEN "again"
                                       ELSE inFlight[m]]
          /\ deferred' = jobs \cup blocked
          /\ stale' = unmirrored \ (begun \ (handed \cup failed))
          /\ dropped' = (dropped \ S) \cup failed

\* The local tracking state of a repository changes: writeRepoStorage mirrors it.
Write(m) ==
    /\ writes < MaxWrites
    /\ writes' = writes + 1
    /\ UNCHANGED <<lock, gate, work, text>>
    /\ Mirrors({m}, mirror, deferred, stale \cup {m})

Settled(m) == [mirror EXCEPT ![m] = "idle"]
Again(m)   == {m} \cap {n \in Repo : mirror[n] = "again"}

\* Mutant: an abandoned pass is not armed again.
AbandonForGood(m) ==
    /\ mirror[m] # "idle" /\ InCycle(m)
    /\ UNCHANGED <<lock, gate, work, text, writes>>
    /\ Mirrors(Again(m), Settled(m), deferred, stale)

\* The continuation finds its destination in a cycle.
Abandon(m) ==
    /\ mirror[m] # "idle" /\ InCycle(m)
    /\ UNCHANGED <<lock, gate, work, text, writes>>
    /\ Mirrors(Again(m), Settled(m), deferred \cup {m}, stale)

\* Mutant: the gate is asked before the first slice only.
FinishUngated(m) ==
    /\ mirror[m] = "pass"
    /\ mirror' = Settled(m)
    /\ stale' = stale \ {m}
    /\ UNCHANGED <<lock, gate, work, text, deferred, dropped, writes>>

Finish(m) ==
    /\ mirror[m] = "pass" /\ ~InCycle(m)
    /\ mirror' = Settled(m)
    /\ stale' = stale \ {m}
    /\ UNCHANGED <<lock, gate, work, text, deferred, dropped, writes>>

\* A whole pull went by between two slices.  If a merge was on the worker then,
\* commitMerge discards it: the copy moved under it.  Nothing arms it again.
FinishOvertaken(m) ==
    /\ mirror[m] = "overtaken" /\ ~InCycle(m)
    /\ mirror' = Settled(m)
    /\ \/ stale' = stale \ {m} /\ UNCHANGED dropped
       \/ dropped' = dropped \cup {m} /\ UNCHANGED stale
    /\ UNCHANGED <<lock, gate, work, text, deferred, writes>>

\* A drain that throws is logged, and nothing arms it again.
Fail(m) ==
    /\ mirror[m] \in {"pass", "overtaken"}
    /\ mirror' = Settled(m)
    /\ dropped' = dropped \cup {m}
    /\ UNCHANGED <<lock, gate, work, text, deferred, stale, writes>>

\* Mutant: the writes that landed during the pass are not looked at.
RerunNever(m) ==
    /\ mirror[m] = "again"
    /\ mirror' = Settled(m)
    /\ UNCHANGED <<lock, gate, work, text, deferred, stale, dropped, writes>>

\* A write landed during the pass: it ends, or throws, and one more follows.
Rerun(m) ==
    /\ mirror[m] = "again" /\ ~InCycle(m)
    /\ UNCHANGED <<lock, gate, work, text, writes>>
    /\ Mirrors({m}, Settled(m), deferred, stale)

-----------------------------------------------------------------------------
(* The gate: withWorktreeBusy.                                              *)

Move(r, s) == stage' = [stage EXCEPT ![r] = s]

\* Mutant: nobody drains.
DrainNothing(inFlight) == Mirrors({}, inFlight, deferred, stale)

\* Fire every deferred mirror whose destination no cycle holds any more.
Drain(inFlight) == LET free == {m \in deferred : ~InCycle(m)'}
                   IN  Mirrors(free, inFlight, deferred \ free, stale)

\* checkpointOwnWrites commits what lies in the copy, unless the quiet gate
\* finds nothing worth a commit.
Checkpoint(t) ==
    /\ head' \in {head, [head EXCEPT ![t] = disk[t]]}
    /\ UNCHANGED <<disk, origin, cleared>>

\* A different owner waits; the holder re-enters (RaceLost).
MayEnter(r) == busy[TreeOfReq(r)] = None

Enter(r) ==
    /\ busy' = [busy EXCEPT ![TreeOfReq(r)] = r]
    /\ depth' = [depth EXCEPT ![TreeOfReq(r)] = 1]

\* The mirrors in flight while the copy of t changes.
Overtaken(t) == [m \in Repo |-> IF mirror[m] = "pass" /\ t \in Holds[m]
                                THEN "overtaken" ELSE mirror[m]]

\* The outermost span of r ends, and its pass goes on at s.
Exit(r, s, inFlight) ==
    /\ busy' = [busy EXCEPT ![TreeOfReq(r)] = None]
    /\ depth' = [depth EXCEPT ![TreeOfReq(r)] = 0]
    /\ Drain(inFlight)
    /\ Move(r, s)

-----------------------------------------------------------------------------
(* The lock: withStorageGitLock.                                            *)

\* A request.  The text of kind "text" is in the copy before
\* (sync-trigger.service.ts: the write is the trigger).
Ask(r, call) ==
    LET s == call.site IN
    /\ stage[r] = "new"
    /\ asked' = [asked EXCEPT ![r] = call]
    /\ disk' = IF call.kind = "text" THEN [disk EXCEPT ![TreeOf[s]] = @ \cup {r}] ELSE disk
    /\ \/ /\ running[s] = None
          /\ running' = [running EXCEPT ![s] = r]
          /\ Move(r, "pull")
          /\ UNCHANGED <<queued, into>>
       \/ /\ running[s] # None /\ queued[s] = None
          /\ queued' = [queued EXCEPT ![s] = r]
          /\ Move(r, "queued")
          /\ UNCHANGED <<running, into>>
       \/ /\ running[s] # None /\ queued[s] # None
          /\ into' = [into EXCEPT ![r] = queued[s]]
          /\ Move(r, "joined")
          /\ UNCHANGED <<running, queued>>
    /\ UNCHANGED <<gate, work, head, origin, cleared, mirrors, writes>>

\* The pass settles, well or badly: its joined callers are answered, and its
\* successor runs (releaseStorageGitLock).
Leave(r) ==
    LET s == asked[r].site IN
    /\ stage[r] = "leaving"
    /\ running' = [running EXCEPT ![s] = queued[s]]
    /\ queued' = [queued EXCEPT ![s] = None]
    /\ stage' = [q \in Request |->
                   IF q = r \/ (stage[q] = "joined" /\ into[q] = r) THEN "done"
                   ELSE IF q = queued[s] THEN "pull" ELSE stage[q]]
    /\ UNCHANGED <<asked, into, gate, work, text, mirrors, writes>>

-----------------------------------------------------------------------------
(* A pass: pull, the work between the spans, commit and push.               *)


\* No origin: pull returns before the gate.
SkipPull(r) ==
    /\ stage[r] = "pull"
    /\ Move(r, "work")
    /\ UNCHANGED <<unlocked, gate, result, text, mirrors>>

Pull(r) ==
    /\ stage[r] = "pull" /\ MayEnter(r)
    /\ Enter(r)
    /\ Checkpoint(TreeOfReq(r))
    /\ Move(r, "pulling")
    /\ UNCHANGED <<unlocked, result, mirrors>>

\* A text that is written and not committed may stand in the way of the merge: the
\* pull copies it aside, takes it from the copy (clearBlockingOwnFiles), and merges
\* again.  What is committed stays.
Merge(t) ==
    /\ \E blocking \in SUBSET (disk[t] \ head[t]) :
         /\ disk' = [disk EXCEPT ![t] = @ \ blocking]
         /\ cleared' = [cleared EXCEPT ![t] = @ \cup blocking]
    /\ UNCHANGED <<head, origin>>

EndPull(r) ==
    /\ stage[r] = "pulling"
    /\ \E end \in {"ok", "problem", "conflict"} : result' = [result EXCEPT ![r] = end]
    /\ Merge(TreeOfReq(r))
    /\ Exit(r, "work", Overtaken(TreeOfReq(r)))
    /\ UNCHANGED unlocked

\* What the pass of a kind writes, whoever asked for it: every pass but an
\* assertion writes this computer's device file, a pin pass pins every file.
Refreshes(k) == CASE k = "pin"    -> {"device", "pin"}
                  [] k = "assert" -> {}
                  [] OTHER        -> {"device"}

Written(r) ==
    {q \in Request : /\ stage[q] \notin {"new", "done"}
                     /\ asked[q].site = asked[r].site
                     /\ \/ asked[q].kind \in Refreshes(asked[r].kind)
                        \/ q = r}

\* Outside the gate: another pass may own the copy.  A device file that cannot
\* be written is logged.  After a conflict nothing is committed.
Work(r) ==
    /\ stage[r] = "work"
    /\ \E lost \in {{}, {q \in Request : asked[q].kind = "device"}} :
         disk' = [disk EXCEPT ![TreeOfReq(r)] = @ \cup (Written(r) \ lost)]
    /\ Move(r, IF result[r] = "conflict" THEN "leaving" ELSE "commit")
    /\ UNCHANGED <<unlocked, gate, result, head, origin, cleared, mirrors>>

\* The byte work of a pin pass throws half way, or the write of an assertion throws
\* before it replaced the file: nothing is committed.
WorkThrows(r) ==
    /\ stage[r] = "work"
    /\ \/ /\ asked[r].kind = "pin"
          /\ \E part \in SUBSET Written(r) :
               disk' = [disk EXCEPT ![TreeOfReq(r)] = @ \cup part]
       \/ asked[r].kind = "assert" /\ UNCHANGED disk
    /\ result' = [result EXCEPT ![r] = "problem"]
    /\ Move(r, "leaving")
    /\ UNCHANGED <<unlocked, gate, head, origin, cleared, mirrors>>

\* Mutant: what an earlier pass left unpushed is no reason to push.
NothingNew(t) == head[t] = disk[t]

\* No text to commit, and none the branch is ahead by (a merge commit of the pull
\* may be: Commit pushes with nothing to send too).
NothingToSend(t) == head[t] = disk[t] /\ head[t] = origin[t]

\* git add -A and commit, at the begin of the second span.
Commit(r) ==
    LET t == TreeOfReq(r) IN
    /\ stage[r] = "commit" /\ MayEnter(r)
    /\ Enter(r)
    /\ \/ /\ head' = [head EXCEPT ![t] = disk[t]]
          /\ result' = result
          /\ \/ Move(r, "pushing")
             \/ NothingToSend(t) /\ Move(r, "settling")
       \* the commit failed, or there is no origin to push to
       \/ /\ head' \in {head, [head EXCEPT ![t] = disk[t]]}
          /\ result' = [result EXCEPT ![r] = "problem"]
          /\ Move(r, "settling")
    /\ UNCHANGED <<unlocked, disk, origin, cleared, mirrors>>

EndCommit(r) ==
    /\ stage[r] = "settling"
    /\ Exit(r, "leaving", mirror)
    /\ UNCHANGED <<unlocked, result, text>>

Pushed(r) ==
    /\ stage[r] = "pushing"
    /\ origin' = [origin EXCEPT ![TreeOfReq(r)] = head[TreeOfReq(r)]]
    /\ result' = [result EXCEPT ![r] = "ok"]
    /\ Exit(r, "leaving", mirror)
    /\ UNCHANGED <<unlocked, disk, head, cleared>>

\* Offline, no credential, or the last attempt.
GiveUp(r) ==
    /\ stage[r] = "pushing"
    /\ result' = [result EXCEPT ![r] = "problem"]
    /\ Exit(r, "leaving", mirror)
    /\ UNCHANGED <<unlocked, text>>

MayRetry(r) == tries[r] + 1 < Attempts

\* Another computer pushed first: pull again, inside the span.
RaceLost(r) ==
    /\ stage[r] = "pushing" /\ MayRetry(r)
    /\ tries' = [tries EXCEPT ![r] = @ + 1]
    /\ result' = [result EXCEPT ![r] = "problem"]
    /\ depth' = [depth EXCEPT ![TreeOfReq(r)] = @ + 1]
    /\ Checkpoint(TreeOfReq(r))
    /\ Move(r, "repulling")
    /\ UNCHANGED <<asked, into, running, queued, writes, busy, mirrors>>

\* Mutant: the nested span releases the copy.
EndRepullReleases(r) ==
    /\ stage[r] = "repulling"
    /\ result' = result
    /\ Exit(r, "pushing", mirror)
    /\ Merge(TreeOfReq(r))
    /\ UNCHANGED unlocked

\* Mutant: a plain mutex, that does not know its owner.
EndRepullWaits(r) == stage[r] = "repulling" /\ MayEnter(r) /\ EndRepullReleases(r)

\* The nested pull succeeds; or it finds a conflict or no network.
EndRepull(r) ==
    /\ stage[r] = "repulling"
    /\ \/ /\ result' = result
          /\ depth' = [depth EXCEPT ![TreeOfReq(r)] = @ - 1]
          /\ Move(r, "pushing")
          /\ mirror' = Overtaken(TreeOfReq(r))
          /\ UNCHANGED <<busy, deferred, stale, dropped>>
       \/ /\ result' \in {result, [result EXCEPT ![r] = "conflict"]}
          /\ Exit(r, "leaving", Overtaken(TreeOfReq(r)))
    /\ Merge(TreeOfReq(r))
    /\ UNCHANGED unlocked

-----------------------------------------------------------------------------
Init ==
    /\ asked = [r \in Request |-> [kind |-> None, site |-> None]]
    /\ stage = [r \in Request |-> "new"]
    /\ into = [r \in Request |-> None]
    /\ running = [s \in Storage |-> None] /\ queued = [s \in Storage |-> None]
    /\ busy = [t \in Tree |-> None] /\ depth = [t \in Tree |-> 0]
    /\ result = [r \in Request |-> "ok"] /\ tries = [r \in Request |-> 0]
    /\ disk = [t \in Tree |-> {}] /\ head = disk /\ origin = disk /\ cleared = disk
    /\ mirror = [m \in Repo |-> "idle"]
    /\ deferred = {} /\ stale = {} /\ dropped = {}
    /\ writes = 0

Pass(r) == \/ SkipPull(r) \/ Pull(r) \/ EndPull(r) \/ Work(r) \/ WorkThrows(r)
           \/ Commit(r) \/ EndCommit(r) \/ Pushed(r) \/ GiveUp(r)
           \/ RaceLost(r) \/ EndRepull(r) \/ Leave(r)

Continue(m) == \/ Abandon(m) \/ Finish(m) \/ FinishOvertaken(m)
               \/ Fail(m) \/ Rerun(m)

Next == \/ \E r \in Request : Pass(r) \/ \E call \in Calls[r] : Ask(r, call)
        \/ \E m \in Repo : Write(m) \/ Continue(m)

Spec == Init /\ [][Next]_vars

\* Git calls and IPFS work end, and the event loop runs every continuation.
Fairness == /\ \A r \in Request : WF_vars(Pass(r))
            /\ \A m \in Repo : WF_vars(Continue(m))

FairSpec == Spec /\ Fairness

-----------------------------------------------------------------------------
TypeOK ==
    /\ asked \in [Request -> [kind : Kind \cup {None}, site : Storage \cup {None}]]
    /\ stage \in [Request -> Stages]
    /\ into \in [Request -> Request \cup {None}]
    /\ running \in [Storage -> Request \cup {None}]
    /\ queued \in [Storage -> Request \cup {None}]
    /\ busy \in [Tree -> Request \cup {None}]
    /\ depth \in [Tree -> 0 .. 2]
    /\ result \in [Request -> {"ok", "problem", "conflict"}]
    /\ tries \in [Request -> 0 .. Attempts - 1]
    /\ disk \in [Tree -> SUBSET Request]
    /\ head \in [Tree -> SUBSET Request]
    /\ origin \in [Tree -> SUBSET Request]
    /\ cleared \in [Tree -> SUBSET Request]
    /\ mirror \in [Repo -> {"idle", "pass", "overtaken", "again"}]
    /\ deferred \subseteq Repo /\ stale \subseteq Repo /\ dropped \subseteq Repo
    /\ writes \in 0 .. MaxWrites

\* Two storages may resolve to one working copy, and each storage has a lock of
\* its own: still no two cycles run git in one directory (worktree-gate.ts:25-33,
\* the index race).
OneCyclePerTree ==
    \A q, r \in Request :
      stage[q] \in Spans /\ stage[r] \in Spans /\ TreeOfReq(q) = TreeOfReq(r) => q = r

\* A mirror waits for a release only while there is a release to come: the job
\* map outlives the cycle that put a job there (worktree-gate.ts, drain).
NobodyWaitsForNothing == \A m \in deferred : InCycle(m)

\* Every repository that changed since it was mirrored is somebody's job: a pass
\* in flight, or one that waits for a cycle.  Only a pass that threw, or one that a
\* whole pull overtook, forgets it (tracking-sync.service.ts:419-569).
NothingForgotten ==
    stale \subseteq deferred \cup dropped \cup {m \in Repo : mirror[m] # "idle"}

\* The pass that answers a request.
Cover(r) == IF into[r] = None THEN r ELSE into[r]

Promised(r) == stage[r] = "done" /\ result[Cover(r)] = "ok" =>
                 r \in origin[TreeOfReq(r)] \cup cleared[TreeOfReq(r)]

\* A request whose text was written before it asked may collapse into another
\* pass, of any kind, or find its text committed by the pass of another storage
\* that could not push; a pin pass or an assertion may run beside them: once it is
\* answered, and the pass that covered it reports nothing, its text is at origin,
\* or a pull has put it aside because it blocked a merge (git.service.ts:924-935).
Delivered ==
    \A r \in Request :
      asked[r].kind = "text" \/ (asked[r].kind \in {"pin", "assert"} /\ into[r] = None)
        => Promised(r)

\* The mirror is interrupted by cycles and lands between them: never between the
\* fetch and the merge of one (worktree-gate.ts:1-20).
LandsBetweenCycles ==
    [][\A m \in stale : m \notin stale' => ~InCycle(m)']_vars

\* Every caller is answered: a failed holder does not poison its successor, and
\* the retry that re-enters the gate does not wait for itself.
Answered == \A r \in Request : stage[r] # "new" ~> stage[r] = "done"

\* Cycles may interrupt a mirror again and again: it lands, unless it is dropped.
MirrorSettles == \A m \in Repo : m \in stale ~> m \notin stale \/ m \in dropped
=============================================================================
