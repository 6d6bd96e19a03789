-------------------------------- MODULE Pulls --------------------------------
(***************************************************************************)
(* Files that are decided here and whose bytes have not come yet, and who  *)
(* goes for them: the Pull down button (repos.router.ts), the hourly pass  *)
(* over the team's changes (pin/auto-sync-in.service.ts) and the retry     *)
(* (pin/pull-retry.service.ts), whose timer is in memory and whose due     *)
(* time is on disk.  All of them pull through pullMissing of               *)
(* pin/pin.service.ts, which moves a file once for all who ask for it.     *)
(*                                                                         *)
(* Time is counted in ticks that are left; a transfer, a run of the retry  *)
(* and a boot check take as long as they take.                             *)
(***************************************************************************)
EXTENDS Naturals

CONSTANTS
    File, Repo,
    RepoOf,      \* [File -> Repo]
    Arrives,     \* [File -> Nat \ {0}]: the commit of the team that brings its entry
    Agreed,      \* the files whose decision "sync" comes with the entry
    MaxCommits,  \* bound: commits of the team
    Wait,        \* RETRY_MS, in ticks
    BootWait,    \* BOOT_DUE_DELAY_MS, in ticks
    MinUptime,   \* bound: the ticks the backend is up at least
    Faults,      \* {}, or "slow": a run of the retry may take longer than Wait;
                 \* "hasty": pulls may begin before the boot check is over
    None         \* nothing scheduled, nothing in progress

Caller == {"click", "retry", "team"}
Pull   == [repo : Repo, wait : SUBSET File, failed : BOOLEAN]
Retry  == [left : SUBSET Repo, still : BOOLEAN, asked : BOOLEAN]
Team   == [left : SUBSET Repo, head : 0..MaxCommits, failed : BOOLEAN, deferred : BOOLEAN]

ASSUME RepoAssumption == RepoOf \in [File -> Repo] /\ Repo # {}
ASSUME TeamAssumption == /\ Arrives \in [File -> Nat \ {0}] /\ Agreed \subseteq File
                         /\ MaxCommits \in Nat \ {0}
ASSUME TimeAssumption == Wait \in Nat \ {0} /\ BootWait \in 0..Wait /\ MinUptime \in Nat
ASSUME NoneAssumption == None \notin Nat \cup Pull \cup Retry \cup Team

VARIABLES
    net,      \* the IPFS node: "ok" or "down"
    local,    \* HEAD of the backbone here; the team's repository is at it or further
    folded,   \* [Repo -> Nat]: the commit whose entries its manifest and ledger here carry
    cursor,   \* last_seen_sha: the head that the team pass has seen through
    clicked,  \* files decided here and not by the team
    here,     \* files that are pinned and in the tree
    up,       \* the backend runs
    uptime,
    boot,     \* repositories the boot check has still to look at
    timer,    \* ticks left of the timer, or None
    due,      \* ticks left until dueAt of pull-retry-state.json, or None
    pull,     \* [Caller -> Pull \cup {None}]
    retry,    \* the run of the retry, or None
    team,     \* the run of the team pass, or None
    tried,    \* history: files whose last pull has failed, and that no listing has
              \* kept from the retry since
    overlooked \* history: agreed files the team pass went by, because the node listed no
              \* pins or because their entry was not folded in yet

books   == <<local, folded, clicked, here>>
process == <<up, uptime, boot>>
clock   == <<timer, due>>
runs    == <<pull, retry, team>>
past    == <<tried, overlooked>>
vars    == <<net, cursor, books, process, clock, runs, past>>

-----------------------------------------------------------------------------
(* What is missing.                                                         *)

Listed == {f \in File : Arrives[f] <= folded[RepoOf[f]]}
Wanted == Listed \cap (Agreed \cup clicked)

FilesOf(r) == {f \in File : RepoOf[f] = r}

Missing(r) == (Wanted \cap FilesOf(r)) \ here

\* missingPinnedFromPeers and the filter for decided files: nothing is missing as long
\* as the node does not list its pins.
Pending(r) == IF net = "down" THEN {} ELSE Missing(r)

\* What such a listing hides.
Hidden(r) == IF net = "down" THEN Missing(r) ELSE {}

\* repoPullInFlight
InFlight(r) == \E c \in Caller : pull[c] # None /\ pull[c].repo = r

-----------------------------------------------------------------------------
(* The schedule.                                                            *)

Arm(ticks) == IF timer = None THEN timer' = ticks /\ due' = ticks ELSE UNCHANGED clock

\* schedulePullRetry
Schedule == Arm(Wait)

\* Mutant: a restart starts the wait anew.
ResumeAnew == Arm(Wait)

\* schedulePullRetry at boot: the time already served counts.
Resume == Arm(IF due = None THEN Wait ELSE IF due = 0 THEN BootWait ELSE IF due < Wait THEN due ELSE Wait)

\* clearPullRetrySchedule
ClearSchedule == due' = None /\ UNCHANGED timer

-----------------------------------------------------------------------------
(* A pull.                                                                  *)

Begin(c, r, files) == pull' = [pull EXCEPT ![c] = [repo |-> r, wait |-> files, failed |-> FALSE]]

Over(c) == pull[c] # None /\ pull[c].wait = {}

\* Every caller that waits for f has its answer.
Answer(f, failed) ==
    pull' = [c \in Caller |->
               IF pull[c] # None /\ f \in pull[c].wait
               THEN [pull[c] EXCEPT !.wait = @ \ {f}, !.failed = @ \/ failed] ELSE pull[c]]

Waited(f) == \E c \in Caller : pull[c] # None /\ f \in pull[c].wait

Land(f) ==
    /\ Waited(f) /\ (net = "ok" \/ f \in here)
    /\ Answer(f, FALSE)
    /\ here' = here \cup {f} /\ tried' = tried \ {f} /\ overlooked' = overlooked \ {f}
    /\ UNCHANGED <<net, cursor, local, folded, clicked, process, clock, retry, team>>

\* No provider, a stalled transfer, or no node.
Miss(f) ==
    /\ Waited(f) /\ f \notin here
    /\ Answer(f, TRUE)
    /\ tried' = tried \cup {f}
    /\ UNCHANGED <<net, cursor, books, process, clock, retry, team, overlooked>>

\* POST /:repoId/pull: the decision is recorded first.
Click(r) ==
    /\ up /\ pull["click"] = None
    /\ boot = {} \/ "hasty" \in Faults
    /\ \E files \in (SUBSET ((Listed \cap FilesOf(r)) \ here)) \ {{}} :
         clicked' = clicked \cup (files \ Agreed) /\ Begin("click", r, files)
    /\ UNCHANGED <<net, cursor, local, folded, here, process, clock, retry, team, past>>

\* Mutant: the button leaves what fails to the next boot.
ClickEndsUnarmed ==
    /\ Over("click")
    /\ pull' = [pull EXCEPT !["click"] = None]
    /\ UNCHANGED <<net, cursor, books, process, clock, retry, team, past>>

ClickEnds ==
    /\ Over("click")
    /\ IF pull["click"].failed THEN Schedule ELSE UNCHANGED clock
    /\ pull' = [pull EXCEPT !["click"] = None]
    /\ UNCHANGED <<net, cursor, books, process, retry, team, past>>

-----------------------------------------------------------------------------
(* The retry: runPullRetry.                                                 *)

\* The timer fires; a run in progress is left alone.
RetryFires ==
    /\ timer = 0
    /\ timer' = None
    /\ retry' = IF retry = None THEN [left |-> Repo, still |-> FALSE, asked |-> FALSE] ELSE retry
    /\ UNCHANGED <<net, cursor, books, process, due, pull, team, past>>

\* Mutant: a node that does not answer leaves nothing to wait for.
RetryAsksHopeful ==
    /\ retry # None /\ ~retry.asked
    /\ retry' = IF net = "down" THEN [left |-> {}, still |-> FALSE, asked |-> TRUE]
                ELSE [retry EXCEPT !.asked = TRUE]
    /\ UNCHANGED <<net, cursor, books, process, clock, pull, team, past>>

\* Is the node there?  If not, something is assumed to be waiting.
RetryAsks ==
    /\ retry # None /\ ~retry.asked
    /\ retry' = IF net = "down" THEN [left |-> {}, still |-> TRUE, asked |-> TRUE]
                ELSE [retry EXCEPT !.asked = TRUE]
    /\ UNCHANGED <<net, cursor, books, process, clock, pull, team, past>>

\* One repository: left to the pull that is at it, or pulled, or nothing is missing; a
\* check that throws is logged.  The listing and the dials come after the first look, and
\* another pull may begin before this one does.
RetryLooks(r) ==
    /\ retry # None /\ retry.asked /\ r \in retry.left /\ pull["retry"] = None
    /\ \/ /\ InFlight(r)
          /\ retry' = [retry EXCEPT !.left = @ \ {r}, !.still = TRUE]
          /\ UNCHANGED <<pull, past>>
       \/ /\ IF Pending(r) # {} THEN Begin("retry", r, Pending(r)) /\ UNCHANGED retry
             ELSE retry' = [retry EXCEPT !.left = @ \ {r}] /\ UNCHANGED pull
          /\ tried' = tried \ Hidden(r)
          /\ UNCHANGED overlooked
       \/ /\ retry' = [retry EXCEPT !.left = @ \ {r}]
          /\ tried' = tried \ Missing(r)
          /\ UNCHANGED <<pull, overlooked>>
    /\ UNCHANGED <<net, cursor, books, process, clock, team>>

RetryPulled ==
    /\ Over("retry")
    /\ retry' = [retry EXCEPT !.left = @ \ {pull["retry"].repo}, !.still = @ \/ pull["retry"].failed]
    /\ pull' = [pull EXCEPT !["retry"] = None]
    /\ UNCHANGED <<net, cursor, books, process, clock, team, past>>

RetryEnds ==
    /\ retry # None /\ retry.asked /\ retry.left = {} /\ pull["retry"] = None
    /\ IF retry.still THEN Schedule ELSE ClearSchedule
    /\ retry' = None
    /\ UNCHANGED <<net, cursor, books, process, pull, team, past>>

-----------------------------------------------------------------------------
(* The team pass: runAutoSyncIn, for one company.                           *)

\* The node has answered, the repository has been synchronised as far as it went (Sync,
\* Fold), and HEAD is read, which another cycle may have moved since; a head that the
\* cursor knows ends the pass.
TeamStarts ==
    /\ up /\ team = None /\ net # "down"
    /\ boot = {} \/ "hasty" \in Faults
    /\ local # cursor
    /\ team' = [left |-> Repo, head |-> local, failed |-> FALSE, deferred |-> FALSE]
    /\ UNCHANGED <<net, cursor, books, process, clock, pull, retry, past>>

\* What the manifest of r does not list yet, of what had come with the head.
Unfolded(r) == {f \in FilesOf(r) : Arrives[f] <= team.head} \ (Listed \cup here)

\* One repository, as for the retry; a check that throws is a failure here.
TeamLooks(r) ==
    /\ team # None /\ r \in team.left /\ pull["team"] = None
    /\ \/ /\ InFlight(r)
          /\ team' = [team EXCEPT !.left = @ \ {r}, !.deferred = TRUE]
          /\ UNCHANGED <<pull, past>>
       \/ /\ IF Pending(r) # {} THEN Begin("team", r, Pending(r)) /\ UNCHANGED team
             ELSE team' = [team EXCEPT !.left = @ \ {r}] /\ UNCHANGED pull
          /\ overlooked' = overlooked \cup (Agreed \cap (Hidden(r) \cup Unfolded(r)))
          /\ UNCHANGED tried
       \/ /\ team' = [team EXCEPT !.left = @ \ {r}, !.failed = TRUE]
          /\ UNCHANGED <<pull, past>>
    /\ UNCHANGED <<net, cursor, books, process, clock, retry>>

TeamPulled ==
    /\ Over("team")
    /\ team' = [team EXCEPT !.left = @ \ {pull["team"].repo}, !.failed = @ \/ pull["team"].failed]
    /\ pull' = [pull EXCEPT !["team"] = None]
    /\ UNCHANGED <<net, cursor, books, process, clock, retry, past>>

\* Mutant: the cursor takes the head of the moment.
TeamEndsAtHead ==
    /\ team # None /\ team.left = {} /\ pull["team"] = None
    /\ IF team.failed THEN Schedule ELSE UNCHANGED clock
    /\ cursor' = IF team.failed \/ team.deferred THEN cursor ELSE local
    /\ team' = None
    /\ UNCHANGED <<net, books, process, pull, retry, past>>

\* The cursor advances on a clean run only.
TeamEnds ==
    /\ team # None /\ team.left = {} /\ pull["team"] = None
    /\ IF team.failed THEN Schedule ELSE UNCHANGED clock
    /\ cursor' = IF team.failed \/ team.deferred THEN cursor ELSE team.head
    /\ team' = None
    /\ UNCHANGED <<net, books, process, pull, retry, past>>

-----------------------------------------------------------------------------
(* The process.                                                             *)

Crash ==
    /\ up /\ uptime = MinUptime
    /\ up' = FALSE /\ uptime' = 0 /\ boot' = {} /\ timer' = None
    /\ pull' = [c \in Caller |-> None] /\ retry' = None /\ team' = None
    /\ UNCHANGED <<net, cursor, books, due, past>>

Boot ==
    /\ ~up
    /\ up' = TRUE /\ boot' = Repo
    /\ UNCHANGED <<net, cursor, books, uptime, clock, runs, past>>

\* schedulePullRetryIfPending: the first repository with something pending arms the
\* timer; when there is none the schedule is forgotten; a check that fails arms it too.
BootLooks(r) ==
    /\ r \in boot
    /\ \/ /\ Pending(r) # {} /\ Resume /\ boot' = {}
       \/ /\ Pending(r) = {} /\ boot' = boot \ {r}
          /\ IF boot' = {} THEN ClearSchedule ELSE UNCHANGED clock
       \/ /\ Resume /\ boot' = {}
    /\ tried' = tried \ Hidden(r)
    /\ UNCHANGED <<net, cursor, books, up, uptime, runs, overlooked>>

-----------------------------------------------------------------------------
(* What comes from outside.                                                 *)

Less(ticks) == IF ticks \in {None, 0} THEN ticks ELSE ticks - 1

\* Time passes; the boot check is over before the next tick.
Tick ==
    /\ boot = {} /\ timer # 0
    /\ retry = None \/ timer # 1 \/ "slow" \in Faults
    /\ timer' = Less(timer) /\ due' = Less(due)
    /\ uptime' = IF up /\ uptime < MinUptime THEN uptime + 1 ELSE uptime
    /\ UNCHANGED <<net, cursor, books, up, boot, runs, past>>

\* The node stops and starts.
NetChanges ==
    /\ net' \in {"ok", "down"} \ {net}
    /\ UNCHANGED <<cursor, books, process, clock, runs, past>>

\* A cycle of the team's repository, of the team pass or of another one, moves HEAD.
Sync ==
    /\ up /\ local' \in local + 1..MaxCommits
    /\ UNCHANGED <<net, cursor, folded, clicked, here, process, clock, runs, past>>

\* Each cycle folds what lies in the copy into the manifests here, one repository after
\* the other.  A merge may be discarded or throw, and is then left to a later cycle.
Fold(r) ==
    /\ up /\ folded[r] < local
    /\ folded' = [folded EXCEPT ![r] = local]
    /\ UNCHANGED <<net, cursor, local, clicked, here, process, clock, runs, past>>

PinPass(f) ==
    /\ up /\ net = "ok" /\ f \in Wanted \ here
    /\ here' = here \cup {f} /\ tried' = tried \ {f} /\ overlooked' = overlooked \ {f}
    /\ UNCHANGED <<net, cursor, local, folded, clicked, process, clock, runs>>

-----------------------------------------------------------------------------

Init ==
    /\ net = "ok" /\ local = 1 /\ cursor = 0 /\ folded = [r \in Repo |-> 1]
    /\ clicked = {} /\ here = {} /\ tried = {} /\ overlooked = {}
    /\ up = TRUE /\ uptime = 0 /\ boot = Repo /\ timer = None /\ due = None
    /\ pull = [c \in Caller |-> None] /\ retry = None /\ team = None

RetryRun == RetryFires \/ RetryAsks \/ RetryPulled \/ RetryEnds \/ \E r \in Repo : RetryLooks(r)
TeamRun  == TeamPulled \/ TeamEnds \/ \E r \in Repo : TeamLooks(r)
BootRun  == Boot \/ \E r \in Repo : BootLooks(r)

Next == \/ RetryRun \/ TeamRun \/ TeamStarts \/ BootRun \/ ClickEnds
        \/ \E r \in Repo : Click(r) \/ Fold(r)
        \/ \E f \in File : Land(f) \/ Miss(f) \/ PinPass(f)
        \/ Crash \/ Tick \/ NetChanges \/ Sync

Spec == Init /\ [][Next]_vars

\* Time passes, the backend is started again, what has begun goes on, every transfer ends.
Fairness == /\ WF_vars(Tick \/ BootRun) /\ WF_vars(RetryRun) /\ WF_vars(TeamRun) /\ WF_vars(ClickEnds)
            /\ WF_vars(\E f \in File : Land(f) \/ Miss(f))

FairSpec == Spec /\ Fairness

-----------------------------------------------------------------------------
(* Properties.                                                              *)

Ticks == 0..Wait \cup {None}

\* The type of every variable.
TypeOK ==
    /\ net \in {"ok", "down"}
    /\ local \in 0..MaxCommits /\ cursor \in 0..MaxCommits /\ folded \in [Repo -> 0..MaxCommits]
    /\ clicked \subseteq File /\ here \subseteq File
    /\ tried \subseteq File /\ overlooked \subseteq File
    /\ up \in BOOLEAN /\ uptime \in 0..MinUptime /\ boot \subseteq Repo
    /\ timer \in Ticks /\ due \in Ticks
    /\ pull \in [Caller -> Pull \cup {None}] /\ retry \in Retry \cup {None} /\ team \in Team \cup {None}

\* What the retry owes: the files whose last pull has failed.  One that has then been
\* kept from the retry or from the boot check, by a node that listed no pins or by a
\* check that threw, is forgotten by the code, and by this.
Owed == tried \cap Wanted

\* A decided file whose pull has failed is not forgotten: as long as it is missing, a
\* retry is armed, or somebody is at work who will arm it.
RetryStandsBy ==
    up /\ Owed # {} =>
        \/ timer # None \/ retry # None \/ boot # {}
        \/ \E c \in Caller : pull[c] # None /\ pull[c].failed
        \/ team # None /\ team.failed

\* The cursor never passes work that is not done, whoever else pulls, fails or moves HEAD
\* meanwhile: what the team had agreed on up to the head it names is here, unless the
\* node hid it from a look, or the pass looked before its entry was folded in
\* (auto-sync-in.service.ts:9-12, 165-177).
CursorIsTrue == \A f \in Agreed : Arrives[f] <= cursor => f \in here \cup overlooked

\* However often the backend is restarted, a retry comes, unless the node is gone for good.
RetryComes == []<>(net # "down") => (Owed # {} ~> (retry # None \/ Owed = {}))

\* The holder is there often enough: a transfer that is tried again and again lands.
HolderComes == SF_vars(\E f \in File : Land(f))

\* Once the backend and the node stay, the files whose pulls have failed come, without
\* the pin pass and without another click.
DecidedArrive == HolderComes /\ <>[](up /\ net = "ok") => <>[](Owed = {})

=============================================================================
