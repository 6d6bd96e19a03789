----------------------------- MODULE Pulls_proofs -----------------------------
(* Whatever repositories, files and commits there are: the cursor of the team *)
(* pass tells the truth, and a file whose pull failed is not forgotten.       *)
EXTENDS Pulls, TLAPS

\* Whose pull belongs to which run.
RunsAgree ==
    /\ retry # None /\ ~retry.asked => retry.left = Repo
    /\ pull["retry"] # None => /\ retry # None /\ retry.asked
                               /\ pull["retry"].repo \in retry.left
    /\ pull["team"] # None => team # None /\ pull["team"].repo \in team.left
    /\ team # None => team.head <= local

\* What the team pass may let its cursor by, so far: a clean run has seen to every
\* agreed file of the repositories it has left behind, and its pull waits for those
\* of the repository it is at.
TeamTrue ==
    team # None /\ ~team.failed /\ ~team.deferred =>
      \A f \in Agreed : Arrives[f] <= team.head =>
        \/ f \in here \cup overlooked
        \/ /\ RepoOf[f] \in team.left
           /\ pull["team"] # None /\ pull["team"].repo = RepoOf[f] =>
                pull["team"].failed \/ f \in pull["team"].wait

\* The inductive invariant behind CursorIsTrue.
CursorInv == TypeOK /\ RunsAgree /\ TeamTrue /\ CursorIsTrue

\* Files are tried because somebody wants them here, and not when they are.
TriedWanted == tried \subseteq Wanted /\ tried \cap here = {}
WaitsWanted == \A c \in Caller : pull[c] # None => pull[c].wait \subseteq Wanted

\* What the life of the process and the clock exclude.
Phases ==
    /\ ~up => /\ boot = {} /\ timer = None /\ retry = None /\ team = None
              /\ \A c \in Caller : pull[c] = None
    /\ boot # {} => retry = None /\ timer # 0
    /\ timer = 0 => retry = None

\* The timer runs, or whoever has seen a pull fail will set it.
Armed ==
    \/ timer # None
    \/ \E c \in Caller : pull[c] # None /\ pull[c].failed
    \/ team # None /\ team.failed

\* The boot check or the retry has still to look at the file, or will set the timer.
WillLook(f) ==
    \/ RepoOf[f] \in boot
    \/ retry # None /\ (retry.still \/ RepoOf[f] \in retry.left)

Stood == up => \A f \in tried : Armed \/ WillLook(f)

\* The retry's own pull is for every tried file of its repository.
RetryCovers ==
    pull["retry"] # None =>
      \A f \in tried : RepoOf[f] = pull["retry"].repo => f \in pull["retry"].wait \/ Armed

\* The inductive invariant behind RetryStandsBy.
StandInv == TypeOK /\ RunsAgree /\ TriedWanted /\ WaitsWanted /\ Phases /\ Stood /\ RetryCovers

\* A run leaves a repository behind without a pull of its own.
RetryLeaves(r) == \/ retry' = [retry EXCEPT !.left = @ \ {r}, !.still = TRUE]
                  \/ retry' = [retry EXCEPT !.left = @ \ {r}]
TeamLeaves(r)  == \/ team' = [team EXCEPT !.left = @ \ {r}, !.deferred = TRUE]
                  \/ team' = [team EXCEPT !.left = @ \ {r}]
                  \/ team' = [team EXCEPT !.left = @ \ {r}, !.failed = TRUE]

-----------------------------------------------------------------------------
(* Records are not None, and stay records.                                    *)

LEMMA NoRecordIsNone ==
    /\ \A n \in Nat : n # None
    /\ \A p \in Pull : p # None
    /\ \A r \in Retry : r # None
    /\ \A t \in Team : t # None
  BY NoneAssumption

LEMMA BeginTypes ==
    ASSUME TypeOK, NEW c \in Caller, NEW r \in Repo, NEW files \in SUBSET File,
           Begin(c, r, files)
    PROVE  pull' \in [Caller -> Pull \cup {None}] /\ pull'[c] \in Pull
  BY DEF TypeOK, Begin, Pull

LEMMA AnswerTypes ==
    ASSUME TypeOK, NEW f \in File, NEW failed \in BOOLEAN, Answer(f, failed)
    PROVE  /\ pull' \in [Caller -> Pull \cup {None}]
           /\ \A c \in Caller : (pull'[c] = None) <=> (pull[c] = None)
           /\ \A c \in Caller : pull[c] # None =>
                /\ pull'[c].repo = pull[c].repo
                /\ pull'[c].wait = pull[c].wait \ {f}
                /\ pull'[c].failed = (pull[c].failed \/ (failed /\ f \in pull[c].wait))
<1>1. \A c \in Caller : pull[c] \in Pull \cup {None}
  BY DEF TypeOK
<1>2. \A c \in Caller : pull'[c] = IF pull[c] # None /\ f \in pull[c].wait
               THEN [pull[c] EXCEPT !.wait = @ \ {f}, !.failed = @ \/ failed] ELSE pull[c]
  BY DEF Answer
<1>3. ASSUME NEW c \in Caller, pull[c] # None
      PROVE  /\ pull'[c] \in Pull
             /\ pull'[c].repo = pull[c].repo
             /\ pull'[c].wait = pull[c].wait \ {f}
             /\ pull'[c].failed = (pull[c].failed \/ (failed /\ f \in pull[c].wait))
  <2>1. pull[c] \in Pull
    BY <1>1, <1>3
  <2>2. CASE f \in pull[c].wait
    BY <1>2, <1>3, <2>1, <2>2 DEF Pull
  <2>3. CASE f \notin pull[c].wait
    BY <1>2, <1>3, <2>1, <2>3 DEF Pull
  <2> QED
    BY <2>2, <2>3
<1>4. \A c \in Caller : pull[c] = None => pull'[c] = None
  BY <1>2
<1>5. DOMAIN pull' = Caller /\ pull' = [c \in Caller |-> pull'[c]]
  BY DEF Answer
<1> QED
  BY <1>1, <1>3, <1>4, <1>5, NoRecordIsNone

\* What a run becomes when it is through with a repository.
LEMMA RetryGoesOn ==
    ASSUME TypeOK, RunsAgree
    PROVE  /\ RetryPulled =>
                /\ pull["retry"] \in Pull /\ retry \in Retry /\ retry' \in Retry
                /\ retry'.left = retry.left \ {pull["retry"].repo}
                /\ retry'.still = (retry.still \/ pull["retry"].failed)
                /\ retry'.asked = retry.asked
           /\ \A r \in Repo : retry # None /\ RetryLeaves(r) =>
                /\ retry \in Retry /\ retry' \in Retry
                /\ retry'.left = retry.left \ {r}
                /\ retry.still => retry'.still
                /\ retry'.asked = retry.asked
<1>1. retry # None => retry \in Retry /\ retry.left \in SUBSET Repo /\ retry.still \in BOOLEAN
  BY DEF TypeOK, Retry
<1>2. pull["retry"] # None => pull["retry"] \in Pull /\ pull["retry"].failed \in BOOLEAN
  BY DEF TypeOK, Caller, Pull
<1>3. ASSUME RetryPulled
      PROVE  /\ pull["retry"] \in Pull /\ retry \in Retry /\ retry' \in Retry
             /\ retry'.left = retry.left \ {pull["retry"].repo}
             /\ retry'.still = (retry.still \/ pull["retry"].failed)
             /\ retry'.asked = retry.asked
  <2> DEFINE left == retry.left \ {pull["retry"].repo}
             b    == retry.still \/ pull["retry"].failed
  <2>1. pull["retry"] # None /\ retry # None
    BY <1>3 DEF RetryPulled, Over, RunsAgree
  <2>2. left \in SUBSET Repo /\ b \in BOOLEAN
    BY <1>1, <2>1
  <2>3. retry' = [retry EXCEPT !.left = left, !.still = b]
    BY <1>3 DEF RetryPulled
  <2> HIDE DEF left, b
  <2>4. retry' \in Retry /\ retry'.left = left /\ retry'.still = b /\ retry'.asked = retry.asked
    BY <1>1, <2>1, <2>2, <2>3 DEF Retry
  <2> QED
    BY <1>1, <1>2, <2>1, <2>4 DEF left, b
<1>4. ASSUME NEW r \in Repo, retry # None, RetryLeaves(r)
      PROVE  /\ retry \in Retry /\ retry' \in Retry
             /\ retry'.left = retry.left \ {r}
             /\ retry.still => retry'.still
             /\ retry'.asked = retry.asked
  <2>1. PICK left \in SUBSET Repo : left = retry.left \ {r}
    BY <1>1, <1>4
  <2>2. \/ retry' = [retry EXCEPT !.left = left, !.still = TRUE]
        \/ retry' = [retry EXCEPT !.left = left]
    BY <1>4, <2>1 DEF RetryLeaves
  <2>3. retry' \in Retry /\ retry'.left = left /\ (retry.still => retry'.still) /\ retry'.asked = retry.asked
    BY <1>1, <1>4, <2>2 DEF Retry
  <2> QED
    BY <1>1, <1>4, <2>1, <2>3
<1> QED
  BY <1>3, <1>4

LEMMA TeamGoesOn ==
    ASSUME TypeOK, RunsAgree
    PROVE  /\ TeamPulled =>
                /\ pull["team"] \in Pull /\ team \in Team /\ team' \in Team
                /\ team'.left = team.left \ {pull["team"].repo}
                /\ team'.failed = (team.failed \/ pull["team"].failed)
                /\ team'.head = team.head /\ team'.deferred = team.deferred
           /\ \A r \in Repo : team # None /\ TeamLeaves(r) =>
                /\ team \in Team /\ team' \in Team
                /\ team'.left = team.left \ {r} /\ team'.head = team.head
                /\ (team.failed => team'.failed) /\ (team.deferred => team'.deferred)
<1>1. team # None => /\ team \in Team /\ team.left \in SUBSET Repo
                     /\ team.failed \in BOOLEAN /\ team.deferred \in BOOLEAN
  BY DEF TypeOK, Team
<1>2. pull["team"] # None => pull["team"] \in Pull /\ pull["team"].failed \in BOOLEAN
  BY DEF TypeOK, Caller, Pull
<1>3. ASSUME TeamPulled
      PROVE  /\ pull["team"] \in Pull /\ team \in Team /\ team' \in Team
             /\ team'.left = team.left \ {pull["team"].repo}
             /\ team'.failed = (team.failed \/ pull["team"].failed)
             /\ team'.head = team.head /\ team'.deferred = team.deferred
  <2> DEFINE left == team.left \ {pull["team"].repo}
             b    == team.failed \/ pull["team"].failed
  <2>1. pull["team"] # None /\ team # None
    BY <1>3 DEF TeamPulled, Over, RunsAgree
  <2>2. left \in SUBSET Repo /\ b \in BOOLEAN
    BY <1>1, <2>1
  <2>3. team' = [team EXCEPT !.left = left, !.failed = b]
    BY <1>3 DEF TeamPulled
  <2> HIDE DEF left, b
  <2>4. /\ team' \in Team /\ team'.left = left /\ team'.failed = b
        /\ team'.head = team.head /\ team'.deferred = team.deferred
    BY <1>1, <2>1, <2>2, <2>3 DEF Team
  <2> QED
    BY <1>1, <1>2, <2>1, <2>4 DEF left, b
<1>4. ASSUME NEW r \in Repo, team # None, TeamLeaves(r)
      PROVE  /\ team \in Team /\ team' \in Team
             /\ team'.left = team.left \ {r} /\ team'.head = team.head
             /\ (team.failed => team'.failed) /\ (team.deferred => team'.deferred)
  <2>1. PICK left \in SUBSET Repo : left = team.left \ {r}
    BY <1>1, <1>4
  <2>2. \/ team' = [team EXCEPT !.left = left, !.deferred = TRUE]
        \/ team' = [team EXCEPT !.left = left]
        \/ team' = [team EXCEPT !.left = left, !.failed = TRUE]
    BY <1>4, <2>1 DEF TeamLeaves
  <2>3. /\ team' \in Team /\ team'.left = left /\ team'.head = team.head
        /\ (team.failed => team'.failed) /\ (team.deferred => team'.deferred)
    BY <1>1, <1>4, <2>2 DEF Team
  <2> QED
    BY <1>1, <1>4, <2>1, <2>3
<1> QED
  BY <1>3, <1>4

LEMMA ArmTypes ==
    ASSUME TypeOK, NEW ticks \in 0..Wait, Arm(ticks)
    PROVE  timer' \in Ticks /\ due' \in Ticks /\ timer' # None
  BY NoRecordIsNone, TimeAssumption DEF TypeOK, Arm, clock, Ticks

LEMMA ResumeTypes ==
    ASSUME TypeOK, Resume
    PROVE  timer' \in Ticks /\ due' \in Ticks /\ timer' # None
<1> DEFINE wait == IF due = None THEN Wait ELSE IF due = 0 THEN BootWait
                   ELSE IF due < Wait THEN due ELSE Wait
<1>1. wait \in 0..Wait
  BY TimeAssumption DEF TypeOK, Ticks
<1> QED
  BY <1>1, ArmTypes DEF Resume

LEMMA InitTypes == Init => TypeOK
  BY TeamAssumption, TimeAssumption DEF Init, TypeOK, Ticks, Caller

LEMMA TransferTypes ==
    ASSUME TypeOK, NEW f \in File, Land(f) \/ Miss(f) \/ PinPass(f)
    PROVE  TypeOK'
<1>1. CASE Land(f)
  BY <1>1, AnswerTypes DEF Land, TypeOK, process, clock, Ticks
<1>2. CASE Miss(f)
  BY <1>2, AnswerTypes DEF Miss, TypeOK, books, process, clock, Ticks
<1>3. CASE PinPass(f)
  BY <1>3 DEF PinPass, TypeOK, process, clock, runs, Ticks
<1> QED
  BY <1>1, <1>2, <1>3

LEMMA ClickTypes ==
    ASSUME TypeOK, NEW r \in Repo, Click(r)
    PROVE  TypeOK'
<1>1. PICK files \in (SUBSET ((Listed \cap FilesOf(r)) \ here)) \ {{}} :
        clicked' = clicked \cup (files \ Agreed) /\ Begin("click", r, files)
  BY DEF Click
<1>2. files \in SUBSET File
  BY DEF Listed
<1>3. pull' \in [Caller -> Pull \cup {None}]
  BY <1>1, <1>2, BeginTypes DEF Caller
<1> QED
  BY <1>1, <1>2, <1>3 DEF Click, TypeOK, process, clock, past, Ticks

LEMMA ScheduledTypes ==
    ASSUME TypeOK, Schedule
    PROVE  timer' \in Ticks /\ due' \in Ticks /\ timer' # None
  BY ArmTypes, TimeAssumption DEF Schedule

LEMMA ClickEndsTypes == TypeOK /\ ClickEnds => TypeOK'
<1> SUFFICES ASSUME TypeOK, ClickEnds PROVE TypeOK'
  OBVIOUS
<1>1. timer' \in Ticks /\ due' \in Ticks
  BY ScheduledTypes DEF ClickEnds, clock, TypeOK
<1>2. pull' \in [Caller -> Pull \cup {None}]
  BY DEF ClickEnds, TypeOK
<1> QED
  BY <1>1, <1>2 DEF ClickEnds, TypeOK, books, process, past

LEMMA PendingFiles ==
    ASSUME NEW r \in Repo
    PROVE  Pending(r) \in SUBSET File
  BY DEF Pending, Missing, FilesOf

\* What a look forgets or goes by.
LEMMA LookTypes ==
    ASSUME TypeOK, NEW r \in Repo, RetryLooks(r) \/ TeamLooks(r) \/ BootLooks(r)
    PROVE  /\ tried' \in SUBSET tried
           /\ overlooked' \in SUBSET File /\ overlooked \subseteq overlooked'
           /\ UNCHANGED books
  BY TeamAssumption DEF RetryLooks, TeamLooks, BootLooks, TypeOK, past, Hidden, Missing, Unfolded, FilesOf

LEMMA RetryTypes ==
    ASSUME TypeOK, RunsAgree, RetryRun
    PROVE  TypeOK'
<1>1. CASE RetryFires
  BY <1>1 DEF RetryFires, TypeOK, books, process, past, Ticks, Retry
<1>2. CASE RetryAsks
  BY <1>2 DEF RetryAsks, TypeOK, books, process, clock, past, Ticks, Retry
<1>3. CASE RetryPulled
  <2>1. pull' \in [Caller -> Pull \cup {None}]
    BY <1>3 DEF RetryPulled, TypeOK
  <2>2. retry' \in Retry
    BY <1>3, RetryGoesOn
  <2> QED
    BY <1>3, <2>1, <2>2 DEF RetryPulled, TypeOK, books, process, clock, past, Ticks
<1>4. CASE RetryEnds
  <2>1. timer' \in Ticks /\ due' \in Ticks
    BY <1>4, ScheduledTypes DEF RetryEnds, ClearSchedule, TypeOK, Ticks
  <2> QED
    BY <1>4, <2>1 DEF RetryEnds, TypeOK, books, process, past
<1>5. ASSUME NEW r \in Repo, RetryLooks(r) PROVE TypeOK'
  <2>1. tried' \in SUBSET File /\ overlooked' \in SUBSET File
    BY <1>5, LookTypes DEF TypeOK
  <2>2. CASE Begin("retry", r, Pending(r)) /\ UNCHANGED retry
    BY <1>5, <2>1, <2>2, BeginTypes, PendingFiles
       DEF RetryLooks, TypeOK, books, process, clock, Ticks, Caller
  <2>3. CASE RetryLeaves(r) /\ UNCHANGED pull
    <3>1. retry' \in Retry
      BY <1>5, <2>3, RetryGoesOn DEF RetryLooks
    <3> QED
      BY <1>5, <2>1, <2>3, <3>1 DEF RetryLooks, TypeOK, books, process, clock, Ticks
  <2> QED
    BY <1>5, <2>2, <2>3 DEF RetryLooks, RetryLeaves, past
<1> QED
  BY <1>1, <1>2, <1>3, <1>4, <1>5 DEF RetryRun

LEMMA TeamTypes ==
    ASSUME TypeOK, RunsAgree, TeamRun \/ TeamStarts
    PROVE  TypeOK'
<1>1. CASE TeamStarts
  BY <1>1 DEF TeamStarts, TypeOK, books, process, clock, past, Ticks, Team
<1>2. CASE TeamPulled
  <2>1. pull' \in [Caller -> Pull \cup {None}]
    BY <1>2 DEF TeamPulled, TypeOK
  <2>2. team' \in Team
    BY <1>2, TeamGoesOn
  <2> QED
    BY <1>2, <2>1, <2>2 DEF TeamPulled, TypeOK, books, process, clock, past, Ticks
<1>3. CASE TeamEnds
  <2>1. timer' \in Ticks /\ due' \in Ticks
    BY <1>3, ScheduledTypes DEF TeamEnds, clock, TypeOK
  <2>2. cursor' \in 0..MaxCommits
    BY <1>3 DEF TeamEnds, TypeOK, Team
  <2> QED
    BY <1>3, <2>1, <2>2 DEF TeamEnds, TypeOK, books, process, past
<1>4. ASSUME NEW r \in Repo, TeamLooks(r) PROVE TypeOK'
  <2>1. tried' \in SUBSET File /\ overlooked' \in SUBSET File
    BY <1>4, LookTypes DEF TypeOK
  <2>2. CASE Begin("team", r, Pending(r)) /\ UNCHANGED team
    BY <1>4, <2>1, <2>2, BeginTypes, PendingFiles
       DEF TeamLooks, TypeOK, books, process, clock, Ticks, Caller
  <2>3. CASE TeamLeaves(r) /\ UNCHANGED pull
    <3>1. team' \in Team
      BY <1>4, <2>3, TeamGoesOn DEF TeamLooks
    <3> QED
      BY <1>4, <2>1, <2>3, <3>1 DEF TeamLooks, TypeOK, books, process, clock, Ticks
  <2> QED
    BY <1>4, <2>2, <2>3 DEF TeamLooks, TeamLeaves, past
<1> QED
  BY <1>1, <1>2, <1>3, <1>4 DEF TeamRun

LEMMA ProcessTypes ==
    ASSUME TypeOK, Crash \/ BootRun
    PROVE  TypeOK'
<1>1. CASE Crash
  <2>1. pull' \in [Caller -> Pull \cup {None}]
    BY <1>1 DEF Crash
  <2>2. uptime' \in 0..MinUptime /\ timer' \in Ticks /\ due' \in Ticks
    BY <1>1, TimeAssumption DEF Crash, TypeOK, Ticks
  <2> QED
    BY <1>1, <2>1, <2>2 DEF Crash, TypeOK, books, past
<1>2. CASE Boot
  BY <1>2 DEF Boot, TypeOK, books, clock, runs, past, Ticks
<1>3. ASSUME NEW r \in Repo, BootLooks(r) PROVE TypeOK'
  <2>1. tried' \in SUBSET File /\ overlooked' \in SUBSET File
    BY <1>3, LookTypes DEF TypeOK
  <2>2. Resume => timer' \in Ticks /\ due' \in Ticks
    BY ResumeTypes
  <2>3. timer' \in Ticks /\ due' \in Ticks /\ boot' \subseteq Repo
    BY <1>3, <2>2 DEF BootLooks, ClearSchedule, TypeOK, clock, Ticks
  <2> QED
    BY <1>3, <2>1, <2>3 DEF BootLooks, TypeOK, books, runs
<1> QED
  BY <1>1, <1>2, <1>3 DEF BootRun

LEMMA OutsideTypes ==
    ASSUME TypeOK, Tick \/ NetChanges \/ Sync \/ \E r \in Repo : Fold(r)
    PROVE  TypeOK'
<1>1. CASE Tick
  <2>1. \A x \in Ticks : Less(x) \in Ticks
    BY TimeAssumption, NoRecordIsNone DEF Less, Ticks
  <2>2. uptime' \in 0..MinUptime
    BY <1>1, TimeAssumption DEF Tick, TypeOK
  <2> QED
    BY <1>1, <2>1, <2>2 DEF Tick, TypeOK, books, runs, past
<1>2. CASE NetChanges
  BY <1>2 DEF NetChanges, TypeOK, books, process, clock, runs, past, Ticks
<1>3. CASE Sync
  <2>1. local' \in 0..MaxCommits
    BY <1>3, TeamAssumption DEF Sync, TypeOK
  <2> QED
    BY <1>3, <2>1 DEF Sync, TypeOK, process, clock, runs, past, Ticks
<1>4. ASSUME NEW r \in Repo, Fold(r) PROVE TypeOK'
  BY <1>4 DEF Fold, TypeOK, process, clock, runs, past, Ticks
<1> QED
  BY <1>1, <1>2, <1>3, <1>4

LEMMA NextTypes == TypeOK /\ RunsAgree /\ [Next]_vars => TypeOK'
<1> SUFFICES ASSUME TypeOK, RunsAgree, [Next]_vars PROVE TypeOK'
  OBVIOUS
<1>1. CASE UNCHANGED vars
  BY <1>1 DEF vars, TypeOK, books, process, clock, runs, past, Ticks
<1>2. CASE Next
  BY <1>2, TransferTypes, ClickTypes, ClickEndsTypes, RetryTypes, TeamTypes, ProcessTypes,
     OutsideTypes DEF Next
<1> QED
  BY <1>1, <1>2

-----------------------------------------------------------------------------
(* The runs and their pulls.                                                  *)

LEMMA NextAgrees == TypeOK /\ RunsAgree /\ [Next]_vars => RunsAgree'
<1> SUFFICES ASSUME TypeOK, RunsAgree, [Next]_vars PROVE RunsAgree'
  OBVIOUS
<1>1. CASE UNCHANGED vars
  BY <1>1 DEF vars, RunsAgree, books, runs
<1>2. ASSUME NEW f \in File, Land(f) \/ Miss(f) PROVE RunsAgree'
  <2>1. PICK failed \in BOOLEAN : Answer(f, failed)
    BY <1>2 DEF Land, Miss
  <2> QED
    BY <1>2, <2>1, AnswerTypes DEF Land, Miss, RunsAgree, books, Caller
<1>3. ASSUME NEW f \in File, PinPass(f) PROVE RunsAgree'
  BY <1>3 DEF PinPass, RunsAgree, runs
<1>4. ASSUME NEW r \in Repo, Click(r) PROVE RunsAgree'
  <2>1. pull'["retry"] = pull["retry"] /\ pull'["team"] = pull["team"]
    BY <1>4 DEF Click, Begin, TypeOK, Caller
  <2> QED
    BY <1>4, <2>1 DEF Click, RunsAgree
<1>5. CASE ClickEnds
  <2>1. pull'["retry"] = pull["retry"] /\ pull'["team"] = pull["team"]
    BY <1>5 DEF ClickEnds, TypeOK, Caller
  <2> QED
    BY <1>5, <2>1 DEF ClickEnds, RunsAgree, books
<1>6. CASE RetryFires
  <2>1. CASE retry = None
    BY <1>6, <2>1 DEF RetryFires, RunsAgree, books
  <2>2. CASE retry # None
    BY <1>6, <2>2 DEF RetryFires, RunsAgree, books
  <2> QED
    BY <2>1, <2>2
<1>7. CASE RetryAsks
  BY <1>7, NoRecordIsNone DEF RetryAsks, RunsAgree, TypeOK, Retry, books
<1>8. CASE RetryPulled
  BY <1>8, RetryGoesOn, NoRecordIsNone DEF RetryPulled, RunsAgree, TypeOK, Caller, books
<1>9. CASE RetryEnds
  BY <1>9 DEF RetryEnds, RunsAgree, books
<1>10. ASSUME NEW r \in Repo, RetryLooks(r) PROVE RunsAgree'
  <2>1. CASE Begin("retry", r, Pending(r)) /\ UNCHANGED retry
    BY <1>10, <2>1 DEF RetryLooks, Begin, RunsAgree, TypeOK, Caller, books
  <2>2. CASE RetryLeaves(r) /\ UNCHANGED pull
    BY <1>10, <2>2, RetryGoesOn DEF RetryLooks, RunsAgree, books
  <2> QED
    BY <1>10, <2>1, <2>2 DEF RetryLooks, RetryLeaves, past
<1>11. CASE TeamStarts
  BY <1>11 DEF TeamStarts, RunsAgree, TypeOK, books
<1>12. CASE TeamPulled
  BY <1>12, TeamGoesOn DEF TeamPulled, RunsAgree, TypeOK, Caller, books, Over
<1>13. CASE TeamEnds
  BY <1>13 DEF TeamEnds, RunsAgree, books
<1>14. ASSUME NEW r \in Repo, TeamLooks(r) PROVE RunsAgree'
  <2>1. CASE Begin("team", r, Pending(r)) /\ UNCHANGED team
    BY <1>14, <2>1 DEF TeamLooks, Begin, RunsAgree, TypeOK, Caller, books
  <2>2. CASE TeamLeaves(r) /\ UNCHANGED pull
    BY <1>14, <2>2, TeamGoesOn DEF TeamLooks, RunsAgree, books
  <2> QED
    BY <1>14, <2>1, <2>2 DEF TeamLooks, TeamLeaves, past
<1>15. CASE Crash
  BY <1>15 DEF Crash, RunsAgree, Caller
<1>16. CASE Boot
  BY <1>16 DEF Boot, RunsAgree, books, runs
<1>17. ASSUME NEW r \in Repo, BootLooks(r) PROVE RunsAgree'
  BY <1>17 DEF BootLooks, RunsAgree, books, runs
<1>18. CASE Tick \/ NetChanges
  BY <1>18 DEF Tick, NetChanges, RunsAgree, books, runs
<1>19. CASE Sync \/ \E r \in Repo : Fold(r)
  BY <1>19, TeamAssumption DEF Sync, Fold, RunsAgree, runs, TypeOK, Team
<1> QED
  BY <1>1, <1>2, <1>3, <1>4, <1>5, <1>6, <1>7, <1>8, <1>9, <1>10, <1>11, <1>12, <1>13, <1>14,
     <1>15, <1>16, <1>17, <1>18, <1>19 DEF Next, RetryRun, TeamRun, BootRun

LEMMA InitAgrees == Init => TypeOK /\ RunsAgree
  BY InitTypes DEF Init, RunsAgree, Caller

\* Every variable of the pulls keeps its type.
THEOREM TypeCorrect == Spec => []TypeOK
<1>1. TypeOK /\ RunsAgree /\ [Next]_vars => TypeOK' /\ RunsAgree'
  BY NextTypes, NextAgrees
<1> QED
  BY InitAgrees, <1>1, PTL DEF Spec

-----------------------------------------------------------------------------
(* The cursor.                                                                *)

\* What is here or has been overlooked stays so.
LEMMA SeenStays == TypeOK /\ [Next]_vars => here \cup overlooked \subseteq here' \cup overlooked'
<1> SUFFICES ASSUME TypeOK, [Next]_vars PROVE here \cup overlooked \subseteq here' \cup overlooked'
  OBVIOUS
<1>1. CASE UNCHANGED vars
  BY <1>1 DEF vars, books, past
<1>2. ASSUME NEW f \in File, Land(f) \/ Miss(f) \/ PinPass(f)
      PROVE  here \cup overlooked \subseteq here' \cup overlooked'
  BY <1>2 DEF Land, Miss, PinPass, books
<1>3. ASSUME NEW r \in Repo, RetryLooks(r) \/ TeamLooks(r) \/ BootLooks(r)
      PROVE  here \cup overlooked \subseteq here' \cup overlooked'
  BY <1>3, LookTypes DEF books
<1>4. ASSUME NEW r \in Repo, Click(r) \/ Fold(r)
      PROVE  here \cup overlooked \subseteq here' \cup overlooked'
  BY <1>4 DEF Click, Fold, past
<1>5. CASE RetryFires \/ RetryAsks \/ RetryPulled \/ RetryEnds \/ ClickEnds
  BY <1>5 DEF RetryFires, RetryAsks, RetryPulled, RetryEnds, ClickEnds, books, past
<1>6. CASE TeamStarts \/ TeamPulled \/ TeamEnds
  BY <1>6 DEF TeamStarts, TeamPulled, TeamEnds, books, past
<1>7. CASE Crash \/ Boot \/ Tick \/ NetChanges \/ Sync
  BY <1>7 DEF Crash, Boot, Tick, NetChanges, Sync, books, past
<1> QED
  BY <1>1, <1>2, <1>3, <1>4, <1>5, <1>6, <1>7 DEF Next, RetryRun, TeamRun, BootRun

LEMMA CursorStays ==
    ASSUME CursorInv, here \cup overlooked \subseteq here' \cup overlooked',
           UNCHANGED <<cursor, team>>, pull'["team"] = pull["team"]
    PROVE  TeamTrue' /\ CursorIsTrue'
  BY DEF CursorInv, TeamTrue, CursorIsTrue

LEMMA NextCursor == CursorInv /\ [Next]_vars => TeamTrue' /\ CursorIsTrue'
<1> SUFFICES ASSUME CursorInv, [Next]_vars PROVE TeamTrue' /\ CursorIsTrue'
  OBVIOUS
<1>0. /\ TypeOK /\ RunsAgree /\ TeamTrue /\ CursorIsTrue
      /\ here \cup overlooked \subseteq here' \cup overlooked'
  BY SeenStays DEF CursorInv
<1>a. cursor' = cursor => CursorIsTrue'
  BY <1>0 DEF CursorIsTrue
<1>1. CASE UNCHANGED vars
  BY <1>0, <1>1, CursorStays DEF vars, runs
<1>2. ASSUME NEW f \in File, Land(f) \/ Miss(f) PROVE TeamTrue' /\ CursorIsTrue'
  <2>1. PICK failed \in BOOLEAN : /\ Answer(f, failed)
                                  /\ failed \/ f \in here'
    BY <1>2 DEF Land, Miss
  <2>2. cursor' = cursor /\ team' = team
    BY <1>2 DEF Land, Miss
  <2>3. CASE pull["team"] = None
    BY <1>0, <2>1, <2>2, <2>3, AnswerTypes, CursorStays DEF Caller
  <2>4. CASE pull["team"] # None
    <3>1. /\ pull'["team"] # None
          /\ pull'["team"].repo = pull["team"].repo
          /\ pull'["team"].wait = pull["team"].wait \ {f}
          /\ pull["team"].failed => pull'["team"].failed
          /\ f \in pull["team"].wait => pull'["team"].failed \/ f \in here'
      BY <1>0, <2>1, <2>4, AnswerTypes DEF Caller
    <3> QED
      BY <1>0, <1>a, <2>2, <2>4, <3>1 DEF TeamTrue
  <2> QED
    BY <2>3, <2>4
<1>3. ASSUME NEW f \in File, PinPass(f) PROVE TeamTrue' /\ CursorIsTrue'
  BY <1>0, <1>3, CursorStays DEF PinPass, runs
<1>4. ASSUME NEW r \in Repo, Click(r) PROVE TeamTrue' /\ CursorIsTrue'
  <2>1. pull'["team"] = pull["team"]
    BY <1>0, <1>4 DEF Click, Begin, TypeOK, Caller
  <2> QED
    BY <1>0, <1>4, <2>1, CursorStays DEF Click
<1>5. CASE ClickEnds \/ RetryFires \/ RetryAsks \/ RetryPulled \/ RetryEnds
  <2>1. pull'["team"] = pull["team"]
    BY <1>0, <1>5 DEF ClickEnds, RetryFires, RetryAsks, RetryPulled, RetryEnds, TypeOK, Caller
  <2> QED
    BY <1>0, <1>5, <2>1, CursorStays DEF ClickEnds, RetryFires, RetryAsks, RetryPulled, RetryEnds
<1>6. ASSUME NEW r \in Repo, RetryLooks(r) PROVE TeamTrue' /\ CursorIsTrue'
  <2>1. pull'["team"] = pull["team"]
    BY <1>0, <1>6 DEF RetryLooks, Begin, TypeOK, Caller
  <2> QED
    BY <1>0, <1>6, <2>1, CursorStays DEF RetryLooks
<1>7. CASE TeamStarts
  <2>1. team'.left = Repo /\ pull' = pull
    BY <1>7 DEF TeamStarts
  <2>2. pull["team"] = None
    BY <1>0, <1>7 DEF TeamStarts, RunsAgree
  <2> QED
    BY <1>0, <1>a, <1>7, <2>1, <2>2, RepoAssumption, TeamAssumption DEF TeamStarts, TeamTrue
<1>8. CASE TeamPulled
  <2>1. pull'["team"] = None /\ cursor' = cursor
    BY <1>0, <1>8 DEF TeamPulled, TypeOK, Caller
  <2>2. pull["team"] # None /\ pull["team"].wait = {} /\ team # None
    BY <1>0, <1>8 DEF TeamPulled, Over, RunsAgree
  <2> QED
    BY <1>0, <1>a, <1>8, <2>1, <2>2, TeamGoesOn DEF TeamTrue
<1>9. CASE TeamEnds
  <2>1. team' = None
    BY <1>9 DEF TeamEnds
  <2>2. cursor' # cursor => ~team.failed /\ ~team.deferred /\ cursor' = team.head
    BY <1>9 DEF TeamEnds
  <2> QED
    BY <1>0, <1>a, <1>9, <2>1, <2>2 DEF TeamEnds, TeamTrue, CursorIsTrue
<1>10. ASSUME NEW r \in Repo, TeamLooks(r) PROVE TeamTrue' /\ CursorIsTrue'
  <2>1. /\ team # None /\ r \in team.left /\ pull["team"] = None
        /\ cursor' = cursor /\ here' = here
    BY <1>10 DEF TeamLooks, books
  <2>2. ASSUME overlooked' = overlooked \cup (Agreed \cap (Hidden(r) \cup Unfolded(r))),
               NEW f \in Agreed, Arrives[f] <= team.head, RepoOf[f] = r
        PROVE  f \in here' \cup overlooked' \/ f \in Pending(r)
    <3>1. f \in File
      BY TeamAssumption
    <3>2. CASE f \in Listed
      BY <2>1, <2>2, <3>1, <3>2 DEF Wanted, Missing, FilesOf, Hidden, Pending
    <3>3. CASE f \notin Listed
      BY <2>1, <2>2, <3>1, <3>3 DEF FilesOf, Unfolded
    <3> QED
      BY <3>2, <3>3
  <2>3. CASE /\ Begin("team", r, Pending(r)) /\ UNCHANGED team
             /\ overlooked' = overlooked \cup (Agreed \cap (Hidden(r) \cup Unfolded(r)))
    <3>1. /\ pull'["team"] # None
          /\ pull'["team"].repo = r /\ pull'["team"].wait = Pending(r)
      BY <1>0, <2>3, BeginTypes, PendingFiles, NoRecordIsNone DEF Begin, TypeOK, Caller
    <3> QED
      BY <1>0, <1>a, <2>1, <2>2, <2>3, <3>1 DEF TeamTrue
  <2>4. CASE /\ TeamLeaves(r) /\ UNCHANGED pull
             /\ \/ team' = [team EXCEPT !.left = @ \ {r}, !.deferred = TRUE]
                \/ team' = [team EXCEPT !.left = @ \ {r}, !.failed = TRUE]
                \/ /\ Pending(r) = {}
                   /\ overlooked' = overlooked \cup (Agreed \cap (Hidden(r) \cup Unfolded(r)))
    <3>1. /\ team'.left = team.left \ {r} /\ team'.head = team.head
          /\ (team.failed => team'.failed) /\ (team.deferred => team'.deferred)
      BY <1>0, <2>1, <2>4, TeamGoesOn
    <3>2. CASE \/ team' = [team EXCEPT !.left = @ \ {r}, !.deferred = TRUE]
               \/ team' = [team EXCEPT !.left = @ \ {r}, !.failed = TRUE]
      <4>1. team \in Team
        BY <1>0, <2>1 DEF TypeOK
      <4>2. team'.deferred \/ team'.failed
        BY <3>2, <4>1 DEF Team
      <4> QED
        BY <1>a, <2>1, <4>2 DEF TeamTrue
    <3>3. CASE /\ Pending(r) = {}
               /\ overlooked' = overlooked \cup (Agreed \cap (Hidden(r) \cup Unfolded(r)))
      BY <1>0, <1>a, <2>1, <2>2, <2>4, <3>1, <3>3 DEF TeamTrue
    <3> QED
      BY <2>4, <3>2, <3>3
  <2> QED
    BY <1>10, <2>3, <2>4 DEF TeamLooks, TeamLeaves
<1>11. CASE Crash
  BY <1>a, <1>11 DEF Crash, TeamTrue
<1>12. CASE Boot \/ Tick \/ NetChanges \/ Sync \/ \E r \in Repo : Fold(r)
  BY <1>0, <1>12, CursorStays DEF Boot, Tick, NetChanges, Sync, Fold, runs
<1>13. ASSUME NEW r \in Repo, BootLooks(r) PROVE TeamTrue' /\ CursorIsTrue'
  BY <1>0, <1>13, CursorStays DEF BootLooks, runs
<1> QED
  BY <1>1, <1>2, <1>3, <1>4, <1>5, <1>6, <1>7, <1>8, <1>9, <1>10, <1>11, <1>12, <1>13
     DEF Next, RetryRun, TeamRun, BootRun

LEMMA InitCursor == Init => CursorInv
<1> SUFFICES ASSUME Init PROVE CursorInv
  OBVIOUS
<1>1. TypeOK /\ RunsAgree /\ TeamTrue
  BY InitAgrees DEF Init, TeamTrue
<1>2. CursorIsTrue
  BY TeamAssumption DEF Init, CursorIsTrue
<1> QED
  BY <1>1, <1>2 DEF CursorInv

LEMMA CursorInvariant == Spec => []CursorInv
<1>1. CursorInv /\ [Next]_vars => CursorInv'
  BY NextTypes, NextAgrees, NextCursor DEF CursorInv
<1> QED
  BY InitCursor, <1>1, PTL DEF Spec

\* The cursor of the team pass never goes by a file that the team decided on and that
\* has not come, however pulls fail, whoever else moves HEAD and whenever the backend
\* dies.  Two exceptions are the code's: the node listed no pins when the pass looked, or
\* the manifest did not list the file yet.
THEOREM CursorTellsTheTruth == Spec => []CursorIsTrue
  BY CursorInvariant, PTL DEF CursorInv

-----------------------------------------------------------------------------
(* The retry.                                                                 *)

LEMMA WantedGrows == TypeOK /\ RunsAgree /\ [Next]_vars => Wanted \subseteq Wanted'
<1> SUFFICES ASSUME TypeOK, RunsAgree, [Next]_vars PROVE Wanted \subseteq Wanted'
  OBVIOUS
<1>1. clicked \subseteq clicked' /\ \A r \in Repo : folded[r] <= folded'[r]
  <2>0. \A r \in Repo : folded[r] \in Nat
    BY DEF TypeOK
  <2>1. CASE UNCHANGED vars
    BY <2>0, <2>1 DEF vars, books
  <2>2. ASSUME NEW f \in File, Land(f) \/ Miss(f) \/ PinPass(f)
        PROVE  UNCHANGED <<folded, clicked>>
    BY <2>2 DEF Land, Miss, PinPass, books
  <2>3. ASSUME NEW r \in Repo, RetryLooks(r) \/ TeamLooks(r) \/ BootLooks(r)
        PROVE  UNCHANGED <<folded, clicked>>
    BY <2>3, LookTypes DEF books
  <2>4. ASSUME NEW r \in Repo, Click(r) PROVE folded' = folded /\ clicked \subseteq clicked'
    BY <2>4 DEF Click
  <2>5. CASE \/ RetryFires \/ RetryAsks \/ RetryPulled \/ RetryEnds \/ ClickEnds \/ TeamPulled
             \/ TeamStarts \/ TeamEnds \/ Crash \/ Boot \/ Tick \/ NetChanges \/ Sync
    BY <2>0, <2>5 DEF RetryFires, RetryAsks, RetryPulled, RetryEnds, ClickEnds, TeamPulled,
                TeamStarts, TeamEnds, Crash, Boot, Tick, NetChanges, Sync, books
  <2>6. ASSUME NEW r \in Repo, Fold(r)
        PROVE  clicked' = clicked /\ \A x \in Repo : folded[x] <= folded'[x]
    BY <2>0, <2>6 DEF Fold, TypeOK
  <2> QED
    BY <2>0, <2>1, <2>2, <2>3, <2>4, <2>5, <2>6 DEF Next, RetryRun, TeamRun, BootRun
<1>2. \A f \in Listed : f \in Listed'
  <2> SUFFICES ASSUME NEW f \in Listed PROVE f \in Listed'
    OBVIOUS
  <2>1. PICK r \in Repo : r = RepoOf[f]
    BY RepoAssumption DEF Listed
  <2>2. folded[r] \in Nat /\ folded'[r] \in Nat /\ folded[r] <= folded'[r] /\ Arrives[f] \in Nat
    BY <1>1, NextTypes, TeamAssumption DEF TypeOK, Listed
  <2> QED
    BY <2>1, <2>2 DEF Listed
<1> QED
  BY <1>1, <1>2 DEF Wanted

\* Nothing tried is left in a repository where nothing was found to be missing.
LEMMA LookForgets ==
    ASSUME TriedWanted, NEW r \in Repo
    PROVE  /\ \A f \in tried : RepoOf[f] = r => f \in Missing(r)
           /\ \A f \in tried \ Hidden(r) : RepoOf[f] = r => f \in Pending(r)
  BY DEF TriedWanted, Missing, Hidden, Pending, FilesOf, Wanted, Listed

LEMMA NextWanted == StandInv /\ [Next]_vars => TriedWanted' /\ WaitsWanted'
<1> SUFFICES ASSUME StandInv, [Next]_vars PROVE TriedWanted' /\ WaitsWanted'
  OBVIOUS
<1>0. /\ TypeOK /\ RunsAgree /\ TriedWanted /\ WaitsWanted
      /\ Wanted \subseteq Wanted'
  BY WantedGrows DEF StandInv
<1>1. pull' = pull => WaitsWanted'
  BY <1>0 DEF WaitsWanted
<1>2. UNCHANGED <<tried, here>> => TriedWanted'
  BY <1>0 DEF TriedWanted
<1>3. ASSUME NEW c \in Caller, pull' = [pull EXCEPT ![c] = None] PROVE WaitsWanted'
  BY <1>0, <1>3 DEF WaitsWanted, TypeOK
<1>4. ASSUME NEW c \in Caller, NEW r \in Repo, NEW files \in SUBSET Wanted', Begin(c, r, files)
      PROVE  WaitsWanted'
  BY <1>0, <1>4 DEF WaitsWanted, TypeOK, Begin
<1>5. CASE UNCHANGED vars
  BY <1>1, <1>2, <1>5 DEF vars, books, runs, past
<1>6. ASSUME NEW f \in File, Land(f) \/ Miss(f) PROVE TriedWanted' /\ WaitsWanted'
  <2>1. PICK failed \in BOOLEAN : Answer(f, failed)
    BY <1>6 DEF Land, Miss
  <2>2. WaitsWanted'
    BY <1>0, <2>1, AnswerTypes DEF WaitsWanted
  <2>3. f \in Wanted
    BY <1>0, <1>6 DEF Land, Miss, Waited, WaitsWanted
  <2> QED
    BY <1>0, <1>6, <2>2, <2>3 DEF Land, Miss, TriedWanted, books
<1>7. ASSUME NEW f \in File, PinPass(f) PROVE TriedWanted' /\ WaitsWanted'
  BY <1>0, <1>1, <1>7 DEF PinPass, TriedWanted, runs
<1>8. ASSUME NEW r \in Repo, Click(r) PROVE TriedWanted' /\ WaitsWanted'
  <2>1. PICK files \in (SUBSET ((Listed \cap FilesOf(r)) \ here)) \ {{}} :
          clicked' = clicked \cup (files \ Agreed) /\ Begin("click", r, files)
    BY <1>8 DEF Click
  <2>2. files \in SUBSET Wanted'
    BY <1>8, <2>1 DEF Click, Wanted, Listed
  <2> QED
    BY <1>2, <1>4, <1>8, <2>1, <2>2 DEF Click, Caller, past
<1>9. CASE ClickEnds \/ RetryPulled \/ TeamPulled
  BY <1>2, <1>3, <1>9 DEF ClickEnds, RetryPulled, TeamPulled, Caller, books, past
<1>10. CASE RetryFires \/ RetryAsks \/ RetryEnds \/ TeamEnds \/ Boot \/ Tick \/ NetChanges
  BY <1>1, <1>2, <1>10 DEF RetryFires, RetryAsks, RetryEnds, TeamEnds, Boot, Tick, NetChanges,
     books, runs, past
<1>11. CASE TeamStarts \/ Sync \/ \E r \in Repo : Fold(r)
  BY <1>1, <1>2, <1>11 DEF TeamStarts, Sync, Fold, books, runs, past
<1>12. CASE Crash
  BY <1>2, <1>12 DEF Crash, WaitsWanted, books, past
<1>13. ASSUME NEW r \in Repo, RetryLooks(r) \/ TeamLooks(r) \/ BootLooks(r)
       PROVE  TriedWanted' /\ WaitsWanted'
  <2>1. tried' \subseteq tried /\ here' = here
    BY <1>0, <1>13, LookTypes DEF books
  <2>2. Pending(r) \in SUBSET Wanted'
    BY <1>0 DEF Pending, Missing
  <2>3. \/ pull' = pull
        \/ Begin("retry", r, Pending(r)) \/ Begin("team", r, Pending(r))
    BY <1>13 DEF RetryLooks, TeamLooks, BootLooks, runs
  <2> QED
    BY <1>0, <1>1, <1>4, <2>1, <2>2, <2>3 DEF TriedWanted, Caller
<1> QED
  BY <1>5, <1>6, <1>7, <1>8, <1>9, <1>10, <1>11, <1>12, <1>13 DEF Next, RetryRun, TeamRun, BootRun

LEMMA NextPhases ==
    ASSUME "slow" \notin Faults, StandInv, [Next]_vars
    PROVE  Phases'
<1>0. TypeOK /\ RunsAgree /\ Phases
  BY DEF StandInv
<1>1. CASE UNCHANGED vars
  BY <1>0, <1>1 DEF vars, process, clock, runs, Phases
<1>2. ASSUME NEW f \in File, Land(f) \/ Miss(f) PROVE Phases'
  <2>1. PICK failed \in BOOLEAN : Answer(f, failed)
    BY <1>2 DEF Land, Miss
  <2>2. up
    BY <1>0, <1>2 DEF Land, Miss, Waited, Phases
  <2> QED
    BY <1>0, <1>2, <2>2 DEF Land, Miss, process, clock, Phases
<1>3. ASSUME NEW f \in File, PinPass(f) PROVE Phases'
  BY <1>0, <1>3 DEF PinPass, process, clock, runs, Phases
<1>4. ASSUME NEW r \in Repo, Click(r) PROVE Phases'
  BY <1>0, <1>4 DEF Click, process, clock, Phases
<1>5. CASE ClickEnds \/ TeamEnds
  <2>1. up
    BY <1>0, <1>5 DEF ClickEnds, TeamEnds, Over, Phases, Caller
  <2>2. timer' = timer \/ timer' = Wait
    BY <1>5 DEF ClickEnds, TeamEnds, Schedule, Arm, clock
  <2> QED
    BY <1>0, <1>5, <2>1, <2>2, TimeAssumption DEF ClickEnds, TeamEnds, process, Phases
<1>6. CASE RetryFires
  <2>1. up /\ boot = {}
    BY <1>0, <1>6, NoRecordIsNone DEF RetryFires, Phases
  <2> QED
    BY <1>0, <1>6, <2>1, NoRecordIsNone DEF RetryFires, process, Phases
<1>7. CASE RetryAsks \/ RetryPulled \/ TeamPulled
  <2>1. /\ RetryAsks \/ RetryPulled => retry # None
        /\ TeamPulled => team # None /\ retry' = retry
        /\ UNCHANGED <<up, boot, timer>>
    BY <1>0, <1>7 DEF RetryAsks, RetryPulled, TeamPulled, Over, RunsAgree, process, clock
  <2> QED
    BY <1>0, <1>7, <2>1 DEF Phases
<1>8. CASE RetryEnds
  <2>1. timer' = timer \/ timer' = Wait
    BY <1>8 DEF RetryEnds, Schedule, Arm, ClearSchedule, clock
  <2> QED
    BY <1>0, <1>8, <2>1, TimeAssumption DEF RetryEnds, process, Phases
<1>9. ASSUME NEW r \in Repo, RetryLooks(r) \/ TeamLooks(r) PROVE Phases'
  BY <1>0, <1>9 DEF RetryLooks, TeamLooks, process, clock, Phases
<1>10. CASE TeamStarts
  BY <1>0, <1>10 DEF TeamStarts, process, clock, Phases
<1>11. CASE Crash
  BY <1>11, NoRecordIsNone DEF Crash, Phases
<1>12. CASE Boot
  BY <1>0, <1>12, NoRecordIsNone DEF Boot, clock, runs, Phases
<1>13. ASSUME NEW r \in Repo, BootLooks(r) PROVE Phases'
  <2>1. retry = None /\ up /\ timer # 0
    BY <1>0, <1>13 DEF BootLooks, Phases
  <2>2. boot' # {} => timer' = timer
    BY <1>13 DEF BootLooks, clock
  <2> QED
    BY <1>0, <1>13, <2>1, <2>2 DEF BootLooks, runs, Phases
<1>14. CASE Tick
  <2>1. boot = {} /\ boot' = {} /\ up' = up /\ retry' = retry /\ team' = team /\ pull' = pull
    BY <1>14 DEF Tick, runs
  <2>2. timer' = None <=> timer = None
    BY <1>0, <1>14, NoRecordIsNone DEF Tick, Less, TypeOK, Ticks
  <2>3. timer' = 0 => retry = None
    BY <1>0, <1>14, NoRecordIsNone DEF Tick, Less, TypeOK, Ticks
  <2> QED
    BY <1>0, <2>1, <2>2, <2>3 DEF Phases
<1>15. CASE NetChanges \/ Sync \/ \E r \in Repo : Fold(r)
  BY <1>0, <1>15 DEF NetChanges, Sync, Fold, process, clock, runs, Phases
<1> QED
  BY <1>1, <1>2, <1>3, <1>4, <1>5, <1>6, <1>7, <1>8, <1>9, <1>10, <1>11, <1>12, <1>13, <1>14, <1>15
     DEF Next, RetryRun, TeamRun, BootRun

\* A step that keeps who is armed and who will look keeps the promise.
LEMMA StoodStays ==
    ASSUME StandInv, up' => up, tried' \subseteq tried, Armed => Armed',
           \A f \in tried' : WillLook(f) => WillLook(f)' \/ Armed'
    PROVE  Stood'
  BY DEF StandInv, Stood

LEMMA CoversStays ==
    ASSUME StandInv, tried' \subseteq tried, Armed => Armed', pull'["retry"] = pull["retry"]
    PROVE  RetryCovers'
  BY DEF StandInv, RetryCovers

LEMMA TimerStands == timer' # None => Stood' /\ RetryCovers'
  BY DEF Stood, RetryCovers, Armed

LEMMA NextStood ==
    ASSUME "slow" \notin Faults, StandInv, [Next]_vars
    PROVE  Stood' /\ RetryCovers'
<1>0. /\ TypeOK /\ RunsAgree /\ TriedWanted /\ WaitsWanted /\ Phases /\ Stood /\ RetryCovers
      /\ \A f \in tried : RepoOf[f] \in Repo
  BY RepoAssumption DEF StandInv, TypeOK
<1>1. CASE UNCHANGED vars
  BY <1>0, <1>1 DEF vars, process, clock, runs, past, Stood, RetryCovers, Armed, WillLook
<1>2. ASSUME NEW f \in File, Land(f) PROVE Stood' /\ RetryCovers'
  <2>1. Answer(f, FALSE) /\ tried' = tried \ {f} /\ UNCHANGED <<up, boot, timer, retry, team>>
    BY <1>2 DEF Land, process, clock
  <2>2. Armed => Armed'
    BY <1>0, <2>1, AnswerTypes DEF Armed
  <2>3. Stood'
    BY <2>1, <2>2, StoodStays DEF WillLook
  <2>4. pull'["retry"] # None =>
          /\ pull["retry"] # None /\ pull'["retry"].repo = pull["retry"].repo
          /\ pull'["retry"].wait = pull["retry"].wait \ {f}
    BY <1>0, <2>1, AnswerTypes DEF Caller
  <2>5. RetryCovers'
    BY <1>0, <2>1, <2>2, <2>4 DEF RetryCovers
  <2> QED
    BY <2>3, <2>5
<1>3. ASSUME NEW f \in File, Miss(f) PROVE Stood' /\ RetryCovers'
  <2>1. PICK c \in Caller : pull[c] # None /\ f \in pull[c].wait
    BY <1>3 DEF Miss, Waited
  <2>2. Answer(f, TRUE)
    BY <1>3 DEF Miss
  <2>3. pull'[c] # None /\ pull'[c].failed
    BY <1>0, <2>1, <2>2, AnswerTypes
  <2> QED
    BY <2>3 DEF Stood, RetryCovers, Armed
<1>4. ASSUME NEW f \in File, PinPass(f) PROVE Stood' /\ RetryCovers'
  BY <1>0, <1>4, StoodStays, CoversStays DEF PinPass, process, clock, runs, Armed, WillLook
<1>5. ASSUME NEW r \in Repo, Click(r) PROVE Stood' /\ RetryCovers'
  <2>1. /\ \A c \in Caller : c # "click" => pull'[c] = pull[c]
        /\ pull["click"] = None /\ UNCHANGED <<tried, up, boot, timer, retry, team>>
    BY <1>0, <1>5 DEF Click, Begin, TypeOK, process, clock, past
  <2>2. Armed => Armed'
    BY <2>1 DEF Armed
  <2> QED
    BY <2>1, <2>2, StoodStays, CoversStays DEF WillLook, Caller
<1>6. CASE ClickEnds
  <2>1. CASE pull["click"].failed
    BY <1>0, <1>6, <2>1, ScheduledTypes, TimerStands DEF ClickEnds
  <2>2. CASE ~pull["click"].failed
    <3>1. /\ \A c \in Caller : c # "click" => pull'[c] = pull[c]
          /\ UNCHANGED <<tried, up, boot, timer, retry, team>>
      BY <1>0, <1>6, <2>2 DEF ClickEnds, TypeOK, process, clock, past
    <3>2. Armed => Armed'
      BY <2>2, <3>1 DEF Armed
    <3> QED
      BY <3>1, <3>2, StoodStays, CoversStays DEF WillLook, Caller
  <2> QED
    BY <2>1, <2>2
<1>7. CASE RetryFires
  <2>1. pull' = pull /\ retry = None /\ pull["retry"] = None /\ tried' = tried
    BY <1>0, <1>7 DEF RetryFires, Phases, RunsAgree, past
  <2>2. retry' # None /\ retry'.left = Repo
    BY <1>7, <2>1, NoRecordIsNone DEF RetryFires, Retry
  <2> QED
    BY <1>0, <2>1, <2>2 DEF Stood, RetryCovers, WillLook
<1>8. CASE RetryAsks
  <2>1. /\ UNCHANGED <<tried, up, boot, timer, pull, team>> /\ pull["retry"] = None
        /\ retry \in Retry
    BY <1>0, <1>8 DEF RetryAsks, RunsAgree, TypeOK, process, clock, past
  <2>2. /\ retry' \in Retry
        /\ retry.still => retry'.still
        /\ retry'.still \/ retry'.left = retry.left
    <3>1. CASE net = "down"
      <4>1. retry' = [left |-> {}, still |-> TRUE, asked |-> TRUE]
        BY <1>8, <3>1 DEF RetryAsks
      <4>2. retry' \in Retry
        BY <4>1 DEF Retry
      <4>3. retry'.still
        BY <4>1
      <4> QED
        BY <4>2, <4>3
    <3>2. CASE net # "down"
      BY <1>8, <2>1, <3>2 DEF RetryAsks, Retry
    <3> QED
      BY <3>1, <3>2
  <2>3. Armed => Armed'
    BY <2>1 DEF Armed
  <2> QED
    BY <2>1, <2>2, <2>3, NoRecordIsNone, StoodStays DEF WillLook, RetryCovers
<1>9. ASSUME NEW r \in Repo, RetryLooks(r) PROVE Stood' /\ RetryCovers'
  <2>1. /\ UNCHANGED <<up, boot, timer, team>> /\ retry # None /\ pull["retry"] = None
        /\ tried' \subseteq tried
    BY <1>0, <1>9, LookTypes DEF RetryLooks, process, clock
  <2>2. CASE /\ Pending(r) # {} /\ Begin("retry", r, Pending(r)) /\ retry' = retry
             /\ tried' = tried \ Hidden(r)
    <3>1. /\ \A c \in Caller : c # "retry" => pull'[c] = pull[c]
          /\ pull'["retry"].repo = r /\ pull'["retry"].wait = Pending(r)
      BY <1>0, <2>2 DEF Begin, TypeOK, Caller
    <3>2. Armed => Armed'
      BY <2>1, <3>1 DEF Armed
    <3>3. Stood'
      BY <2>1, <2>2, <3>2, StoodStays DEF WillLook
    <3>4. RetryCovers'
      BY <1>0, <2>2, <3>1, LookForgets DEF RetryCovers
    <3> QED
      BY <3>3, <3>4
  <2>3. CASE RetryLeaves(r) /\ pull' = pull
    <3>1. /\ retry \in Retry /\ retry' # None /\ retry'.left = retry.left \ {r}
          /\ retry.still => retry'.still
      BY <1>0, <2>1, <2>3, RetryGoesOn, NoRecordIsNone
    <3>2. Armed => Armed'
      BY <2>1, <2>3 DEF Armed
    <3>3. retry'.still \/ \A f \in tried' : RepoOf[f] # r
      <4>1. CASE retry' = [retry EXCEPT !.left = @ \ {r}, !.still = TRUE]
        BY <3>1, <4>1 DEF Retry
      <4>2. CASE Pending(r) = {} /\ tried' = tried \ Hidden(r)
        BY <1>0, <4>2, LookForgets
      <4>3. CASE tried' = tried \ Missing(r)
        BY <1>0, <4>3, LookForgets
      <4>4. CASE Pending(r) # {} /\ Begin("retry", r, Pending(r))
        BY <1>0, <2>1, <2>3, <4>4, BeginTypes, PendingFiles, NoRecordIsNone DEF Caller
      <4> QED
        BY <1>9, <4>1, <4>2, <4>3, <4>4 DEF RetryLooks
    <3> QED
      BY <2>1, <2>3, <3>1, <3>2, <3>3, StoodStays DEF WillLook, RetryCovers
  <2> QED
    BY <1>9, <2>2, <2>3 DEF RetryLooks, RetryLeaves
<1>10. CASE RetryPulled
  <2>1. /\ UNCHANGED <<tried, up, boot, timer, team>>
        /\ pull["retry"] # None /\ pull["retry"].wait = {}
        /\ \A c \in Caller : c # "retry" => pull'[c] = pull[c]
        /\ pull'["retry"] = None
    BY <1>0, <1>10 DEF RetryPulled, Over, TypeOK, process, clock, past, Caller
  <2>2. /\ retry' # None /\ retry'.left = retry.left \ {pull["retry"].repo}
        /\ retry'.still = (retry.still \/ pull["retry"].failed)
    BY <1>0, <1>10, RetryGoesOn, NoRecordIsNone
  <2>3. RetryCovers'
    BY <2>1 DEF RetryCovers
  <2>4. CASE pull["retry"].failed
    BY <2>1, <2>2, <2>3, <2>4 DEF Stood, WillLook
  <2>5. CASE ~pull["retry"].failed
    <3>1. Armed => Armed'
      BY <2>1, <2>5 DEF Armed
    <3>2. \A f \in tried' : WillLook(f) => WillLook(f)' \/ Armed'
      BY <1>0, <2>1, <2>2, <3>1 DEF WillLook, RetryCovers
    <3> QED
      BY <2>1, <2>3, <3>1, <3>2, StoodStays
  <2> QED
    BY <2>4, <2>5
<1>11. CASE RetryEnds
  <2>1. CASE retry.still
    BY <1>0, <1>11, <2>1, ScheduledTypes, TimerStands DEF RetryEnds
  <2>2. CASE ~retry.still
    <3>1. /\ UNCHANGED <<tried, up, boot, timer, pull, team>> /\ pull["retry"] = None
          /\ boot = {} /\ retry.left = {}
      BY <1>0, <1>11, <2>2 DEF RetryEnds, ClearSchedule, Phases, process, past
    <3>2. (Armed => Armed') /\ \A f \in tried : ~WillLook(f)
      BY <2>2, <3>1 DEF Armed, WillLook
    <3> QED
      BY <3>1, <3>2, StoodStays, CoversStays
  <2> QED
    BY <2>1, <2>2
<1>12. CASE TeamStarts
  BY <1>0, <1>12, StoodStays, CoversStays DEF TeamStarts, process, clock, past, Armed, WillLook
<1>13. CASE TeamPulled
  <2>1. /\ UNCHANGED <<tried, up, boot, timer, retry>>
        /\ \A c \in Caller : c # "team" => pull'[c] = pull[c]
    BY <1>0, <1>13 DEF TeamPulled, TypeOK, process, clock, past
  <2>2. Armed => Armed'
    BY <1>0, <1>13, <2>1, TeamGoesOn, NoRecordIsNone DEF Armed
  <2> QED
    BY <2>1, <2>2, StoodStays, CoversStays DEF WillLook, Caller
<1>14. CASE TeamEnds
  <2>1. CASE team.failed
    BY <1>0, <1>14, <2>1, ScheduledTypes, TimerStands DEF TeamEnds
  <2>2. CASE ~team.failed
    BY <1>0, <1>14, <2>2, StoodStays, CoversStays DEF TeamEnds, process, clock, past, Armed, WillLook
  <2> QED
    BY <2>1, <2>2
<1>15. ASSUME NEW r \in Repo, TeamLooks(r) PROVE Stood' /\ RetryCovers'
  <2>1. /\ UNCHANGED <<up, boot, timer, retry>> /\ team # None /\ pull["team"] = None
        /\ tried' \subseteq tried
    BY <1>0, <1>15, LookTypes DEF TeamLooks, process, clock
  <2>2. \A c \in Caller : c # "team" => pull'[c] = pull[c]
    BY <1>0, <1>15 DEF TeamLooks, Begin, TypeOK
  <2>3. team.failed => team' # None /\ team'.failed
    BY <1>0, <1>15, TeamGoesOn, NoRecordIsNone DEF TeamLooks, TeamLeaves
  <2>4. Armed => Armed'
    BY <2>1, <2>2, <2>3 DEF Armed
  <2> QED
    BY <2>1, <2>2, <2>4, StoodStays, CoversStays DEF WillLook, Caller
<1>16. CASE Crash
  BY <1>16 DEF Crash, Stood, RetryCovers, Caller
<1>17. CASE Boot
  <2>1. tried' = tried /\ boot' = Repo /\ pull'["retry"] = None
    BY <1>0, <1>17 DEF Boot, Phases, runs, past, Caller
  <2> QED
    BY <1>0, <2>1 DEF Stood, RetryCovers, WillLook
<1>18. ASSUME NEW r \in Repo, BootLooks(r) PROVE Stood' /\ RetryCovers'
  <2>1. CASE Resume
    BY <1>0, <2>1, ResumeTypes, TimerStands
  <2>2. CASE Pending(r) = {} /\ boot' = boot \ {r} /\ timer' = timer
    <3>1. UNCHANGED <<up, pull, retry, team>> /\ tried' = tried \ Hidden(r)
      BY <1>18 DEF BootLooks, runs
    <3>2. tried' \subseteq tried /\ \A f \in tried' : RepoOf[f] # r
      BY <1>0, <2>2, <3>1, LookForgets
    <3> QED
      BY <2>2, <3>1, <3>2, StoodStays, CoversStays DEF Armed, WillLook
  <2> QED
    BY <1>18, <2>1, <2>2 DEF BootLooks, ClearSchedule, clock
<1>19. CASE Tick
  <2>1. UNCHANGED <<tried, up, boot, pull, retry, team>>
    BY <1>19 DEF Tick, runs, past
  <2>2. timer # None => timer' # None
    BY <1>0, <1>19, NoRecordIsNone DEF Tick, Less, TypeOK, Ticks
  <2> QED
    BY <2>1, <2>2, StoodStays, CoversStays DEF Armed, WillLook
<1>20. CASE NetChanges \/ Sync \/ \E r \in Repo : Fold(r)
  BY <1>20, StoodStays, CoversStays
     DEF NetChanges, Sync, Fold, process, clock, runs, past, Armed, WillLook
<1> QED
  BY <1>1, <1>2, <1>3, <1>4, <1>5, <1>6, <1>7, <1>8, <1>9, <1>10, <1>11, <1>12, <1>13, <1>14, <1>15,
     <1>16, <1>17, <1>18, <1>19, <1>20 DEF Next, RetryRun, TeamRun, BootRun

LEMMA InitStands == Init => StandInv
<1> SUFFICES ASSUME Init PROVE StandInv
  OBVIOUS
<1>1. TypeOK /\ RunsAgree
  BY InitAgrees
<1>2. TriedWanted /\ WaitsWanted /\ Stood /\ RetryCovers
  BY DEF Init, TriedWanted, WaitsWanted, Stood, RetryCovers, Caller
<1>3. Phases
  BY NoRecordIsNone DEF Init, Phases
<1> QED
  BY <1>1, <1>2, <1>3 DEF StandInv

\* A decided file whose pull has failed is not forgotten, whatever fails and whenever the
\* backend dies, provided that no run of the retry outlasts RETRY_MS: a run that does
\* swallows the timer that fires meanwhile.
THEOREM RetryNeverForgets ==
    ASSUME "slow" \notin Faults
    PROVE  Spec => []RetryStandsBy
<1>1. StandInv /\ [Next]_vars => StandInv'
  BY NextTypes, NextAgrees, NextWanted, NextPhases, NextStood DEF StandInv
<1>2. StandInv => RetryStandsBy
  BY DEF StandInv, Stood, Owed, RetryStandsBy, Armed, WillLook
<1> QED
  BY InitStands, <1>1, <1>2, PTL DEF Spec

=============================================================================
