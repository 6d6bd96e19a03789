------------------------------ MODULE Deletions ------------------------------
(***************************************************************************)
(* The deletion of files on every computer of a fleet: the ledger of       *)
(* tombstones (pin/deletions-merge.ts, pin/deletions.service.ts), the two   *)
(* routes that say and lift a deletion (pin/deletions.router.ts), the       *)
(* interactive enforcement (pin/deletions-apply.service.ts), the pin pass   *)
(* that enforces first and adds and fetches after (runUnitPin in            *)
(* pin/pin.service.ts), the pull of single files (pullMissing), and the way *)
(* of a ledger to the other computers: mirrored and reconciled              *)
(* (storage/tracking-sync.service.ts), merged by git (git-merge-driver.ts). *)
(*                                                                         *)
(* One repository.  Two paths may hold the same content; a record knows its *)
(* content and finds it under every listed path, so one path has one        *)
(* identity.  Clocks agree: the stamp of an instruction is its number.  A   *)
(* step is what runs between two awaits that matter.                       *)
(***************************************************************************)
EXTENDS Naturals, FiniteSets

CONSTANTS
    Device, Path, Content,
    ContentOf,   \* [Path -> Content]
    Holders,     \* the devices that hold and have decided every file at first
    Nobody,      \* no device
    Actions,     \* the choices of a delete: [fleet, bytes, unpin : BOOLEAN]
    MaxInputs    \* bound: instructions of users, and crashes, failures, files
                 \* copied back, decided or pulled; one instruction more is
                 \* given when a user deletes again what another undeleted

ASSUME DataAssumption == ContentOf \in [Path -> Content] /\ Holders \subseteq Device
ASSUME NobodyAssumption == Nobody \notin Device
ASSUME ActionsAssumption == Actions \subseteq [fleet : BOOLEAN, bytes : BOOLEAN, unpin : BOOLEAN]
ASSUME BoundAssumption == MaxInputs \in Nat

VARIABLES
    ledger,    \* [Device -> Ledger]: deletions.yaml of its tracking directory
    origin,    \* Ledger: the one at the remote
    disk,      \* [Device -> SUBSET Path]
    pinset,    \* [Device -> SUBSET Content]
    listed,    \* SUBSET Path: the entries of the manifest
    marked,    \* SUBSET Path: those with state: removed
    want,      \* [Device -> SUBSET Path]: decided "sync"
    pass,      \* [Device -> Stages]: where its pin pass is
    snap,      \* [Device -> Ledger]: the ledger its pass read
    decided,   \* [Device -> SUBSET Path]: the decisions its pass read
    fetching,  \* [Device -> SUBSET Path]: fetches of its pass
    pulling,   \* [Device -> SUBSET Path]: pulls a user asked for
    enforcing, \* [Device -> SUBSET Ledger]: what each enforceNow in flight read
    said,      \* ghost: the instructions users gave
    events     \* bound counter

ledgers == <<ledger, origin>>
files   == <<disk, pinset, listed, marked, want>>
run     == <<pass, snap, decided, fetching>>
ghost   == <<said, events>>
vars    == <<ledgers, files, run, pulling, enforcing, ghost>>

\* A pass has reaped, and has receipts to write or not; else it fetches or is over.
Stages == {"idle", "writing", "adding"}

-----------------------------------------------------------------------------
(* The ledger.                                                              *)

\* bound: instructions, with the one of DeletedAgain.
MaxSaid == MaxInputs + 1

Time == 0 .. MaxSaid

Record == [removed : Time, undeleted : Time, on : Device \cup {Nobody},
           fleet : BOOLEAN, bytes : BOOLEAN, unpin : BOOLEAN,
           enforced : SUBSET Device]
Ledger == [Path -> Record]

NoRecord == [removed |-> 0, undeleted |-> 0, on |-> Nobody,
             fleet |-> FALSE, bytes |-> FALSE, unpin |-> FALSE, enforced |-> {}]
Empty == [k \in Path |-> NoRecord]

Later(s, t) == IF s > t THEN s ELSE t

\* Mutant: of two records of one identity the first is kept.
MergeRecordFirst(a, b) ==
    IF a.removed = 0 THEN b
    ELSE IF b.removed = 0 THEN a
    ELSE [a EXCEPT !.enforced = @ \cup b.enforced]

\* Mutant: a late undelete lifts the deletion said after it.
MergeRecordLifts(a, b) ==
    IF a.removed = 0 THEN b
    ELSE IF b.removed = 0 THEN a
    ELSE LET newer == IF b.removed > a.removed THEN b ELSE a
         IN  [newer EXCEPT !.undeleted = Later(a.undeleted, b.undeleted),
                           !.fleet = a.fleet \/ b.fleet,
                           !.bytes = a.bytes \/ b.bytes, !.unpin = a.unpin \/ b.unpin,
                           !.enforced = a.enforced \cup b.enforced]

\* mergeDeletions, for the records a and b of one identity: the later deletion,
\* the later undelete if it is later than that, the widest of the rest.
MergeRecord(a, b) ==
    IF a.removed = 0 THEN b
    ELSE IF b.removed = 0 THEN a
    ELSE LET newer == IF b.removed > a.removed THEN b ELSE a
             lift  == Later(a.undeleted, b.undeleted)
         IN  [removed   |-> newer.removed,
              undeleted |-> IF lift > newer.removed THEN lift ELSE 0,
              on        |-> newer.on,
              fleet     |-> a.fleet \/ b.fleet,
              bytes     |-> a.bytes \/ b.bytes,
              unpin     |-> a.unpin \/ b.unpin,
              enforced  |-> a.enforced \cup b.enforced]

Merge(mine, theirs) == [k \in Path |-> MergeRecord(mine[k], theirs[k])]

\* Mutant: a deletion said for one computer is enforced on the others.
LiveEverywhere(r, d) == r.removed # 0 /\ r.undeleted = 0

\* isLive
Live(r, d) == r.removed # 0 /\ r.undeleted = 0 /\ (r.fleet \/ r.on = d)

\* What the entry of path p is matched by: matchTombstone.
Matches(k, p) == ContentOf[k] = ContentOf[p]

Tombstoned(led, d, p) == \E k \in Path : Live(led[k], d) /\ Matches(k, p)

-----------------------------------------------------------------------------
(* What comes from outside is bounded.                                      *)

MayHappen == Cardinality(said) + events < MaxInputs

Event == MayHappen /\ events' = events + 1

\* The history in which an undelete is late: deleted, undeleted on another
\* computer, and deleted again for the fleet.
DeletedAgain(kind, d, act) ==
    /\ Cardinality(said) = MaxInputs /\ events = 0
    /\ kind = "delete" /\ act.fleet
    /\ \E u \in said : u.kind = "undelete" /\ u.by # d

-----------------------------------------------------------------------------
(* Enforcement: reap.                                                       *)

\* The paths a tombstone claims: the entries it matches, and its own path.
Claimed(k) == {p \in listed : Matches(k, p)} \cup {k}

\* Mutant: what this device has reported is not looked at again.
LiveKeysOnce(led, d) == {k \in Path : Live(led[k], d) /\ d \notin led[k].enforced}

LiveKeys(led, d) == {k \in Path : Live(led[k], d)}

Targets(led, d) == UNION {Claimed(k) \cap listed : k \in LiveKeys(led, d)}
Doomed(led, d)  == UNION {Claimed(k) \cap disk[d] : k \in {k \in LiveKeys(led, d) : led[k].bytes}}
Unpinned(led, d) ==
    {ContentOf[k] : k \in {k \in LiveKeys(led, d) : led[k].unpin}} \cap pinset[d]

\* Every live record gets the receipt of this device.
Receipts(led, d) ==
    [k \in Path |-> IF Live(led[k], d) THEN [led[k] EXCEPT !.enforced = @ \cup {d}] ELSE led[k]]

\* The bytes and the pins of d after a reap that failed for those of kept and held.
Reaped(led, d, kept, held) ==
    /\ disk' = [disk EXCEPT ![d] = (@ \ Doomed(led, d)) \cup kept]
    /\ pinset' = [pinset EXCEPT ![d] = (@ \ Unpinned(led, d)) \cup held]
    /\ IF kept = {} /\ held = {} THEN UNCHANGED events
       ELSE Event

-----------------------------------------------------------------------------
(* Users.                                                                   *)

Say(kind, d, p, act) ==
    /\ MayHappen \/ DeletedAgain(kind, d, act)
    /\ said' = said \cup {[kind |-> kind, at |-> Cardinality(said) + 1, by |-> d, path |-> p, act |-> act]}

\* POST /deletions: the record is written and enforceNow begins with what was
\* written.  A path that is neither on disk nor listed is refused.
Delete(d, p, act) ==
    LET rec == [removed |-> Cardinality(said) + 1, undeleted |-> 0, on |-> d, fleet |-> act.fleet,
                bytes |-> act.bytes, unpin |-> act.unpin, enforced |-> {}]
        led == Merge(ledger[d], [Empty EXCEPT ![p] = rec])
    IN  /\ p \in disk[d] \cup listed
        /\ Say("delete", d, p, act)
        /\ ledger' = [ledger EXCEPT ![d] = led]
        /\ enforcing' = [enforcing EXCEPT ![d] = @ \cup {led}]
        /\ UNCHANGED <<origin, files, run, pulling, events>>

\* enforceNow after the pin list arrived: it reaps by the ledger it read before,
\* and writes that ledger back with its receipts.  Without an IPFS node the pins
\* stay.  A manifest that is not written, or that a running pass overwrites, loses
\* the marks.
EnforceNow(d, led) ==
    /\ led \in enforcing[d]
    /\ \E kept \in SUBSET Doomed(led, d) : \E held \in {{}, Unpinned(led, d)} :
         Reaped(led, d, kept, held)
    /\ ledger' = [ledger EXCEPT ![d] = Receipts(led, d)]
    /\ enforcing' = [enforcing EXCEPT ![d] = @ \ {led}]
    /\ \/ marked' = marked \cup Targets(led, d)
       \/ (pass[d] # "idle" \/ fetching[d] # {}) /\ UNCHANGED marked
    /\ UNCHANGED <<origin, listed, want, run, pulling, said>>

\* POST /undelete: the record of the path, unless it is lifted already.
Undelete(d, p) ==
    /\ ledger[d][p].removed # 0 /\ ledger[d][p].undeleted = 0
    /\ Say("undelete", d, p, [fleet |-> FALSE, bytes |-> FALSE, unpin |-> FALSE])
    /\ ledger' = [ledger EXCEPT ![d][p].undeleted = Cardinality(said) + 1]
    /\ UNCHANGED <<origin, files, run, pulling, enforcing, events>>

\* A file is decided "sync", or copied back by hand.
Decide(d, p) ==
    /\ Event /\ p \in (disk[d] \cup listed) \ want[d]
    /\ want' = [want EXCEPT ![d] = @ \cup {p}]
    /\ UNCHANGED <<ledgers, disk, pinset, listed, marked, run, pulling, enforcing, said>>

Restore(d, p) ==
    /\ Event /\ p \notin disk[d]
    /\ disk' = [disk EXCEPT ![d] = @ \cup {p}]
    /\ UNCHANGED <<ledgers, pinset, listed, marked, want, run, pulling, enforcing, said>>

-----------------------------------------------------------------------------
(* The pin pass: runUnitPin.                                                *)

\* The receipts are written when one is new or something was taken.
MustWrite(led, d, kept) ==
    \/ Receipts(led, d) # led
    \/ Doomed(led, d) \ kept # {}
    \/ Targets(led, d) \ marked # {}

\* The decisions and the ledger are read, and the pass reaps.  What it marks, or
\* takes our claim from, goes back to Undecided: what is pinned has our claim, what
\* is not may have it still.  A receipt that only improves is written too.
Begin(d) ==
    LET led == ledger[d] IN
    /\ pass[d] = "idle" /\ fetching[d] = {}
    /\ decided' = [decided EXCEPT ![d] = want[d]]
    /\ snap' = [snap EXCEPT ![d] = Receipts(led, d)]
    /\ \E kept \in SUBSET Doomed(led, d), held \in SUBSET Unpinned(led, d) :
         /\ Reaped(led, d, kept, held)
         /\ pass' \in {[pass EXCEPT ![d] = s] :
                        s \in IF MustWrite(led, d, kept) THEN {"writing"}
                              ELSE IF kept \cup Unpinned(led, d) = {} THEN {"adding"}
                              ELSE {"writing", "adding"}}
    /\ \E stale \in SUBSET Targets(led, d) :
         /\ \A p \in Targets(led, d) : p \notin marked \/ ContentOf[p] \in pinset[d] => p \in stale
         /\ want' = [want EXCEPT ![d] = @ \ stale]
    /\ marked' = marked \cup Targets(led, d)
    /\ UNCHANGED <<ledgers, listed, fetching, pulling, enforcing, said>>

\* What is decided and on disk is added and listed anew, unless it is pinned and
\* not tombstoned; what is decided, listed, not on disk and not held is fetched.
Added(d) == {p \in decided[d] \cap disk[d] :
               \/ p \notin listed
               \/ ContentOf[p] \notin pinset[d]
               \/ Tombstoned(snap[d], d, p)}

Wanted(d) == {p \in (decided[d] \cap listed) \ disk[d] : ContentOf[p] \notin pinset[d]}

\* The receipts are written, with the ledger they were stamped into.  The add half,
\* then the gate, by the ledger that was read, and the fetch half.
Add(d) ==
    /\ pass[d] # "idle"
    /\ pass' = [pass EXCEPT ![d] = "idle"]
    /\ ledger' = IF pass[d] = "writing" THEN [ledger EXCEPT ![d] = snap[d]] ELSE ledger
    /\ pinset' = [pinset EXCEPT ![d] = @ \cup {ContentOf[p] : p \in Added(d)}]
    /\ listed' = listed \cup Added(d)
    /\ marked' = marked \ Added(d)
    /\ fetching' = [fetching EXCEPT ![d] = {p \in Wanted(d) : ~Tombstoned(snap[d], d, p)}]
    /\ snap' = [snap EXCEPT ![d] = Empty]
    /\ decided' = [decided EXCEPT ![d] = {}]
    /\ UNCHANGED <<origin, disk, want, pulling, enforcing, ghost>>

-----------------------------------------------------------------------------
(* Bytes arrive.                                                            *)

\* pullMissing: a click on a file that is listed and not here.
Pull(d, p) ==
    /\ Event /\ p \in listed \ disk[d]
    /\ ~Tombstoned(ledger[d], d, p)
    /\ pulling' = [pulling EXCEPT ![d] = @ \cup {p}]
    /\ UNCHANGED <<ledgers, files, run, enforcing, said>>

Ended(d, p) ==
    /\ fetching' = [fetching EXCEPT ![d] = @ \ {p}]
    /\ pulling' = [pulling EXCEPT ![d] = @ \ {p}]

Land(d, p) ==
    /\ p \in fetching[d] \cup pulling[d]
    /\ \E e \in Device : ContentOf[p] \in pinset[e]
    /\ disk' = [disk EXCEPT ![d] = @ \cup {p}]
    /\ pinset' = [pinset EXCEPT ![d] = @ \cup {ContentOf[p]}]
    /\ Ended(d, p)
    /\ UNCHANGED <<ledgers, listed, marked, want, pass, snap, decided, enforcing, ghost>>

\* No provider, a stalled transfer, or a write that fails.
Fail(d, p) ==
    /\ p \in fetching[d] \cup pulling[d]
    /\ Ended(d, p)
    /\ UNCHANGED <<ledgers, files, pass, snap, decided, enforcing, ghost>>

-----------------------------------------------------------------------------
(* The ledger travels.                                                      *)

\* The mirror and a push: what the remote holds is merged, never replaced, by the
\* mirror in the working copy and by the driver of git.
Share(d) ==
    /\ origin' = Merge(ledger[d], origin)
    /\ UNCHANGED <<ledger, files, run, pulling, enforcing, ghost>>

\* A pull, and the reconcile that follows it or that a pass begins with.
Receive(d) ==
    /\ ledger' = [ledger EXCEPT ![d] = Merge(@, origin)]
    /\ UNCHANGED <<origin, files, run, pulling, enforcing, ghost>>

-----------------------------------------------------------------------------

\* The backend stops and starts again: what is in flight is lost.
Crash(d) ==
    /\ Event
    /\ pass[d] # "idle" \/ fetching[d] # {} \/ pulling[d] # {} \/ enforcing[d] # {}
    /\ pass' = [pass EXCEPT ![d] = "idle"]
    /\ snap' = [snap EXCEPT ![d] = Empty]
    /\ decided' = [decided EXCEPT ![d] = {}]
    /\ fetching' = [fetching EXCEPT ![d] = {}]
    /\ pulling' = [pulling EXCEPT ![d] = {}]
    /\ enforcing' = [enforcing EXCEPT ![d] = {}]
    /\ UNCHANGED <<ledgers, files, said>>

Init ==
    /\ ledger = [d \in Device |-> Empty] /\ origin = Empty
    /\ disk = [d \in Device |-> IF d \in Holders THEN Path ELSE {}]
    /\ want = disk /\ listed = UNION {disk[d] : d \in Device} /\ marked = {}
    /\ pinset = [d \in Device |-> {ContentOf[p] : p \in disk[d]}]
    /\ pass = [d \in Device |-> "idle"]
    /\ snap = ledger
    /\ decided = [d \in Device |-> {}] /\ fetching = decided /\ pulling = decided
    /\ enforcing = decided
    /\ said = {} /\ events = 0

Enforce(d)  == \E led \in enforcing[d] : EnforceNow(d, led)
Transfer(d) == \E p \in Path : Land(d, p) \/ Fail(d, p)
PassOf(d)   == Begin(d) \/ Add(d)
Exchange(d) == Share(d) \/ Receive(d)
User(d)     == \E p \in Path : \/ \E act \in Actions : Delete(d, p, act)
                               \/ Undelete(d, p) \/ Decide(d, p) \/ Restore(d, p) \/ Pull(d, p)

Next == \E d \in Device : \/ PassOf(d) \/ Enforce(d) \/ Transfer(d)
                          \/ Exchange(d) \/ User(d) \/ Crash(d)

Spec == Init /\ [][Next]_vars

\* Passes are scheduled and end, a transfer lands or gives up, the mirror and
\* the git cycles of every computer come round.
Fairness == \A d \in Device :
    /\ WF_vars(PassOf(d)) /\ WF_vars(Enforce(d)) /\ WF_vars(Transfer(d))
    /\ WF_vars(Share(d)) /\ WF_vars(Receive(d))

FairSpec == Spec /\ Fairness

-----------------------------------------------------------------------------
(* Properties.                                                              *)

\* The type of every variable.
TypeOK ==
    /\ ledger \in [Device -> Ledger] /\ origin \in Ledger
    /\ disk \in [Device -> SUBSET Path] /\ pinset \in [Device -> SUBSET Content]
    /\ listed \subseteq Path /\ marked \subseteq Path
    /\ want \in [Device -> SUBSET Path]
    /\ pass \in [Device -> Stages] /\ snap \in [Device -> Ledger]
    /\ decided \in [Device -> SUBSET Path]
    /\ fetching \in [Device -> SUBSET Path] /\ pulling \in [Device -> SUBSET Path]
    /\ enforcing \in [Device -> SUBSET Ledger]
    /\ said \subseteq [kind : {"delete", "undelete"}, at : Time, by : Device,
                       path : Path, act : [fleet : BOOLEAN, bytes : BOOLEAN, unpin : BOOLEAN]]
    /\ events \in Time

Deleted(s, p)   == s.kind = "delete" /\ s.path = p
Undeleted(s, p) == s.kind = "undelete" /\ s.path = p

\* What one record claims was said: the deletion it dates, by the device it names;
\* each width it has; and the undelete that lifts it, said later.
Truthful(k, r) ==
    /\ \E s \in said : Deleted(s, k) /\ s.at = r.removed /\ s.by = r.on
    /\ r.fleet => (\E s \in said : Deleted(s, k) /\ s.act.fleet)
    /\ r.bytes => (\E s \in said : Deleted(s, k) /\ s.act.bytes)
    /\ r.undeleted # 0 => /\ r.undeleted > r.removed
                          /\ \E s \in said : Undeleted(s, k) /\ s.at = r.undeleted

AllTruthful(led) == \A k \in Path : led[k].removed # 0 => Truthful(k, led[k])

\* Every record of every copy of the ledger, the copies a pass or an enforcement
\* holds in memory included, claims only what a user said: no merge makes up a
\* deletion, a wider one, or an undelete, and an undelete that lifts a record was
\* said after the deletion it lifts.
NothingMadeUp ==
    /\ AllTruthful(origin)
    /\ \A d \in Device : /\ AllTruthful(ledger[d]) /\ AllTruthful(snap[d])
                         /\ \A led \in enforcing[d] : AllTruthful(led)

\* A file leaves a disk only where somebody asked for that: by a deletion of its
\* path or of its content, said for the fleet or on this very computer, and some
\* deletion of that name said that the bytes go.
OnlyWhereAsked ==
    [][\A d \in Device, p \in Path : p \in disk[d] /\ p \notin disk'[d] =>
         \E q \in Path : /\ ContentOf[q] = ContentOf[p]
                         /\ \E s \in said : Deleted(s, q) /\ (s.act.fleet \/ s.by = d)
                         /\ \E t \in said : Deleted(t, q) /\ t.act.bytes]_vars

\* Absence never lifts a tombstone: the shared ledger never goes back to an earlier
\* deletion, and a record for the fleet that stands in it is lifted only by an undelete.
Kept(r, s) ==
    /\ r.removed <= s.removed
    /\ r.removed # 0 /\ r.fleet => s.fleet
    /\ r.removed # 0 /\ r.undeleted = 0 /\ s.undeleted # 0 =>
         \E u \in said : u.kind = "undelete" /\ u.at = s.undeleted /\ u.at > r.removed

AbsenceLiftsNothing ==
    [][\A k \in Path : Kept(origin[k], origin'[k])]_vars

Gone(d, k) ==
    /\ origin[k].bytes => k \notin disk[d]
    /\ origin[k].unpin => ContentOf[k] \notin pinset[d]
    /\ d \in origin[k].enforced

\* A deletion for the fleet that stays at origin is carried out and reported by
\* every computer, whatever was being fetched, re-added or pulled meanwhile.
ReachesEveryone ==
    \A k \in Path : <>[](Live(origin[k], Nobody) /\ origin[k].fleet)
                     => <>[](\A d \in Device : Gone(d, k))

\* The ledgers of the fleet end in agreement, and the merges of the two directions
\* do not rewrite one another.
LedgersAgree == <>[](\A d \in Device : ledger[d] = origin)

\* An instruction stands on the computer it was given to: its ledger never forgets
\* a deletion it recorded, or an undelete that no later deletion overrides.
InstructionStands ==
    [][\A d \in Device, k \in Path :
         /\ ledger[d][k].removed <= ledger'[d][k].removed
         /\ ledger[d][k].undeleted > ledger'[d][k].undeleted
              => ledger'[d][k].removed > ledger[d][k].undeleted]_vars

=============================================================================
