------------------------------- MODULE Claims -------------------------------
(***************************************************************************)
(* Which computer holds a file: one entry of the manifest, with its CID,   *)
(* its stamp and its pin claims, on its way between the computers of a     *)
(* fleet.  Each computer has the entry three times: in the manifest of the *)
(* unit, in the tracking directory and in the working copy of the sync     *)
(* repository, whose remote all share.                                     *)
(*                                                                         *)
(* The merge of entries is storage/manifest-merge.ts, the two legs between *)
(* tracking and mirror are storage/tracking-sync.service.ts, the merge of  *)
(* git is tools/git-merge-driver.ts; the pin pass that adds, fetches, drops *)
(* and claims is runUnitPin of pin/pin.service.ts, and what a repository   *)
(* without background pinning does instead is healSelfPinClaims.           *)
(*                                                                         *)
(* A computer adds a file under its own profile: equal bytes may have two  *)
(* CIDs.  Versions differ in size.  Tombstones are the business of module  *)
(* Deletions.                                                              *)
(***************************************************************************)
EXTENDS Naturals, FiniteSets

CONSTANTS
    Device,
    Profile,    \* [Device -> Nat]: how a computer chunks what it adds
    Holders,    \* the sets of computers that may have the file at first
    Absent,     \* no entry, no file, no pass
    MaxInputs   \* bound: what users, the node and the grace period do

ASSUME ProfileAssumption == Profile \in [Device -> Nat]
ASSUME HoldersAssumption == Holders \subseteq SUBSET Device
ASSUME BoundAssumption == MaxInputs \in Nat

VARIABLES
    unit,      \* [Device -> Entry \cup {Absent}]: manifest.yaml of the unit
    tracking,  \* [Device -> Entry \cup {Absent}]: that of the tracking directory
    mirror,    \* [Device -> Entry \cup {Absent}]: that of its working copy
    base,      \* [Device -> Entry \cup {Absent}]: what git merges against
    origin,    \* Entry \cup {Absent}: that of the remote
    file,      \* [Device -> File \cup {Absent}]: the bytes on disk
    pinset,    \* [Device -> SUBSET Cid]
    want,      \* [Device -> BOOLEAN]: decided "sync"
    pinned,    \* [Device -> BOOLEAN]: the background pin pass is on
    pass,      \* [Device -> Pass \cup {Absent}]: what the pass in flight read
    inputs     \* bound counter, and the clock

copies == <<unit, tracking, mirror, base, origin>>
local  == <<file, pinset>>
config == <<want, pinned>>
vars   == <<copies, local, config, pass, inputs>>

-----------------------------------------------------------------------------
(* Entries.                                                                 *)

Time    == 0..2 * MaxInputs + 1
Version == 0..MaxInputs
File    == [version : Version, at : Time]
Cid     == [version : Version, profile : {Profile[d] : d \in Device}]
Entry   == [cid : Cid, at : Time, claims : SUBSET Device]
Pass    == [unit : Entry \cup {Absent}, tracking : Entry \cup {Absent},
            pins : SUBSET Cid, want : BOOLEAN, pinned : BOOLEAN]

ASSUME AbsentAssumption == Absent \notin Entry \cup File \cup Pass

\* The lexicographic order of CIDs: any total order.
Smaller(c, e) == c.version < e.version \/ (c.version = e.version /\ c.profile < e.profile)

ClaimsOf(e) == IF e = Absent THEN {} ELSE e.claims

\* Mutant: of two CIDs with one stamp each computer keeps its own.
WinsKeepsLocal(inc, cur) == inc.at > cur.at

\* incAuthoritative: the newer stamp, or the smaller CID of two with one stamp.
Wins(inc, cur) == inc.at > cur.at \/ (inc.at = cur.at /\ Smaller(inc.cid, cur.cid))

\* Mutant: the claims only add up, over the wire as well.
MergeGrows(cur, inc, self, wire) ==
    IF inc = Absent THEN cur
    ELSE IF cur = Absent THEN [inc EXCEPT !.claims = @ \ {self}]
    ELSE LET winner == IF Wins(inc, cur) THEN inc ELSE cur
         IN  [cid |-> winner.cid, at |-> winner.at, claims |-> cur.claims \cup (inc.claims \ {self})]

\* mergeManifests: our own label comes from what is local alone; over the wire
\* the others come from what arrives alone.
Merge(cur, inc, self, wire) ==
    IF inc = Absent THEN cur
    ELSE IF cur = Absent THEN [inc EXCEPT !.claims = @ \ {self}]
    ELSE LET winner == IF Wins(inc, cur) THEN inc ELSE cur
             ours   == IF wire THEN cur.claims \cap {self} ELSE cur.claims
         IN  [cid |-> winner.cid, at |-> winner.at, claims |-> ours \cup (inc.claims \ {self})]

\* mergeManifestDocs: a label stays that both sides have, or one has added.
MergeDocs(b, o, t) ==
    IF o = Absent THEN t
    ELSE IF t = Absent THEN o
    ELSE LET winner == IF Wins(t, o) THEN t ELSE o
         IN  [cid |-> winner.cid, at |-> winner.at,
              claims |-> (o.claims \cap t.claims) \cup ((o.claims \cup t.claims) \ ClaimsOf(b))]

-----------------------------------------------------------------------------
(* The entry travels.                                                       *)

\* Mutant: the mirror is a copy of what is here.
MirrorCopies(d) ==
    /\ mirror' = [mirror EXCEPT ![d] = tracking[d]]
    /\ UNCHANGED <<unit, tracking, base, origin, local, config, pass, inputs>>

\* mirrorToSyncRepo
Mirror(d) ==
    /\ mirror' = [mirror EXCEPT ![d] = Merge(tracking[d], @, d, TRUE)]
    /\ UNCHANGED <<unit, tracking, base, origin, local, config, pass, inputs>>

Reconciled(d) == Merge(tracking[d], mirror[d], d, TRUE)

\* reconcileFromSyncRepo
Reconcile(d) ==
    /\ tracking' = [tracking EXCEPT ![d] = Reconciled(d)]
    /\ UNCHANGED <<unit, mirror, base, origin, local, config, pass, inputs>>

\* What git makes of the working copy and the remote: the driver runs when both moved.
GitMerge(d) ==
    IF origin = base[d] THEN mirror[d]
    ELSE IF mirror[d] = base[d] THEN origin
    ELSE MergeDocs(base[d], mirror[d], origin)

\* A git cycle: pull, then push.
Cycle(d) ==
    /\ mirror' = [mirror EXCEPT ![d] = GitMerge(d)]
    /\ base' = [base EXCEPT ![d] = GitMerge(d)]
    /\ origin' = GitMerge(d)
    /\ UNCHANGED <<unit, tracking, local, config, pass, inputs>>

-----------------------------------------------------------------------------
(* The pin pass.                                                            *)

\* pinsetHasContent, with the equivalences that contentPinnedCid has recorded.
Holds(pins, c) == \E x \in pins : x.version = c.version

\* pinRepoFolder: what the mirror has is reconciled; the pass takes the fold of both
\* manifests, a repository that is not pinned each for itself; the pins are listed.
PinRepoFolder(d) ==
    /\ pass[d] = Absent
    /\ tracking' = [tracking EXCEPT ![d] = Reconciled(d)]
    /\ pass' = [pass EXCEPT ![d] =
         [unit |-> IF pinned[d] THEN Merge(unit[d], Reconciled(d), d, FALSE) ELSE unit[d],
          tracking |-> IF pinned[d] THEN Absent ELSE Reconciled(d), pins |-> pinset[d], want |-> want[d], pinned |-> pinned[d]]]
    /\ UNCHANGED <<unit, mirror, base, origin, local, config, inputs>>

\* setPinClaim, for the whole entry.
SetPinClaim(e, d, held) ==
    IF e = Absent THEN Absent
    ELSE [e EXCEPT !.claims = IF held THEN @ \cup {d} ELSE @ \ {d}]

\* Both documents are written, and the pass is over.
Write(d, u, t) ==
    /\ unit' = [unit EXCEPT ![d] = u]
    /\ tracking' = [tracking EXCEPT ![d] = t]
    /\ pass' = [pass EXCEPT ![d] = Absent]
    /\ UNCHANGED <<mirror, base, origin, pinned>>

\* Mutant: the claims are those the entry came with.
PublishUnverified(d, e, pins) == Write(d, e, e)

\* The end of a pass: our claim is what the list of pins says, and both are one.
Publish(d, e, pins) ==
    LET claimed == IF e = Absent THEN Absent ELSE SetPinClaim(e, d, Holds(pins, e.cid))
    IN  Write(d, claimed, claimed)

InPass(d) == pass[d] # Absent /\ pass[d].pinned

\* Nothing to do for the bytes: the file is decided, here, of the size recorded, and
\* pinned under some profile.
UpToDate(d) ==
    /\ file[d] # Absent /\ pass[d].unit # Absent
    /\ pass[d].unit.cid.version = file[d].version
    /\ Holds(pass[d].pins, pass[d].unit.cid)

Skip(d) ==
    /\ InPass(d) /\ pass[d].want /\ UpToDate(d)
    /\ Publish(d, pass[d].unit, pass[d].pins)
    /\ UNCHANGED <<local, want, inputs>>

\* The file is added and its entry written anew, or the add fails.
Add(d) ==
    LET c == [version |-> file[d].version, profile |-> Profile[d]] IN
    /\ InPass(d) /\ pass[d].want /\ file[d] # Absent /\ ~UpToDate(d)
    /\ pinset' = [pinset EXCEPT ![d] = @ \cup {c}]
    /\ Publish(d, [cid |-> c, at |-> file[d].at, claims |-> {d}], pass[d].pins \cup {c})
    /\ UNCHANGED <<file, want, inputs>>

\* An entry that is not decided here stays as long as another computer claims it.
Drop(d) ==
    /\ InPass(d) /\ ~pass[d].want
    /\ Publish(d, IF ClaimsOf(pass[d].unit) \ {d} = {} THEN Absent ELSE pass[d].unit, pass[d].pins)
    /\ UNCHANGED <<local, want, inputs>>

\* classifyAbsent: decided, not on disk; it was here if we claim it or hold it.
WasHere(d) ==
    /\ pass[d].unit # Absent
    /\ d \in pass[d].unit.claims \/ Holds(pass[d].pins, pass[d].unit.cid)

\* It is left alone while the grace period runs.
Orphan(d) ==
    /\ InPass(d) /\ pass[d].want /\ file[d] = Absent
    /\ pass[d].unit = Absent \/ WasHere(d)
    /\ Publish(d, pass[d].unit, pass[d].pins)
    /\ UNCHANGED <<local, want, inputs>>

\* It was never here: it is fetched, or nobody provides it.
Fetch(d) ==
    /\ InPass(d) /\ pass[d].want /\ file[d] = Absent /\ pass[d].unit # Absent /\ ~WasHere(d)
    /\ \/ /\ \E e \in Device : pass[d].unit.cid \in pinset[e]
          /\ pinset' = [pinset EXCEPT ![d] = @ \cup {pass[d].unit.cid}]
          /\ file' = [file EXCEPT ![d] = [version |-> pass[d].unit.cid.version, at |-> 2 * inputs + 1]]
          /\ Publish(d, pass[d].unit, pass[d].pins \cup {pass[d].unit.cid})
       \/ /\ UNCHANGED local
          /\ Publish(d, pass[d].unit, pass[d].pins)
    /\ UNCHANGED <<want, inputs>>

\* Mutant: the claims of a repository that is not pinned are left as they are.
HealNothing(d) ==
    /\ pass[d] # Absent /\ ~pass[d].pinned
    /\ Write(d, unit[d], tracking[d])
    /\ UNCHANGED <<local, want, inputs>>

\* healSelfPinClaims: a claim that the pins do not bear out is dropped, none is added,
\* and a document with nothing to correct is not written.
Heal(d) ==
    LET healed(now, e) ==
          IF e = Absent THEN now
          ELSE IF d \notin e.claims \/ Holds(pass[d].pins, e.cid) THEN now
          ELSE SetPinClaim(e, d, FALSE)
    IN  /\ pass[d] # Absent /\ ~pass[d].pinned
        /\ Write(d, healed(unit[d], pass[d].unit), healed(tracking[d], pass[d].tracking))
        /\ UNCHANGED <<local, want, inputs>>

-----------------------------------------------------------------------------
(* What comes from outside.                                                 *)

Input == inputs < MaxInputs /\ inputs' = inputs + 1

\* The grace period of a file that was here ends: the pin and the claim go, and the
\* decision.  The pins that the pass has listed still have it when it publishes.
Stale(d) ==
    /\ Input /\ InPass(d) /\ pass[d].want /\ file[d] = Absent /\ WasHere(d)
    /\ pinset' = [pinset EXCEPT ![d] = @ \ {pass[d].unit.cid}]
    /\ want' = [want EXCEPT ![d] = FALSE]
    /\ Publish(d, IF pass[d].unit.claims \ {d} = {} THEN Absent ELSE pass[d].unit, pass[d].pins)
    /\ UNCHANGED file

\* A git cycle whose push fails.
Pull(d) ==
    /\ Input /\ base[d] # origin
    /\ mirror' = [mirror EXCEPT ![d] = GitMerge(d)]
    /\ base' = [base EXCEPT ![d] = origin]
    /\ UNCHANGED <<unit, tracking, origin, local, config, pass>>

\* The pass is given up: the backend stops, or the node does not list its pins, or an
\* add fails.
Abandon(d) ==
    /\ Input /\ pass[d] # Absent
    /\ pass' = [pass EXCEPT ![d] = Absent]
    /\ UNCHANGED <<copies, local, config>>

\* A new version is written here.
Edit(d) ==
    /\ Input
    /\ file' = [file EXCEPT ![d] = [version |-> inputs + 1, at |-> 2 * inputs + 2]]
    /\ UNCHANGED <<copies, pinset, config, pass>>

\* The file of another computer is copied here with its stamp, past the product.
Copy(d, e) ==
    /\ Input /\ file[e] # Absent /\ file[e] # file[d]
    /\ file' = [file EXCEPT ![d] = file[e]]
    /\ UNCHANGED <<copies, pinset, config, pass>>

Remove(d) ==
    /\ Input /\ file[d] # Absent
    /\ file' = [file EXCEPT ![d] = Absent]
    /\ UNCHANGED <<copies, pinset, config, pass>>

\* A pin is removed past the product.
LosePin(d) ==
    /\ Input
    /\ \E c \in pinset[d] : pinset' = [pinset EXCEPT ![d] = @ \ {c}]
    /\ UNCHANGED <<copies, file, config, pass>>

Decide(d) ==
    /\ Input
    /\ want' = [want EXCEPT ![d] = ~@]
    /\ UNCHANGED <<copies, local, pinned, pass>>

OptOut(d) ==
    /\ Input
    /\ pinned' = [pinned EXCEPT ![d] = ~@]
    /\ UNCHANGED <<copies, local, want, pass>>

-----------------------------------------------------------------------------

\* Some computers have the file with one stamp, and none has added it.
Init ==
    /\ \E holders \in Holders :
         file = [d \in Device |-> IF d \in holders THEN [version |-> 0, at |-> 0] ELSE Absent]
    /\ pinset = [d \in Device |-> {}]
    /\ want = [d \in Device |-> TRUE] /\ pinned = want
    /\ unit = [d \in Device |-> Absent] /\ tracking = unit /\ mirror = unit /\ base = unit
    /\ origin = Absent /\ pass = unit /\ inputs = 0

PinPass(d) == PinRepoFolder(d) \/ Skip(d) \/ Add(d) \/ Drop(d) \/ Orphan(d) \/ Fetch(d) \/ Heal(d)
Outside(d) == \/ Stale(d) \/ Pull(d) \/ Abandon(d) \/ Edit(d) \/ Remove(d)
              \/ LosePin(d) \/ Decide(d) \/ OptOut(d) \/ \E e \in Device : Copy(d, e)

Next == \E d \in Device : PinPass(d) \/ Mirror(d) \/ Reconcile(d) \/ Cycle(d) \/ Outside(d)

Spec == Init /\ [][Next]_vars

\* Pin passes, mirrors and the reconciles after a pull come round, and git cycles
\* succeed.
Fairness == \A d \in Device : /\ WF_vars(PinPass(d)) /\ WF_vars(Mirror(d))
                              /\ WF_vars(Reconcile(d)) /\ WF_vars(Cycle(d))

FairSpec == Spec /\ Fairness

-----------------------------------------------------------------------------
(* Properties.                                                              *)

\* The type of every variable.
TypeOK ==
    /\ unit \in [Device -> Entry \cup {Absent}] /\ tracking \in [Device -> Entry \cup {Absent}]
    /\ mirror \in [Device -> Entry \cup {Absent}] /\ base \in [Device -> Entry \cup {Absent}]
    /\ origin \in Entry \cup {Absent}
    /\ file \in [Device -> File \cup {Absent}] /\ pinset \in [Device -> SUBSET Cid]
    /\ want \in [Device -> BOOLEAN] /\ pinned \in [Device -> BOOLEAN]
    /\ pass \in [Device -> Pass \cup {Absent}] /\ inputs \in 0..MaxInputs

\* Nobody speaks for another: a claim appears at the remote only while the computer it
\* names makes it in its own working copy.  A withdrawn claim does not come back from
\* what another computer remembers.
SpeaksForItself ==
    [][\A d \in Device : d \in ClaimsOf(origin') /\ d \notin ClaimsOf(origin)
         => d \in ClaimsOf(mirror[d])]_vars

\* The shared entry is never lost and never goes back to an older stamp.
NeverGoesBack ==
    [][origin # Absent => origin' # Absent /\ origin'.at >= origin.at]_vars

\* A computer that ends up holding no bytes of the file ends up not advertised,
\* whether its repository is pinned in the background or not.
WithdrawalTravels ==
    \A d \in Device : <>[](pinset[d] = {}) => <>[](d \notin ClaimsOf(origin))

\* A computer that keeps the file, wants it and holds the CID that is shared ends up
\* advertised to the others.
HolderIsKnown ==
    \A d \in Device :
        <>[](pinned[d] /\ want[d] /\ origin # Absent /\ Holds(pinset[d], origin.cid))
          => <>[](d \in ClaimsOf(origin))

\* The computers stop rewriting one another: the remote settles, and every working
\* copy with it.
Settles == <>[][FALSE]_origin /\ <>[](\A d \in Device : mirror[d] = origin)

=============================================================================
