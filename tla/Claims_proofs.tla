---------------------------- MODULE Claims_proofs ----------------------------
(* For any fleet and any inputs: a withdrawn claim does not come back from   *)
(* another computer, and the shared entry never goes back.                   *)
EXTENDS Claims, TLAPS

\* The working copy and the remote are never behind what git merges against.
Ahead(e, b) == b # Absent => e # Absent /\ e.at >= b.at

MirrorAhead == \A d \in Device : Ahead(mirror[d], base[d]) /\ Ahead(origin, base[d])

\* What a working copy says of the others it has from git.
PeersFromBase ==
    \A d \in Device : \A e \in ClaimsOf(mirror[d]) : e # d => e \in ClaimsOf(base[d])

\* Until the working copy has the entry, the other documents know of ourselves only.
OwnUntilMirrored ==
    \A d \in Device : mirror[d] = Absent =>
        /\ ClaimsOf(unit[d]) \subseteq {d} /\ ClaimsOf(tracking[d]) \subseteq {d}
        /\ pass[d] # Absent => /\ ClaimsOf(pass[d].unit) \subseteq {d}
                               /\ ClaimsOf(pass[d].tracking) \subseteq {d}

\* SpeaksForItself alone is not inductive: that what a computer pushes of others is
\* what it pulled needs the base git merges against, and the first mirror of an
\* entry the documents it is made from.
ClaimsInv == TypeOK /\ MirrorAhead /\ PeersFromBase /\ OwnUntilMirrored

MaybeEntry == Entry \cup {Absent}

-----------------------------------------------------------------------------
(* The merges.                                                              *)

LEMMA AbsentIsNone == Absent \notin Entry /\ Absent \notin File /\ Absent \notin Pass
BY AbsentAssumption

LEMMA MergeEntries ==
    ASSUME NEW cur \in MaybeEntry, NEW inc \in MaybeEntry, NEW d \in Device, NEW wire \in BOOLEAN
    PROVE  /\ Merge(cur, inc, d, wire) \in MaybeEntry
           /\ cur # Absent => Merge(cur, inc, d, wire) # Absent /\ Merge(cur, inc, d, wire).at >= cur.at
           /\ inc # Absent => Merge(cur, inc, d, wire) # Absent /\ Merge(cur, inc, d, wire).at >= inc.at
           /\ inc = Absent => Merge(cur, inc, d, wire) = cur
           /\ wire /\ inc # Absent => \A e \in ClaimsOf(Merge(cur, inc, d, wire)) : e # d => e \in inc.claims
           /\ ClaimsOf(Merge(cur, inc, d, wire)) \subseteq ClaimsOf(cur) \cup ClaimsOf(inc)
BY AbsentIsNone, BoundAssumption DEF Merge, MaybeEntry, Entry, ClaimsOf, Wins, Time

LEMMA MergedDocs ==
    ASSUME NEW b \in MaybeEntry, NEW o \in MaybeEntry, NEW t \in MaybeEntry
    PROVE  /\ MergeDocs(b, o, t) \in MaybeEntry
           /\ o # Absent => MergeDocs(b, o, t) # Absent /\ MergeDocs(b, o, t).at >= o.at
           /\ t # Absent => MergeDocs(b, o, t) # Absent /\ MergeDocs(b, o, t).at >= t.at
           /\ \A e \in ClaimsOf(MergeDocs(b, o, t)) :
                e \in ClaimsOf(t) \/ (e \in ClaimsOf(o) /\ (t # Absent => e \notin ClaimsOf(b)))
BY AbsentIsNone, BoundAssumption DEF MergeDocs, MaybeEntry, Entry, ClaimsOf, Wins, Time

\* A merge keeps one of two entries whole: which one does not depend on who merges.
LEMMA WinnerIsOne ==
    ASSUME NEW e \in Entry, NEW f \in Entry
    PROVE  /\ ~Wins(e, e)
           /\ ~(Wins(e, f) /\ Wins(f, e))
           /\ ~Wins(e, f) /\ ~Wins(f, e) => e.at = f.at /\ e.cid = f.cid
<1>1. e.at \in Nat /\ f.at \in Nat
  BY BoundAssumption DEF Entry, Time
<1>2. e.cid \in Cid /\ f.cid \in Cid
  BY DEF Entry
<1>3. /\ e.cid.version \in Nat /\ f.cid.version \in Nat
      /\ e.cid.profile \in Nat /\ f.cid.profile \in Nat
  BY <1>2, BoundAssumption, ProfileAssumption DEF Cid, Version
<1>4. e.cid.version = f.cid.version /\ e.cid.profile = f.cid.profile => e.cid = f.cid
  BY <1>2 DEF Cid
<1> QED
  BY <1>1, <1>3, <1>4 DEF Wins, Smaller

\* What arrives twice is merged once.  For a reconcile followed by a mirror this says that
\* the two documents of a computer are then equal: reconcileFromSyncRepo and mirrorToSyncRepo
\* do not rewrite each other's work.
THEOREM LegsAgree ==
    ASSUME NEW cur \in MaybeEntry, NEW inc \in MaybeEntry, NEW d \in Device, NEW wire \in BOOLEAN
    PROVE  Merge(Merge(cur, inc, d, wire), inc, d, wire) = Merge(cur, inc, d, wire)
<1>1. CASE inc = Absent
  BY <1>1 DEF Merge
<1>2. CASE inc # Absent /\ cur = Absent
  <2> PICK out : out = [inc EXCEPT !.claims = @ \ {d}]
    OBVIOUS
  <2>1. Merge(cur, inc, d, wire) = out
    BY <1>2 DEF Merge
  <2>2. /\ inc \in Entry /\ out \in Entry
        /\ out = [cid |-> inc.cid, at |-> inc.at, claims |-> inc.claims \ {d}]
    BY <1>2 DEF MaybeEntry, Entry
  <2>3. ~Wins(inc, out)
    BY <2>2, WinnerIsOne DEF Wins
  <2>4. Merge(out, inc, d, wire) = out
    BY <1>2, <2>2, <2>3, AbsentIsNone DEF Merge
  <2> QED
    BY <2>1, <2>4
<1>3. CASE inc # Absent /\ cur # Absent
  <2> inc \in Entry /\ cur \in Entry
    BY <1>3 DEF MaybeEntry
  <2> PICK winner : winner = IF Wins(inc, cur) THEN inc ELSE cur
    OBVIOUS
  <2> PICK ours : ours = IF wire THEN cur.claims \cap {d} ELSE cur.claims
    OBVIOUS
  <2> PICK out : out = [cid |-> winner.cid, at |-> winner.at, claims |-> ours \cup (inc.claims \ {d})]
    OBVIOUS
  <2>1. Merge(cur, inc, d, wire) = out
    BY <1>3 DEF Merge
  <2>2. out \in Entry /\ out.cid = winner.cid /\ out.at = winner.at
    BY DEF Entry
  <2>3. ~Wins(inc, out)
    BY <2>2, WinnerIsOne DEF Wins
  <2>4. (IF wire THEN out.claims \cap {d} ELSE out.claims) \cup (inc.claims \ {d}) = out.claims
    OBVIOUS
  <2>5. Merge(out, inc, d, wire) = out
    BY <1>3, <2>2, <2>3, <2>4, AbsentIsNone DEF Merge
  <2> QED
    BY <2>1, <2>5
<1> QED
  BY <1>1, <1>2, <1>3

\* Whichever computer merges two working copies makes the same of them, a merge with what is
\* the same changes nothing, and a side that has not moved leaves the claims to the other:
\* mergeManifestDocs.
THEOREM DriversAgree ==
    ASSUME NEW b \in MaybeEntry, NEW o \in MaybeEntry, NEW t \in MaybeEntry
    PROVE  /\ MergeDocs(b, o, t) = MergeDocs(b, t, o)
           /\ MergeDocs(b, o, o) = o
           /\ o # Absent /\ t # Absent => MergeDocs(o, o, t).claims = t.claims
<1>1. MergeDocs(b, o, t) = MergeDocs(b, t, o)
  <2>1. CASE o = Absent \/ t = Absent
    BY <2>1 DEF MergeDocs
  <2>2. CASE o # Absent /\ t # Absent
    <3>1. o \in Entry /\ t \in Entry
      BY <2>2 DEF MaybeEntry
    <3>2. /\ (IF Wins(t, o) THEN t ELSE o).cid = (IF Wins(o, t) THEN o ELSE t).cid
          /\ (IF Wins(t, o) THEN t ELSE o).at = (IF Wins(o, t) THEN o ELSE t).at
      BY <3>1, WinnerIsOne
    <3>3. (o.claims \cap t.claims) \cup ((o.claims \cup t.claims) \ ClaimsOf(b))
            = (t.claims \cap o.claims) \cup ((t.claims \cup o.claims) \ ClaimsOf(b))
      OBVIOUS
    <3> QED
      BY <2>2, <3>2, <3>3 DEF MergeDocs
  <2> QED
    BY <2>1, <2>2
<1>2. MergeDocs(b, o, o) = o
  <2>1. CASE o = Absent
    BY <2>1 DEF MergeDocs
  <2>2. CASE o # Absent
    <3>1. o = [cid |-> o.cid, at |-> o.at, claims |-> o.claims]
      BY <2>2 DEF MaybeEntry, Entry
    <3>2. (o.claims \cap o.claims) \cup ((o.claims \cup o.claims) \ ClaimsOf(b)) = o.claims
      OBVIOUS
    <3> QED
      BY <2>2, <3>1, <3>2 DEF MergeDocs
  <2> QED
    BY <2>1, <2>2
<1>3. ASSUME o # Absent, t # Absent
      PROVE  MergeDocs(o, o, t).claims = t.claims
  <2>1. (o.claims \cap t.claims) \cup ((o.claims \cup t.claims) \ o.claims) = t.claims
    OBVIOUS
  <2> QED
    BY <1>3, <2>1 DEF MergeDocs, ClaimsOf
<1> QED
  BY <1>1, <1>2, <1>3

LEMMA SetPinClaimEntry ==
    ASSUME NEW e \in MaybeEntry, NEW d \in Device, NEW held \in BOOLEAN
    PROVE  /\ SetPinClaim(e, d, held) \in MaybeEntry
           /\ ClaimsOf(SetPinClaim(e, d, held)) \subseteq ClaimsOf(e) \cup {d}
BY AbsentIsNone DEF SetPinClaim, MaybeEntry, Entry, ClaimsOf

\* What git makes of the working copy: it is an entry, ahead of the remote, and says
\* of the others what the remote says.
LEMMA GitMerged ==
    ASSUME ClaimsInv, NEW d \in Device
    PROVE  /\ GitMerge(d) \in MaybeEntry
           /\ Ahead(GitMerge(d), origin)
           /\ mirror[d] # Absent => GitMerge(d) # Absent
           /\ \A e \in ClaimsOf(GitMerge(d)) : e # d => e \in ClaimsOf(origin)
           /\ d \in ClaimsOf(GitMerge(d)) => d \in ClaimsOf(origin) \cup ClaimsOf(mirror[d])
<1>1. /\ mirror[d] \in MaybeEntry /\ base[d] \in MaybeEntry /\ origin \in MaybeEntry
      /\ Ahead(mirror[d], base[d]) /\ Ahead(origin, base[d])
      /\ \A e \in ClaimsOf(mirror[d]) : e # d => e \in ClaimsOf(base[d])
  BY DEF ClaimsInv, TypeOK, MirrorAhead, PeersFromBase, MaybeEntry
<1> /\ Ahead(origin, origin) /\ (mirror[d] # Absent => mirror[d].at \in Nat)
    /\ (origin # Absent => origin.at \in Nat) /\ (base[d] # Absent => base[d].at \in Nat)
  BY <1>1, BoundAssumption DEF Ahead, MaybeEntry, Entry, Time
<1>2. CASE origin = base[d]
  BY <1>1, <1>2 DEF GitMerge, Ahead
<1>3. CASE origin # base[d] /\ mirror[d] = base[d]
  BY <1>1, <1>3 DEF GitMerge, Ahead
<1>4. CASE origin # base[d] /\ mirror[d] # base[d]
  <2> DEFINE m == MergeDocs(base[d], mirror[d], origin)
  <2>1. GitMerge(d) = m
    BY <1>4 DEF GitMerge
  <2>2. /\ m \in MaybeEntry
        /\ mirror[d] # Absent => m # Absent /\ m.at >= mirror[d].at
        /\ origin # Absent => m # Absent /\ m.at >= origin.at
        /\ \A e \in ClaimsOf(m) :
             e \in ClaimsOf(origin) \/ (e \in ClaimsOf(mirror[d]) /\ (origin # Absent => e \notin ClaimsOf(base[d])))
    BY <1>1, MergedDocs
  <2> QED
    BY <1>1, <2>1, <2>2 DEF Ahead, ClaimsOf
<1> QED
  BY <1>2, <1>3, <1>4

-----------------------------------------------------------------------------
(* Every step keeps the invariant.                                           *)

LEMMA InitInv == Init => ClaimsInv
<1> SUFFICES ASSUME Init PROVE ClaimsInv
  OBVIOUS
<1>1. TypeOK
  BY BoundAssumption DEF Init, TypeOK, File, Version, Time
<1>2. MirrorAhead /\ PeersFromBase /\ OwnUntilMirrored
  BY DEF Init, MirrorAhead, Ahead, PeersFromBase, OwnUntilMirrored, ClaimsOf
<1> QED
  BY <1>1, <1>2 DEF ClaimsInv

\* What one computer keeps, and what its pass has read.
LEMMA DocumentsOf ==
    ASSUME ClaimsInv, NEW d \in Device
    PROVE  /\ unit[d] \in MaybeEntry /\ tracking[d] \in MaybeEntry
           /\ mirror[d] \in MaybeEntry /\ base[d] \in MaybeEntry /\ origin \in MaybeEntry
           /\ file[d] # Absent => file[d] \in File
           /\ pinset[d] \subseteq Cid
           /\ pass[d] # Absent =>
                /\ pass[d] \in Pass
                /\ pass[d].unit \in MaybeEntry /\ pass[d].tracking \in MaybeEntry
                /\ pass[d].pins \subseteq Cid
                /\ mirror[d] = Absent => /\ ClaimsOf(pass[d].unit) \subseteq {d}
                                         /\ ClaimsOf(pass[d].tracking) \subseteq {d}
           /\ mirror[d] = Absent => /\ ClaimsOf(unit[d]) \subseteq {d}
                                    /\ ClaimsOf(tracking[d]) \subseteq {d}
BY DEF ClaimsInv, TypeOK, MaybeEntry, Pass, OwnUntilMirrored

\* The end of a pass writes entries that know, before the first mirror, of ourselves.
LEMMA WriteInv ==
    ASSUME ClaimsInv, NEW d \in Device, NEW u \in MaybeEntry, NEW t \in MaybeEntry, Write(d, u, t),
           mirror[d] = Absent => ClaimsOf(u) \subseteq {d} /\ ClaimsOf(t) \subseteq {d},
           file' \in [Device -> File \cup {Absent}], pinset' \in [Device -> SUBSET Cid],
           want' \in [Device -> BOOLEAN], inputs' \in 0..MaxInputs
    PROVE  ClaimsInv'
<1>1. TypeOK'
  BY DEF ClaimsInv, TypeOK, Write, MaybeEntry
<1>2. MirrorAhead' /\ PeersFromBase'
  BY DEF ClaimsInv, MirrorAhead, PeersFromBase, Write
<1>3. OwnUntilMirrored'
  <2> SUFFICES ASSUME NEW e \in Device, mirror'[e] = Absent
               PROVE  /\ ClaimsOf(unit'[e]) \subseteq {e} /\ ClaimsOf(tracking'[e]) \subseteq {e}
                      /\ pass'[e] # Absent => /\ ClaimsOf(pass'[e].unit) \subseteq {e}
                                              /\ ClaimsOf(pass'[e].tracking) \subseteq {e}
    BY DEF OwnUntilMirrored, ClaimsOf
  <2>1. CASE e = d
    BY <2>1 DEF ClaimsInv, TypeOK, Write
  <2>2. CASE e # d
    <3>1. unit'[e] = unit[e] /\ tracking'[e] = tracking[e] /\ pass'[e] = pass[e] /\ mirror[e] = Absent
      BY <2>2 DEF ClaimsInv, TypeOK, Write
    <3> QED
      BY <3>1, DocumentsOf
  <2> QED
    BY <2>1, <2>2
<1> QED
  BY <1>1, <1>2, <1>3 DEF ClaimsInv

\* The same, for a pass that publishes one entry for both.
LEMMA PublishInv ==
    ASSUME ClaimsInv, NEW d \in Device, NEW e \in MaybeEntry, NEW pins \in SUBSET Cid, Publish(d, e, pins),
           mirror[d] = Absent => ClaimsOf(e) \subseteq {d},
           file' \in [Device -> File \cup {Absent}], pinset' \in [Device -> SUBSET Cid],
           want' \in [Device -> BOOLEAN], inputs' \in 0..MaxInputs
    PROVE  ClaimsInv'
<1> DEFINE claimed == IF e = Absent THEN Absent ELSE SetPinClaim(e, d, Holds(pins, e.cid))
<1>1. Write(d, claimed, claimed)
  BY DEF Publish
<1>2. claimed \in MaybeEntry /\ ClaimsOf(claimed) \subseteq ClaimsOf(e) \cup {d}
  <2>1. CASE e = Absent
    BY <2>1 DEF ClaimsOf, MaybeEntry
  <2>2. CASE e # Absent
    <3>1. Holds(pins, e.cid) \in BOOLEAN
      BY DEF Holds
    <3> QED
      BY <2>2, <3>1, SetPinClaimEntry
  <2> QED
    BY <2>1, <2>2
<1> HIDE DEF claimed
<1> QED
  BY <1>1, <1>2, WriteInv

LEMMA PassEndsInv ==
    ASSUME ClaimsInv, NEW d \in Device,
           Skip(d) \/ Add(d) \/ Drop(d) \/ Orphan(d) \/ Fetch(d) \/ Stale(d) \/ Heal(d)
    PROVE  ClaimsInv'
<1>1. pass[d] # Absent
  BY DEF Skip, Add, Drop, Orphan, Fetch, Stale, Heal, InPass
<1>2. /\ pass[d].unit \in MaybeEntry /\ pass[d].tracking \in MaybeEntry /\ pass[d].pins \in SUBSET Cid
      /\ mirror[d] = Absent => /\ ClaimsOf(pass[d].unit) \subseteq {d}
                               /\ ClaimsOf(pass[d].tracking) \subseteq {d}
  BY <1>1, DocumentsOf
<1>3. /\ file \in [Device -> File \cup {Absent}] /\ pinset \in [Device -> SUBSET Cid]
      /\ want \in [Device -> BOOLEAN] /\ inputs \in 0..MaxInputs
  BY DEF ClaimsInv, TypeOK
<1>4. Absent \in MaybeEntry /\ ClaimsOf(Absent) = {}
  BY DEF MaybeEntry, ClaimsOf
<1>5. CASE Skip(d) \/ Orphan(d)
  BY <1>2, <1>3, <1>5, PublishInv DEF Skip, Orphan, local
<1>6. CASE Drop(d)
  BY <1>2, <1>3, <1>4, <1>6, PublishInv DEF Drop, local
<1>7. CASE Add(d)
  <2> DEFINE c == [version |-> file[d].version, profile |-> Profile[d]]
             e == [cid |-> c, at |-> file[d].at, claims |-> {d}]
  <2>1. file[d] \in File
    BY <1>7, DocumentsOf DEF Add
  <2>2. c \in Cid
    BY <2>1 DEF File, Cid
  <2>3. e \in MaybeEntry /\ ClaimsOf(e) = {d}
    <3>1. e \in Entry
      BY <2>1, <2>2 DEF File, Entry
    <3> QED
      BY <3>1, AbsentIsNone DEF MaybeEntry, ClaimsOf
  <2>4. /\ Publish(d, e, pass[d].pins \cup {c})
        /\ pinset' = [pinset EXCEPT ![d] = @ \cup {c}] /\ UNCHANGED <<file, want, inputs>>
    BY <1>7 DEF Add
  <2> HIDE DEF c, e
  <2>5. pinset' \in [Device -> SUBSET Cid] /\ pass[d].pins \cup {c} \in SUBSET Cid
    BY <1>2, <1>3, <2>2, <2>4
  <2> QED
    BY <1>3, <2>3, <2>4, <2>5, PublishInv
<1>8. CASE Fetch(d)
  <2>1. pass[d].unit \in Entry
    BY <1>2, <1>8 DEF Fetch, MaybeEntry
  <2> DEFINE c == pass[d].unit.cid
             f == [version |-> c.version, at |-> 2 * inputs + 1]
  <2>2. c \in Cid /\ f \in File
    BY <1>3, <2>1, BoundAssumption DEF Entry, Cid, File, Time
  <2>3. CASE UNCHANGED local /\ Publish(d, pass[d].unit, pass[d].pins)
    BY <1>2, <1>3, <1>8, <2>3, PublishInv DEF Fetch, local
  <2>4. CASE /\ pinset' = [pinset EXCEPT ![d] = @ \cup {c}]
             /\ file' = [file EXCEPT ![d] = f]
             /\ Publish(d, pass[d].unit, pass[d].pins \cup {c})
    <3> HIDE DEF c, f
    <3>1. /\ pinset' \in [Device -> SUBSET Cid] /\ file' \in [Device -> File \cup {Absent}]
          /\ pass[d].pins \cup {c} \in SUBSET Cid
      BY <1>2, <1>3, <2>2, <2>4
    <3>2. UNCHANGED <<want, inputs>>
      BY <1>8 DEF Fetch
    <3> QED
      BY <1>2, <1>3, <2>4, <3>1, <3>2, PublishInv
  <2> QED
    BY <1>8, <2>3, <2>4 DEF Fetch
<1>9. CASE Stale(d)
  <2>1. /\ pinset' \in [Device -> SUBSET Cid] /\ want' \in [Device -> BOOLEAN]
        /\ inputs' \in 0..MaxInputs /\ UNCHANGED file
    BY <1>3, <1>9, BoundAssumption DEF Stale, Input
  <2> QED
    BY <1>2, <1>3, <1>4, <1>9, <2>1, PublishInv DEF Stale
<1>10. CASE Heal(d)
  <2> DEFINE healed(now, e) ==
        IF e = Absent THEN now
        ELSE IF d \notin e.claims \/ Holds(pass[d].pins, e.cid) THEN now
        ELSE SetPinClaim(e, d, FALSE)
  <2>1. ASSUME NEW now \in MaybeEntry, NEW e \in MaybeEntry
        PROVE  healed(now, e) \in MaybeEntry
               /\ ClaimsOf(healed(now, e)) \subseteq ClaimsOf(now) \cup ClaimsOf(e) \cup {d}
    BY SetPinClaimEntry
  <2>2. Write(d, healed(unit[d], pass[d].unit), healed(tracking[d], pass[d].tracking))
        /\ UNCHANGED <<local, want, inputs>>
    BY <1>10 DEF Heal
  <2> HIDE DEF healed
  <2>3. /\ unit[d] \in MaybeEntry /\ tracking[d] \in MaybeEntry
        /\ mirror[d] = Absent => ClaimsOf(unit[d]) \subseteq {d} /\ ClaimsOf(tracking[d]) \subseteq {d}
    BY DocumentsOf
  <2>4. /\ healed(unit[d], pass[d].unit) \in MaybeEntry
        /\ ClaimsOf(healed(unit[d], pass[d].unit)) \subseteq ClaimsOf(unit[d]) \cup ClaimsOf(pass[d].unit) \cup {d}
    BY <1>2, <2>1, <2>3
  <2>5. /\ healed(tracking[d], pass[d].tracking) \in MaybeEntry
        /\ ClaimsOf(healed(tracking[d], pass[d].tracking))
             \subseteq ClaimsOf(tracking[d]) \cup ClaimsOf(pass[d].tracking) \cup {d}
    BY <1>2, <2>1, <2>3
  <2>6. mirror[d] = Absent => /\ ClaimsOf(healed(unit[d], pass[d].unit)) \subseteq {d}
                              /\ ClaimsOf(healed(tracking[d], pass[d].tracking)) \subseteq {d}
    BY <1>2, <2>3, <2>4, <2>5
  <2> QED
    BY <1>3, <2>2, <2>4, <2>5, <2>6, WriteInv DEF local
<1> QED
  BY <1>5, <1>6, <1>7, <1>8, <1>9, <1>10

\* The documents move.
LEMMA MirrorInv ==
    ASSUME ClaimsInv, NEW d \in Device, Mirror(d)
    PROVE  ClaimsInv'
<1> DEFINE m == Merge(tracking[d], mirror[d], d, TRUE)
<1>1. /\ m \in MaybeEntry
      /\ mirror[d] # Absent => m # Absent /\ m.at >= mirror[d].at
      /\ \A e \in ClaimsOf(m) : e # d => e \in ClaimsOf(mirror[d])
  <2>1. tracking[d] \in MaybeEntry /\ mirror[d] \in MaybeEntry
        /\ (mirror[d] = Absent => ClaimsOf(tracking[d]) \subseteq {d})
    BY DocumentsOf
  <2>2. CASE mirror[d] = Absent
    BY <2>1, <2>2, MergeEntries
  <2>3. CASE mirror[d] # Absent
    <3>1. mirror[d].claims = ClaimsOf(mirror[d])
      BY <2>3 DEF ClaimsOf
    <3>2. /\ m \in MaybeEntry /\ m # Absent /\ m.at >= mirror[d].at
          /\ \A e \in ClaimsOf(m) : e # d => e \in mirror[d].claims
      <4>1. TRUE \in BOOLEAN
        OBVIOUS
      <4> QED
        BY <2>1, <2>3, <4>1, MergeEntries
    <3> QED
      BY <3>1, <3>2
  <2> QED
    BY <2>2, <2>3
<1>2. /\ mirror' = [mirror EXCEPT ![d] = m]
      /\ UNCHANGED <<unit, tracking, base, origin, local, config, pass, inputs>>
  BY DEF Mirror
<1> HIDE DEF m
<1>3. TypeOK'
  BY <1>1, <1>2 DEF ClaimsInv, TypeOK, MaybeEntry, local, config
<1>4. \A e \in Device : mirror'[e] = IF e = d THEN m ELSE mirror[e]
  BY <1>2 DEF ClaimsInv, TypeOK
<1>5. MirrorAhead'
  <2>1. mirror[d] # Absent => mirror[d].at \in Nat
    BY DocumentsOf, BoundAssumption DEF MaybeEntry, Entry, Time
  <2>2. base[d] # Absent => base[d].at \in Nat
    BY DocumentsOf, BoundAssumption DEF MaybeEntry, Entry, Time
  <2>3. m # Absent => m.at \in Nat
    BY <1>1, BoundAssumption DEF MaybeEntry, Entry, Time
  <2>4. Ahead(m, base[d])
    BY <1>1, <2>1, <2>2, <2>3 DEF ClaimsInv, MirrorAhead, Ahead
  <2> QED
    BY <1>2, <1>4, <2>4 DEF ClaimsInv, MirrorAhead
<1>6. PeersFromBase'
  BY <1>1, <1>2, <1>4 DEF ClaimsInv, PeersFromBase
<1>7. OwnUntilMirrored'
  BY <1>1, <1>2, <1>4 DEF ClaimsInv, OwnUntilMirrored
<1> QED
  BY <1>3, <1>5, <1>6, <1>7 DEF ClaimsInv

\* Reconciling gives the tracking directory what the working copy has.
LEMMA ReconciledEntry ==
    ASSUME ClaimsInv, NEW d \in Device
    PROVE  /\ Reconciled(d) \in MaybeEntry
           /\ mirror[d] = Absent => ClaimsOf(Reconciled(d)) \subseteq {d}
<1>1. /\ tracking[d] \in MaybeEntry /\ mirror[d] \in MaybeEntry /\ TRUE \in BOOLEAN
      /\ mirror[d] = Absent => ClaimsOf(tracking[d]) \subseteq {d}
  BY DocumentsOf
<1>2. /\ Reconciled(d) \in MaybeEntry
      /\ mirror[d] = Absent => Reconciled(d) = tracking[d]
  BY <1>1, MergeEntries DEF Reconciled
<1> QED
  BY <1>1, <1>2

LEMMA ReconcileInv ==
    ASSUME ClaimsInv, NEW d \in Device, Reconcile(d)
    PROVE  ClaimsInv'
<1>1. /\ tracking' = [tracking EXCEPT ![d] = Reconciled(d)]
      /\ UNCHANGED <<unit, mirror, base, origin, local, config, pass, inputs>>
  BY DEF Reconcile
<1>2. TypeOK'
  BY <1>1, ReconciledEntry DEF ClaimsInv, TypeOK, MaybeEntry, local, config
<1>3. MirrorAhead' /\ PeersFromBase'
  BY <1>1 DEF ClaimsInv, MirrorAhead, PeersFromBase
<1>4. OwnUntilMirrored'
  BY <1>1, ReconciledEntry DEF ClaimsInv, TypeOK, OwnUntilMirrored, ClaimsOf
<1> QED
  BY <1>2, <1>3, <1>4 DEF ClaimsInv

LEMMA PinRepoFolderInv ==
    ASSUME ClaimsInv, NEW d \in Device, PinRepoFolder(d)
    PROVE  ClaimsInv'
<1> DEFINE r == Reconciled(d)
           u == IF pinned[d] THEN Merge(unit[d], r, d, FALSE) ELSE unit[d]
           t == IF pinned[d] THEN Absent ELSE r
           p == [unit |-> u, tracking |-> t, pins |-> pinset[d], want |-> want[d], pinned |-> pinned[d]]
<1>1. r \in MaybeEntry /\ (mirror[d] = Absent => ClaimsOf(r) \subseteq {d})
  BY ReconciledEntry
<1>2. u \in MaybeEntry /\ (mirror[d] = Absent => ClaimsOf(u) \subseteq {d})
  BY <1>1, DocumentsOf, MergeEntries
<1>3. t \in MaybeEntry /\ (mirror[d] = Absent => ClaimsOf(t) \subseteq {d})
  BY <1>1 DEF MaybeEntry, ClaimsOf
<1>4. /\ tracking' = [tracking EXCEPT ![d] = r] /\ pass' = [pass EXCEPT ![d] = p]
      /\ UNCHANGED <<unit, mirror, base, origin, local, config, inputs>>
  BY DEF PinRepoFolder
<1> HIDE DEF r, u, t
<1>5. p \in Pass /\ p.unit = u /\ p.tracking = t
  BY <1>2, <1>3 DEF ClaimsInv, TypeOK, Pass, MaybeEntry
<1> HIDE DEF p
<1>6. TypeOK'
  BY <1>1, <1>4, <1>5 DEF ClaimsInv, TypeOK, MaybeEntry, local, config
<1>7. MirrorAhead' /\ PeersFromBase'
  BY <1>4 DEF ClaimsInv, MirrorAhead, PeersFromBase
<1>8. OwnUntilMirrored'
  <2> SUFFICES ASSUME NEW e \in Device, mirror'[e] = Absent
               PROVE  /\ ClaimsOf(unit'[e]) \subseteq {e} /\ ClaimsOf(tracking'[e]) \subseteq {e}
                      /\ pass'[e] # Absent => /\ ClaimsOf(pass'[e].unit) \subseteq {e}
                                              /\ ClaimsOf(pass'[e].tracking) \subseteq {e}
    BY DEF OwnUntilMirrored, ClaimsOf
  <2>1. CASE e = d
    BY <1>1, <1>2, <1>3, <1>4, <1>5, <2>1, DocumentsOf DEF ClaimsInv, TypeOK
  <2>2. CASE e # d
    <3>1. unit'[e] = unit[e] /\ tracking'[e] = tracking[e] /\ pass'[e] = pass[e] /\ mirror[e] = Absent
      BY <1>4, <2>2 DEF ClaimsInv, TypeOK
    <3> QED
      BY <3>1, DocumentsOf
  <2> QED
    BY <2>1, <2>2
<1> QED
  BY <1>6, <1>7, <1>8 DEF ClaimsInv

\* Git gives the working copy what the remote has.
LEMMA GitInv ==
    ASSUME ClaimsInv, NEW d \in Device, Cycle(d) \/ Pull(d)
    PROVE  ClaimsInv'
<1> DEFINE m == GitMerge(d)
<1>1. /\ m \in MaybeEntry /\ Ahead(m, origin) /\ (mirror[d] # Absent => m # Absent)
      /\ \A e \in ClaimsOf(m) : e # d => e \in ClaimsOf(origin)
  BY GitMerged
<1>2. /\ mirror' = [mirror EXCEPT ![d] = m]
      /\ UNCHANGED <<unit, tracking, local, config, pass>>
      /\ inputs' \in 0..MaxInputs
  BY BoundAssumption DEF Cycle, Pull, Input, ClaimsInv, TypeOK
<1>3. \/ base' = [base EXCEPT ![d] = m] /\ origin' = m
      \/ base' = [base EXCEPT ![d] = origin] /\ origin' = origin
  BY DEF Cycle, Pull
<1> HIDE DEF m
<1>4. origin \in MaybeEntry /\ (origin # Absent => origin.at \in Nat) /\ (m # Absent => m.at \in Nat)
  BY <1>1, BoundAssumption DEF ClaimsInv, TypeOK, MaybeEntry, Entry, Time
<1>5. TypeOK'
  BY <1>1, <1>2, <1>3, <1>4 DEF ClaimsInv, TypeOK, MaybeEntry, local, config
<1>6. MirrorAhead'
  <2> SUFFICES ASSUME NEW e \in Device
               PROVE  Ahead(mirror'[e], base'[e]) /\ Ahead(origin', base'[e])
    BY DEF MirrorAhead, Ahead
  <2>1. Ahead(origin', origin)
    BY <1>1, <1>3, <1>4 DEF Ahead
  <2>2. CASE e = d
    BY <1>1, <1>2, <1>3, <1>4, <2>2 DEF ClaimsInv, TypeOK, Ahead
  <2>3. CASE e # d
    <3>1. mirror'[e] = mirror[e] /\ base'[e] = base[e]
      BY <1>2, <1>3, <2>3 DEF ClaimsInv, TypeOK
    <3>2. /\ Ahead(mirror[e], base[e]) /\ Ahead(origin, base[e])
          /\ (base[e] # Absent => base[e].at \in Nat) /\ (origin' # Absent => origin'.at \in Nat)
      BY <1>1, <1>3, <1>4, DocumentsOf, BoundAssumption DEF ClaimsInv, MirrorAhead, MaybeEntry, Entry, Time
    <3> QED
      BY <1>4, <2>1, <3>1, <3>2 DEF Ahead
  <2> QED
    BY <2>2, <2>3
<1>7. PeersFromBase'
  <2> SUFFICES ASSUME NEW e \in Device, NEW g \in ClaimsOf(mirror'[e]), g # e
               PROVE  g \in ClaimsOf(base'[e])
    BY DEF PeersFromBase, ClaimsOf
  <2>1. CASE e = d
    BY <1>1, <1>2, <1>3, <2>1 DEF ClaimsInv, TypeOK
  <2>2. CASE e # d
    <3>1. mirror'[e] = mirror[e] /\ base'[e] = base[e]
      BY <1>2, <1>3, <2>2 DEF ClaimsInv, TypeOK
    <3> QED
      BY <3>1 DEF ClaimsInv, PeersFromBase
  <2> QED
    BY <2>1, <2>2
<1>8. OwnUntilMirrored'
  <2>1. \A e \in Device : mirror'[e] = Absent => mirror[e] = Absent
    BY <1>1, <1>2 DEF ClaimsInv, TypeOK
  <2> QED
    BY <1>2, <2>1 DEF ClaimsInv, OwnUntilMirrored
<1> QED
  BY <1>5, <1>6, <1>7, <1>8 DEF ClaimsInv

\* What comes from outside leaves the documents alone.
LEMMA OutsideInv ==
    ASSUME ClaimsInv, NEW d \in Device, NEW g \in Device,
           \/ Abandon(d) \/ Edit(d) \/ Copy(d, g) \/ Remove(d)
           \/ LosePin(d) \/ Decide(d) \/ OptOut(d)
    PROVE  ClaimsInv'
<1>1. UNCHANGED copies /\ (pass' = pass \/ pass' = [pass EXCEPT ![d] = Absent])
  BY DEF Abandon, Edit, Copy, Remove, LosePin, Decide, OptOut
<1>2. inputs \in Nat /\ inputs < MaxInputs /\ inputs' \in 0..MaxInputs
  BY BoundAssumption DEF Abandon, Edit, Copy, Remove, LosePin, Decide, OptOut, Input, ClaimsInv, TypeOK
<1>3. [version |-> inputs + 1, at |-> 2 * inputs + 2] \in File
  BY <1>2, BoundAssumption DEF File, Version, Time
<1>4. file' \in [Device -> File \cup {Absent}]
  BY <1>3 DEF Abandon, Edit, Copy, Remove, LosePin, Decide, OptOut, local, ClaimsInv, TypeOK
<1>5. pinset' \in [Device -> SUBSET Cid]
  <2>1. CASE LosePin(d)
    BY <2>1 DEF LosePin, ClaimsInv, TypeOK
  <2>2. CASE ~LosePin(d)
    BY <2>2 DEF Abandon, Edit, Copy, Remove, Decide, OptOut, local, ClaimsInv, TypeOK
  <2> QED
    BY <2>1, <2>2
<1>6. want' \in [Device -> BOOLEAN] /\ pinned' \in [Device -> BOOLEAN]
  BY DEF Abandon, Edit, Copy, Remove, LosePin, Decide, OptOut, config, ClaimsInv, TypeOK
<1>7. pass' \in [Device -> Pass \cup {Absent}] /\ \A e \in Device : pass'[e] # Absent => pass'[e] = pass[e]
  BY <1>1 DEF ClaimsInv, TypeOK
<1>8. TypeOK'
  BY <1>1, <1>2, <1>4, <1>5, <1>6, <1>7 DEF ClaimsInv, TypeOK, copies
<1>9. MirrorAhead' /\ PeersFromBase'
  BY <1>1 DEF ClaimsInv, MirrorAhead, PeersFromBase, copies
<1>10. OwnUntilMirrored'
  BY <1>1, <1>7 DEF ClaimsInv, OwnUntilMirrored, copies
<1> QED
  BY <1>8, <1>9, <1>10 DEF ClaimsInv

LEMMA StepInv == ClaimsInv /\ [Next]_vars => ClaimsInv'
<1> SUFFICES ASSUME ClaimsInv, [Next]_vars PROVE ClaimsInv'
  OBVIOUS
<1>1. CASE UNCHANGED vars
  BY <1>1 DEF vars, copies, local, config, ClaimsInv, TypeOK, MirrorAhead, PeersFromBase, OwnUntilMirrored
<1>2. ASSUME NEW d \in Device, PinPass(d) \/ Stale(d)
      PROVE  ClaimsInv'
  BY <1>2, PinRepoFolderInv, PassEndsInv DEF PinPass
<1>3. ASSUME NEW d \in Device, Mirror(d) \/ Reconcile(d) \/ Cycle(d) \/ Pull(d)
      PROVE  ClaimsInv'
  BY <1>3, MirrorInv, ReconcileInv, GitInv
<1>4. ASSUME NEW d \in Device, NEW g \in Device,
             \/ Abandon(d) \/ Edit(d) \/ Copy(d, g) \/ Remove(d)
             \/ LosePin(d) \/ Decide(d) \/ OptOut(d)
      PROVE  ClaimsInv'
  BY <1>4, OutsideInv
<1> QED
  BY <1>1, <1>2, <1>3, <1>4 DEF Next, Outside

LEMMA Invariance == Spec => []ClaimsInv
BY InitInv, StepInv, PTL DEF Spec

-----------------------------------------------------------------------------
(* What follows.                                                            *)

\* Every document is an entry, whatever the fleet merges and in whatever order.
THEOREM TypeCorrect == Spec => []TypeOK
<1>1. ClaimsInv => TypeOK
  BY DEF ClaimsInv
<1> QED
  BY <1>1, Invariance, PTL

\* Only a git cycle that pushes moves the remote.
LEMMA OriginMoves ==
    ASSUME ClaimsInv, [Next]_vars
    PROVE  origin' = origin \/ \E d \in Device : origin' = GitMerge(d)
<1>1. ASSUME NEW d \in Device, PinPass(d)
      PROVE  origin' = origin
  BY <1>1 DEF PinPass, PinRepoFolder, Skip, Add, Drop, Orphan, Fetch, Heal, Publish, Write
<1>2. ASSUME NEW d \in Device, Mirror(d) \/ Reconcile(d)
      PROVE  origin' = origin
  BY <1>2 DEF Mirror, Reconcile
<1>3. ASSUME NEW d \in Device, Outside(d)
      PROVE  origin' = origin
  BY <1>3 DEF Outside, Stale, Publish, Write, Pull, Abandon, Edit, Remove, LosePin, Decide, OptOut, Copy, copies
<1>4. ASSUME NEW d \in Device, Cycle(d)
      PROVE  origin' = GitMerge(d)
  BY <1>4 DEF Cycle
<1>5. CASE UNCHANGED vars
  BY <1>5 DEF vars, copies
<1> QED
  BY <1>1, <1>2, <1>3, <1>4, <1>5 DEF Next

\* A claim that a computer has withdrawn is not brought back by another, however old
\* the manifest it merges, pushes or pulls: manifest-merge.ts and git-merge-driver.ts.
THEOREM ClaimsSpeakForThemselves == Spec => SpeaksForItself
<1>1. ASSUME ClaimsInv, [Next]_vars, NEW e \in Device, e \in ClaimsOf(origin'), e \notin ClaimsOf(origin)
      PROVE  e \in ClaimsOf(mirror[e])
  <2>1. PICK d \in Device : origin' = GitMerge(d)
    BY <1>1, OriginMoves
  <2>2. e \in ClaimsOf(GitMerge(d))
    BY <1>1, <2>1
  <2> QED
    BY <1>1, <2>2, GitMerged
<1>2. ClaimsInv /\ [Next]_vars =>
        [\A d \in Device : d \in ClaimsOf(origin') /\ d \notin ClaimsOf(origin)
           => d \in ClaimsOf(mirror[d])]_vars
  BY <1>1
<1> QED
  BY <1>2, Invariance, PTL DEF Spec, SpeaksForItself

\* The shared entry is never lost in a merge, nor replaced by an older one.
THEOREM NeverGoesBackEver == Spec => NeverGoesBack
<1>1. ASSUME ClaimsInv, [Next]_vars, origin # Absent
      PROVE  origin' # Absent /\ origin'.at >= origin.at
  <2>1. origin.at \in Nat
    BY <1>1, BoundAssumption DEF ClaimsInv, TypeOK, Entry, Time
  <2> QED
    BY <1>1, <2>1, OriginMoves, GitMerged DEF Ahead
<1>2. ClaimsInv /\ [Next]_vars => [origin # Absent => origin' # Absent /\ origin'.at >= origin.at]_vars
  BY <1>1
<1> QED
  BY <1>2, Invariance, PTL DEF Spec, NeverGoesBack

=============================================================================
