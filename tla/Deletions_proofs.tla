-------------------------- MODULE Deletions_proofs --------------------------
(* For any fleet, any paths and any inputs: no copy of the ledger claims what *)
(* nobody said, bytes go only where somebody asked, the ledger at origin only *)
(* grows, and the merge of records is a join.                                *)
EXTENDS Deletions, FiniteSetTheorems, TLAPS

\* The stamps are the numbers of the instructions.
Numbered ==
    /\ IsFiniteSet(said)
    /\ \A s \in said : s.at # 0 /\ s.at <= Cardinality(said)
    /\ Cardinality(said) + events <= MaxInputs + 1

\* NothingMadeUp alone is not inductive: that an undelete is later than what it
\* lifts needs the stamps of the said to be those that were given out.
DeletionsInv == TypeOK /\ Numbered /\ NothingMadeUp

-----------------------------------------------------------------------------
(* The operators of the ledger.                                             *)

LEMMA EmptyIsLedger == Empty \in Ledger
BY BoundAssumption DEF Empty, NoRecord, Ledger, Record, Time, MaxSaid

LEMMA MergedRecord ==
    ASSUME NEW a \in Record, NEW b \in Record
    PROVE  MergeRecord(a, b) \in Record
BY BoundAssumption DEF MergeRecord, Record, Time, MaxSaid, Later

LEMMA MergedLedger ==
    ASSUME NEW mine \in Ledger, NEW theirs \in Ledger
    PROVE  Merge(mine, theirs) \in Ledger
<1>1. \A k \in Path : mine[k] \in Record /\ theirs[k] \in Record
  BY DEF Ledger
<1> QED
  BY <1>1, MergedRecord DEF Merge, Ledger

LEMMA ReceiptsLedger ==
    ASSUME NEW led \in Ledger, NEW d \in Device
    PROVE  /\ Receipts(led, d) \in Ledger
           /\ \A k \in Path : /\ Receipts(led, d)[k].removed = led[k].removed
                              /\ Receipts(led, d)[k].undeleted = led[k].undeleted
                              /\ Receipts(led, d)[k].on = led[k].on
                              /\ Receipts(led, d)[k].fleet = led[k].fleet
                              /\ Receipts(led, d)[k].bytes = led[k].bytes
<1>1. \A k \in Path : led[k] \in Record
  BY DEF Ledger
<1>2. \A k \in Path : [led[k] EXCEPT !.enforced = @ \cup {d}] \in Record
  BY <1>1 DEF Record
<1>3. Receipts(led, d) \in Ledger
  BY <1>1, <1>2 DEF Receipts, Ledger
<1> QED
  BY <1>1, <1>3 DEF Receipts, Record

\* Who has merged what in which order makes no difference, and a second merge
\* changes nothing: the merge of records is commutative, associative and idempotent,
\* as long as a stamp names one device and an undelete is later than its deletion.
Consistent(a, b) ==
    /\ a.removed = b.removed => a.on = b.on

Proper(a) ==
    /\ a.removed = 0 => a = NoRecord
    /\ a.undeleted = 0 \/ a.undeleted > a.removed

THEOREM MergeIsJoin ==
    ASSUME NEW a \in Record, NEW b \in Record, NEW c \in Record,
           Proper(a), Proper(b), Proper(c),
           Consistent(a, b), Consistent(b, c), Consistent(a, c)
    PROVE  /\ MergeRecord(a, a) = a
           /\ MergeRecord(a, b) = MergeRecord(b, a)
           /\ MergeRecord(MergeRecord(a, b), c) = MergeRecord(a, MergeRecord(b, c))
<1>0. MaxSaid \in Nat
  BY BoundAssumption DEF MaxSaid
<1>1. MergeRecord(a, a) = a
  BY <1>0 DEF MergeRecord, Record, Time, Later, Proper
<1>2. MergeRecord(a, b) = MergeRecord(b, a)
  BY <1>0 DEF MergeRecord, Record, Time, Later, Proper, Consistent, NoRecord
<1>3. MergeRecord(MergeRecord(a, b), c) = MergeRecord(a, MergeRecord(b, c))
  BY <1>0, SMTT(60) DEF MergeRecord, Record, Time, Later, Proper, Consistent, NoRecord
<1> QED
  BY <1>1, <1>2, <1>3

-----------------------------------------------------------------------------
(* What a ledger claims, against any set of instructions.                    *)

TrueOf(S, k, r) ==
    /\ \E s \in S : Deleted(s, k) /\ s.at = r.removed /\ s.by = r.on
    /\ r.fleet => (\E s \in S : Deleted(s, k) /\ s.act.fleet)
    /\ r.bytes => (\E s \in S : Deleted(s, k) /\ s.act.bytes)
    /\ r.undeleted # 0 => /\ r.undeleted > r.removed
                          /\ \E s \in S : Undeleted(s, k) /\ s.at = r.undeleted

TrueLedger(S, led) == \A k \in Path : led[k].removed # 0 => TrueOf(S, k, led[k])

LEMMA TruthNow ==
    NothingMadeUp <=>
      /\ TrueLedger(said, origin)
      /\ \A d \in Device : /\ TrueLedger(said, ledger[d]) /\ TrueLedger(said, snap[d])
                           /\ \A led \in enforcing[d] : TrueLedger(said, led)
BY DEF NothingMadeUp, AllTruthful, Truthful, TrueLedger, TrueOf

LEMMA TruthNext ==
    NothingMadeUp' <=>
      /\ TrueLedger(said', origin')
      /\ \A d \in Device : /\ TrueLedger(said', ledger'[d]) /\ TrueLedger(said', snap'[d])
                           /\ \A led \in enforcing'[d] : TrueLedger(said', led)
BY DEF NothingMadeUp, AllTruthful, Truthful, TrueLedger, TrueOf

\* What was said stays said.
LEMMA TruthGrows ==
    ASSUME NEW S, NEW T, S \subseteq T, NEW led, TrueLedger(S, led)
    PROVE  TrueLedger(T, led)
BY DEF TrueLedger, TrueOf

LEMMA EmptyIsTrue == \A S : TrueLedger(S, Empty)
BY DEF TrueLedger, Empty, NoRecord

LEMMA MergedRecordIsTrue ==
    ASSUME NEW S, NEW k, NEW a \in Record, NEW b \in Record,
           a.removed # 0 => TrueOf(S, k, a), b.removed # 0 => TrueOf(S, k, b)
    PROVE  MergeRecord(a, b).removed # 0 => TrueOf(S, k, MergeRecord(a, b))
BY BoundAssumption DEF MergeRecord, Record, Time, MaxSaid, Later, TrueOf

LEMMA MergedIsTrue ==
    ASSUME NEW S, NEW mine \in Ledger, NEW theirs \in Ledger,
           TrueLedger(S, mine), TrueLedger(S, theirs)
    PROVE  TrueLedger(S, Merge(mine, theirs))
<1>1. \A k \in Path : mine[k] \in Record /\ theirs[k] \in Record
  BY DEF Ledger
<1> QED
  BY <1>1, MergedRecordIsTrue DEF Merge, TrueLedger

LEMMA ReceiptsAreTrue ==
    ASSUME NEW S, NEW led \in Ledger, NEW d \in Device, TrueLedger(S, led)
    PROVE  TrueLedger(S, Receipts(led, d))
BY ReceiptsLedger DEF TrueLedger, TrueOf

-----------------------------------------------------------------------------
(* The numbers of the instructions.                                          *)

LEMMA SaidCounts ==
    ASSUME DeletionsInv
    PROVE  Cardinality(said) \in Nat /\ events \in Nat /\ MaxInputs \in Nat
BY BoundAssumption, FS_CardinalityType DEF DeletionsInv, Numbered, TypeOK, Time, MaxSaid

LEMMA SayNumbers ==
    ASSUME DeletionsInv, NEW kind \in {"delete", "undelete"}, NEW d \in Device, NEW p \in Path,
           NEW act \in [fleet : BOOLEAN, bytes : BOOLEAN, unpin : BOOLEAN],
           Say(kind, d, p, act), UNCHANGED events
    PROVE  /\ Numbered'
           /\ Cardinality(said) + 1 \in Time
           /\ said \subseteq said'
           /\ said' \subseteq [kind : {"delete", "undelete"}, at : Time, by : Device,
                       path : Path, act : [fleet : BOOLEAN, bytes : BOOLEAN, unpin : BOOLEAN]]
<1> DEFINE n == Cardinality(said) + 1
           x == [kind |-> kind, at |-> n, by |-> d, path |-> p, act |-> act]
<1>1. Cardinality(said) \in Nat /\ events \in Nat /\ MaxInputs \in Nat
  BY SaidCounts
<1>2. n \in Time /\ n # 0 /\ n + events <= MaxInputs + 1
  BY <1>1 DEF Say, MayHappen, DeletedAgain, Time, MaxSaid
<1>3. said' = said \cup {x}
  BY DEF Say
<1>4. x \notin said
  BY <1>1 DEF DeletionsInv, Numbered
<1>5. IsFiniteSet(said) /\ IsFiniteSet(said') /\ Cardinality(said') = n
  <2>1. IsFiniteSet(said)
    BY DEF DeletionsInv, Numbered
  <2>2. IsFiniteSet(said \cup {x}) /\ Cardinality(said \cup {x}) = n
    BY <2>1, <1>4, FS_AddElement
  <2> QED
    BY <2>1, <2>2, <1>3
<1>6. \A s \in said' : s.at # 0 /\ s.at <= n
  BY <1>1, <1>2, <1>3 DEF DeletionsInv, Numbered, TypeOK, Time, MaxSaid
<1>7. Numbered'
  BY <1>2, <1>5, <1>6 DEF Numbered
<1>8. x \in [kind : {"delete", "undelete"}, at : Time, by : Device,
                       path : Path, act : [fleet : BOOLEAN, bytes : BOOLEAN, unpin : BOOLEAN]]
  BY <1>2
<1> QED
  BY <1>2, <1>3, <1>7, <1>8 DEF DeletionsInv, TypeOK

LEMMA EventNumbers ==
    ASSUME DeletionsInv, UNCHANGED said, Event \/ UNCHANGED events
    PROVE  Numbered' /\ events' \in Time
BY SaidCounts DEF Event, MayHappen, DeletionsInv, Numbered, TypeOK, Time, MaxSaid

-----------------------------------------------------------------------------
(* Every step keeps the invariant.                                           *)

LEMMA InitInv == Init => DeletionsInv
<1> SUFFICES ASSUME Init PROVE DeletionsInv
  OBVIOUS
<1>1. Empty \in Ledger
  BY EmptyIsLedger
<1>2. TypeOK
  BY <1>1, DataAssumption, BoundAssumption DEF Init, TypeOK, Stages, Time, MaxSaid
<1>3. Numbered
  BY BoundAssumption, FS_EmptySet DEF Init, Numbered
<1>4. NothingMadeUp
  BY EmptyIsTrue, TruthNow DEF Init
<1> QED
  BY <1>2, <1>3, <1>4 DEF DeletionsInv

\* The ledgers have their type, and claim what was said.
LEMMA LedgersOf ==
    ASSUME DeletionsInv
    PROVE  /\ origin \in Ledger /\ TrueLedger(said, origin)
           /\ \A d \in Device :
                 /\ ledger[d] \in Ledger /\ TrueLedger(said, ledger[d])
                 /\ snap[d] \in Ledger /\ TrueLedger(said, snap[d])
                 /\ \A led \in enforcing[d] : led \in Ledger /\ TrueLedger(said, led)
BY TruthNow DEF DeletionsInv, TypeOK

\* A deletion is recorded: the new record is true because it is said now.
LEMMA DeleteInv ==
    ASSUME DeletionsInv, NEW d \in Device, NEW p \in Path, NEW act \in Actions, Delete(d, p, act)
    PROVE  DeletionsInv'
<1> DEFINE rec == [removed |-> Cardinality(said) + 1, undeleted |-> 0, on |-> d, fleet |-> act.fleet,
                   bytes |-> act.bytes, unpin |-> act.unpin, enforced |-> {}]
           new == [Empty EXCEPT ![p] = rec]
           led == Merge(ledger[d], new)
<1>1. act \in [fleet : BOOLEAN, bytes : BOOLEAN, unpin : BOOLEAN]
  BY ActionsAssumption
<1>2. Say("delete", d, p, act) /\ UNCHANGED events
  BY DEF Delete
<1>3. Numbered' /\ Cardinality(said) + 1 \in Time /\ said \subseteq said'
      /\ said' \subseteq [kind : {"delete", "undelete"}, at : Time, by : Device,
                       path : Path, act : [fleet : BOOLEAN, bytes : BOOLEAN, unpin : BOOLEAN]]
  BY <1>1, <1>2, SayNumbers
<1>4. rec \in Record
  BY <1>1, <1>3, BoundAssumption DEF Record, Time, MaxSaid
<1>5. new \in Ledger
  BY <1>4, EmptyIsLedger DEF Ledger
<1>6. [kind |-> "delete", at |-> Cardinality(said) + 1, by |-> d, path |-> p, act |-> act] \in said'
  BY <1>2 DEF Say
<1>7. TrueOf(said', p, rec)
  BY <1>6 DEF TrueOf, Deleted
<1>8. TrueLedger(said', new)
  BY <1>7, EmptyIsTrue DEF TrueLedger, Empty
<1>9. led \in Ledger /\ TrueLedger(said', led)
  BY <1>3, <1>5, <1>8, LedgersOf, TruthGrows, MergedLedger, MergedIsTrue
<1>10. ledger' = [ledger EXCEPT ![d] = led] /\ enforcing' = [enforcing EXCEPT ![d] = @ \cup {led}]
       /\ UNCHANGED <<origin, files, run, pulling, events>>
  BY DEF Delete
<1>11. TypeOK'
  BY <1>3, <1>9, <1>10 DEF DeletionsInv, TypeOK, files, run
<1>12. NothingMadeUp'
  <2>1. TrueLedger(said', origin')
    BY <1>3, <1>10, LedgersOf, TruthGrows
  <2>2. ASSUME NEW e \in Device
        PROVE  /\ TrueLedger(said', ledger'[e]) /\ TrueLedger(said', snap'[e])
               /\ \A l \in enforcing'[e] : TrueLedger(said', l)
    <3>1. TrueLedger(said', ledger'[e])
      BY <1>3, <1>9, <1>10, LedgersOf, TruthGrows DEF DeletionsInv, TypeOK
    <3>2. TrueLedger(said', snap'[e])
      BY <1>3, <1>10, LedgersOf, TruthGrows DEF run
    <3>3. \A l \in enforcing'[e] : TrueLedger(said', l)
      BY <1>3, <1>9, <1>10, LedgersOf, TruthGrows DEF DeletionsInv, TypeOK
    <3> QED
      BY <3>1, <3>2, <3>3
  <2> QED
    BY <2>1, <2>2, TruthNext
<1> QED
  BY <1>3, <1>11, <1>12 DEF DeletionsInv

\* A deletion is lifted: every instruction so far has a smaller number.
LEMMA UndeleteInv ==
    ASSUME DeletionsInv, NEW d \in Device, NEW p \in Path, Undelete(d, p)
    PROVE  DeletionsInv'
<1> DEFINE act == [fleet |-> FALSE, bytes |-> FALSE, unpin |-> FALSE]
           n == Cardinality(said) + 1
<1>1. Say("undelete", d, p, act) /\ UNCHANGED events
  BY DEF Undelete
<1>2. Numbered' /\ n \in Time /\ said \subseteq said'
      /\ said' \subseteq [kind : {"delete", "undelete"}, at : Time, by : Device,
                       path : Path, act : [fleet : BOOLEAN, bytes : BOOLEAN, unpin : BOOLEAN]]
  <2>1. act \in [fleet : BOOLEAN, bytes : BOOLEAN, unpin : BOOLEAN]
    OBVIOUS
  <2> HIDE DEF act
  <2> QED
    BY <1>1, <2>1, SayNumbers
<1>3. [kind |-> "undelete", at |-> n, by |-> d, path |-> p, act |-> act] \in said'
  BY <1>1 DEF Say
<1>4. ledger' = [ledger EXCEPT ![d][p].undeleted = n]
      /\ UNCHANGED <<origin, files, run, pulling, enforcing, events>>
  BY DEF Undelete
<1> DEFINE new == [ledger[d] EXCEPT ![p].undeleted = n]
<1>5. ledger[d] \in Ledger /\ TrueLedger(said, ledger[d]) /\ ledger[d][p] \in Record
  BY LedgersOf DEF Ledger
<1>6. new[p] = [ledger[d][p] EXCEPT !.undeleted = n] /\ \A k \in Path : k # p => new[k] = ledger[d][k]
  BY <1>5 DEF Ledger
<1>7. new \in Ledger
  BY <1>2, <1>5 DEF Ledger, Record
<1>8. TrueLedger(said', new)
  <2>1. TrueOf(said, p, ledger[d][p])
    BY <1>5 DEF Undelete, TrueLedger
  <2>2. n > ledger[d][p].removed
    <3>1. PICK s \in said : s.at = ledger[d][p].removed
      BY <2>1 DEF TrueOf
    <3>2. Cardinality(said) \in Nat /\ s.at <= Cardinality(said) /\ s.at \in Nat
      BY SaidCounts DEF DeletionsInv, Numbered, TypeOK, Time, MaxSaid
    <3> QED
      BY <3>1, <3>2
  <2>3. /\ new[p].removed = ledger[d][p].removed /\ new[p].on = ledger[d][p].on
        /\ new[p].fleet = ledger[d][p].fleet /\ new[p].bytes = ledger[d][p].bytes
        /\ new[p].undeleted = n
    BY <1>5, <1>6 DEF Record
  <2> HIDE DEF new
  <2>4. TrueOf(said', p, new[p])
    BY <1>2, <1>3, <2>1, <2>2, <2>3 DEF TrueOf, Undeleted
  <2>5. TrueLedger(said', ledger[d])
    BY <1>2, <1>5, TruthGrows
  <2> QED
    BY <1>6, <2>4, <2>5 DEF TrueLedger
<1>9. \A e \in Device : ledger'[e] = IF e = d THEN new ELSE ledger[e]
  BY <1>4 DEF DeletionsInv, TypeOK
<1>10. ledger' \in [Device -> Ledger]
  BY <1>4, <1>7, <1>9 DEF DeletionsInv, TypeOK
<1> HIDE DEF new
<1>11. TypeOK'
  BY <1>2, <1>4, <1>10 DEF DeletionsInv, TypeOK, files, run
<1>12. NothingMadeUp'
  <2>1. TrueLedger(said', origin')
    BY <1>2, <1>4, LedgersOf, TruthGrows
  <2>2. ASSUME NEW e \in Device
        PROVE  /\ TrueLedger(said', ledger'[e]) /\ TrueLedger(said', snap'[e])
               /\ \A l \in enforcing'[e] : TrueLedger(said', l)
    BY <1>2, <1>4, <1>8, <1>9, LedgersOf, TruthGrows DEF run
  <2> QED
    BY <2>1, <2>2, TruthNext
<1> QED
  BY <1>2, <1>11, <1>12 DEF DeletionsInv

\* A step that says nothing leaves every claim true that it moves.
LEMMA QuietInv ==
    ASSUME DeletionsInv, UNCHANGED said, Event \/ UNCHANGED events,
           origin' \in Ledger, TrueLedger(said, origin'),
           ledger' \in [Device -> Ledger], snap' \in [Device -> Ledger],
           enforcing' \in [Device -> SUBSET Ledger],
           \A d \in Device : /\ TrueLedger(said, ledger'[d]) /\ TrueLedger(said, snap'[d])
                             /\ \A led \in enforcing'[d] : TrueLedger(said, led),
           disk' \in [Device -> SUBSET Path], pinset' \in [Device -> SUBSET Content],
           listed' \subseteq Path, marked' \subseteq Path, want' \in [Device -> SUBSET Path],
           pass' \in [Device -> Stages], decided' \in [Device -> SUBSET Path],
           fetching' \in [Device -> SUBSET Path], pulling' \in [Device -> SUBSET Path]
    PROVE  DeletionsInv'
<1>1. Numbered' /\ events' \in Time
  BY EventNumbers
<1>2. TypeOK'
  BY <1>1 DEF DeletionsInv, TypeOK
<1>3. NothingMadeUp'
  BY TruthNext
<1> QED
  BY <1>1, <1>2, <1>3 DEF DeletionsInv

\* What may be taken is on the disk, or pinned.
LEMMA ReapedTypes ==
    ASSUME DeletionsInv, NEW d \in Device, NEW led, NEW kept \in SUBSET Doomed(led, d),
           NEW held \in SUBSET Unpinned(led, d), Reaped(led, d, kept, held)
    PROVE  /\ disk' \in [Device -> SUBSET Path] /\ pinset' \in [Device -> SUBSET Content]
           /\ Event \/ UNCHANGED events
<1>1. disk \in [Device -> SUBSET Path] /\ pinset \in [Device -> SUBSET Content]
  BY DEF DeletionsInv, TypeOK
<1>2. kept \subseteq disk[d] /\ held \subseteq pinset[d]
  BY DEF Doomed, Unpinned
<1> QED
  BY <1>1, <1>2 DEF Reaped

LEMMA TargetsListed ==
    ASSUME NEW led, NEW d PROVE Targets(led, d) \subseteq listed
BY DEF Targets

LEMMA EnforceNowInv ==
    ASSUME DeletionsInv, NEW d \in Device, NEW led \in enforcing[d], EnforceNow(d, led)
    PROVE  DeletionsInv'
<1>1. led \in Ledger /\ TrueLedger(said, led)
  BY LedgersOf
<1>2. Receipts(led, d) \in Ledger /\ TrueLedger(said, Receipts(led, d))
  BY <1>1, ReceiptsLedger, ReceiptsAreTrue
<1>3. PICK kept \in SUBSET Doomed(led, d), held \in {{}, Unpinned(led, d)} : Reaped(led, d, kept, held)
  BY DEF EnforceNow
<1>4. /\ disk' \in [Device -> SUBSET Path] /\ pinset' \in [Device -> SUBSET Content]
      /\ Event \/ UNCHANGED events
  BY <1>3, ReapedTypes
<1>5. marked' \subseteq Path
  BY TargetsListed DEF EnforceNow, DeletionsInv, TypeOK
<1>6. /\ ledger' = [ledger EXCEPT ![d] = Receipts(led, d)]
      /\ enforcing' = [enforcing EXCEPT ![d] = @ \ {led}]
      /\ UNCHANGED <<origin, listed, want, run, pulling, said>>
  BY DEF EnforceNow
<1>7. ledger' \in [Device -> Ledger] /\ enforcing' \in [Device -> SUBSET Ledger]
  BY <1>2, <1>6 DEF DeletionsInv, TypeOK
<1>8. \A e \in Device : /\ TrueLedger(said, ledger'[e]) /\ TrueLedger(said, snap'[e])
                         /\ \A l \in enforcing'[e] : TrueLedger(said, l)
  BY <1>2, <1>6, LedgersOf DEF DeletionsInv, TypeOK, run
<1>9. /\ origin' \in Ledger /\ TrueLedger(said, origin') /\ UNCHANGED said
      /\ snap' \in [Device -> Ledger] /\ listed' \subseteq Path /\ want' \in [Device -> SUBSET Path]
      /\ pass' \in [Device -> Stages] /\ decided' \in [Device -> SUBSET Path]
      /\ fetching' \in [Device -> SUBSET Path] /\ pulling' \in [Device -> SUBSET Path]
  BY <1>6, LedgersOf DEF DeletionsInv, TypeOK, run
<1> QED
  BY <1>4, <1>5, <1>7, <1>8, <1>9, QuietInv

LEMMA BeginInv ==
    ASSUME DeletionsInv, NEW d \in Device, Begin(d)
    PROVE  DeletionsInv'
<1>1. Receipts(ledger[d], d) \in Ledger /\ TrueLedger(said, Receipts(ledger[d], d))
  BY LedgersOf, ReceiptsLedger, ReceiptsAreTrue
<1>2. PICK kept \in SUBSET Doomed(ledger[d], d), held \in SUBSET Unpinned(ledger[d], d) :
        Reaped(ledger[d], d, kept, held)
  BY DEF Begin
<1>3. /\ disk' \in [Device -> SUBSET Path] /\ pinset' \in [Device -> SUBSET Content]
      /\ Event \/ UNCHANGED events
  BY <1>2, ReapedTypes
<1>4. pass' \in [Device -> Stages]
  BY DEF Begin, DeletionsInv, TypeOK, Stages
<1>5. want' \in [Device -> SUBSET Path] /\ decided' \in [Device -> SUBSET Path] /\ marked' \subseteq Path
  BY TargetsListed DEF Begin, DeletionsInv, TypeOK
<1>6. /\ snap' = [snap EXCEPT ![d] = Receipts(ledger[d], d)]
      /\ UNCHANGED <<ledgers, listed, fetching, pulling, enforcing, said>>
  BY DEF Begin
<1>7. snap' \in [Device -> Ledger]
  BY <1>1, <1>6 DEF DeletionsInv, TypeOK
<1>8. \A e \in Device : /\ TrueLedger(said, ledger'[e]) /\ TrueLedger(said, snap'[e])
                         /\ \A l \in enforcing'[e] : TrueLedger(said, l)
  BY <1>1, <1>6, LedgersOf DEF DeletionsInv, TypeOK, ledgers
<1>9. /\ origin' \in Ledger /\ TrueLedger(said, origin') /\ UNCHANGED said
      /\ ledger' \in [Device -> Ledger] /\ enforcing' \in [Device -> SUBSET Ledger]
      /\ listed' \subseteq Path
      /\ fetching' \in [Device -> SUBSET Path] /\ pulling' \in [Device -> SUBSET Path]
  BY <1>6, LedgersOf DEF DeletionsInv, TypeOK, ledgers
<1> QED
  BY <1>3, <1>4, <1>5, <1>7, <1>8, <1>9, QuietInv

LEMMA AddInv ==
    ASSUME DeletionsInv, NEW d \in Device, Add(d)
    PROVE  DeletionsInv'
<1>1. Added(d) \subseteq Path /\ Wanted(d) \subseteq Path
  BY DEF Added, Wanted, DeletionsInv, TypeOK
<1>2. {ContentOf[p] : p \in Added(d)} \subseteq Content
  BY <1>1, DataAssumption
<1>3. Empty \in Ledger /\ TrueLedger(said, Empty)
  BY EmptyIsLedger, EmptyIsTrue
<1>4. /\ pass' \in [Device -> Stages] /\ listed' \subseteq Path /\ marked' \subseteq Path
      /\ pinset' \in [Device -> SUBSET Content] /\ decided' \in [Device -> SUBSET Path]
      /\ fetching' \in [Device -> SUBSET Path]
  BY <1>1, <1>2 DEF Add, DeletionsInv, TypeOK, Stages
<1>5. /\ ledger' = IF pass[d] = "writing" THEN [ledger EXCEPT ![d] = snap[d]] ELSE ledger
      /\ snap' = [snap EXCEPT ![d] = Empty]
      /\ UNCHANGED <<origin, disk, want, pulling, enforcing, ghost>>
  BY DEF Add
<1>6. ledger' \in [Device -> Ledger] /\ snap' \in [Device -> Ledger]
  BY <1>3, <1>5 DEF DeletionsInv, TypeOK
<1>7. \A e \in Device : /\ TrueLedger(said, ledger'[e]) /\ TrueLedger(said, snap'[e])
                         /\ \A l \in enforcing'[e] : TrueLedger(said, l)
  BY <1>3, <1>5, LedgersOf DEF DeletionsInv, TypeOK
<1>8. /\ origin' \in Ledger /\ TrueLedger(said, origin') /\ UNCHANGED <<said, events>>
      /\ enforcing' \in [Device -> SUBSET Ledger] /\ disk' \in [Device -> SUBSET Path]
      /\ want' \in [Device -> SUBSET Path] /\ pulling' \in [Device -> SUBSET Path]
  BY <1>5, LedgersOf DEF DeletionsInv, TypeOK, ghost
<1> QED
  BY <1>4, <1>6, <1>7, <1>8, QuietInv

\* Steps that leave the ledgers alone.
LEMMA FilesInv ==
    ASSUME DeletionsInv, NEW d \in Device, NEW p \in Path,
           Decide(d, p) \/ Restore(d, p) \/ Pull(d, p) \/ Land(d, p) \/ Fail(d, p)
    PROVE  DeletionsInv'
<1>1. /\ UNCHANGED <<ledgers, listed, marked, pass, snap, decided, enforcing, said>>
      /\ Event \/ UNCHANGED events
  BY DEF Decide, Restore, Pull, Land, Fail, files, run, ghost
<1>2. ContentOf[p] \in Content
  BY DataAssumption
<1>3. /\ disk' \in [Device -> SUBSET Path] /\ pinset' \in [Device -> SUBSET Content]
      /\ want' \in [Device -> SUBSET Path]
      /\ fetching' \in [Device -> SUBSET Path] /\ pulling' \in [Device -> SUBSET Path]
  <2>1. CASE Decide(d, p)
    BY <2>1 DEF Decide, DeletionsInv, TypeOK, run
  <2>2. CASE Restore(d, p)
    BY <2>2 DEF Restore, DeletionsInv, TypeOK, run
  <2>3. CASE Pull(d, p)
    BY <2>3 DEF Pull, DeletionsInv, TypeOK, files, run
  <2>4. CASE Land(d, p)
    BY <1>2, <2>4 DEF Land, Ended, DeletionsInv, TypeOK
  <2>5. CASE Fail(d, p)
    BY <2>5 DEF Fail, Ended, DeletionsInv, TypeOK, files
  <2> QED
    BY <2>1, <2>2, <2>3, <2>4, <2>5
<1>4. /\ origin' \in Ledger /\ TrueLedger(said, origin') /\ UNCHANGED said
      /\ ledger' \in [Device -> Ledger] /\ snap' \in [Device -> Ledger]
      /\ enforcing' \in [Device -> SUBSET Ledger] /\ pass' \in [Device -> Stages]
      /\ decided' \in [Device -> SUBSET Path] /\ listed' \subseteq Path /\ marked' \subseteq Path
      /\ \A e \in Device : /\ TrueLedger(said, ledger'[e]) /\ TrueLedger(said, snap'[e])
                            /\ \A l \in enforcing'[e] : TrueLedger(said, l)
  BY <1>1, LedgersOf DEF DeletionsInv, TypeOK, ledgers
<1> QED
  BY <1>1, <1>3, <1>4, QuietInv

\* Steps that merge ledgers.
LEMMA ExchangeInv ==
    ASSUME DeletionsInv, NEW d \in Device, Exchange(d)
    PROVE  DeletionsInv'
<1>1. /\ Merge(ledger[d], origin) \in Ledger
      /\ TrueLedger(said, Merge(ledger[d], origin))
  BY LedgersOf, MergedLedger, MergedIsTrue
<1>2. /\ origin' \in {origin, Merge(ledger[d], origin)}
      /\ ledger' \in {ledger, [ledger EXCEPT ![d] = Merge(ledger[d], origin)]}
      /\ UNCHANGED <<files, run, pulling, enforcing, ghost>>
  BY DEF Exchange, Share, Receive
<1>3. ledger' \in [Device -> Ledger] /\ origin' \in Ledger /\ TrueLedger(said, origin')
  BY <1>1, <1>2, LedgersOf DEF DeletionsInv, TypeOK
<1>4. \A e \in Device : /\ TrueLedger(said, ledger'[e]) /\ TrueLedger(said, snap'[e])
                         /\ \A l \in enforcing'[e] : TrueLedger(said, l)
  BY <1>1, <1>2, LedgersOf DEF DeletionsInv, TypeOK, run
<1>5. /\ UNCHANGED <<said, events>> /\ snap' \in [Device -> Ledger]
      /\ enforcing' \in [Device -> SUBSET Ledger]
      /\ disk' \in [Device -> SUBSET Path] /\ pinset' \in [Device -> SUBSET Content]
      /\ listed' \subseteq Path /\ marked' \subseteq Path /\ want' \in [Device -> SUBSET Path]
      /\ pass' \in [Device -> Stages] /\ decided' \in [Device -> SUBSET Path]
      /\ fetching' \in [Device -> SUBSET Path] /\ pulling' \in [Device -> SUBSET Path]
  BY <1>2 DEF DeletionsInv, TypeOK, files, run, ghost
<1> QED
  BY <1>3, <1>4, <1>5, QuietInv

LEMMA CrashInv ==
    ASSUME DeletionsInv, NEW d \in Device, Crash(d)
    PROVE  DeletionsInv'
<1>1. Empty \in Ledger /\ TrueLedger(said, Empty)
  BY EmptyIsLedger, EmptyIsTrue
<1>2. /\ snap' = [snap EXCEPT ![d] = Empty] /\ enforcing' = [enforcing EXCEPT ![d] = {}]
      /\ UNCHANGED <<ledgers, files, said>> /\ Event
  BY DEF Crash
<1>3. snap' \in [Device -> Ledger] /\ enforcing' \in [Device -> SUBSET Ledger]
  BY <1>1, <1>2 DEF DeletionsInv, TypeOK
<1>4. \A e \in Device : /\ TrueLedger(said, ledger'[e]) /\ TrueLedger(said, snap'[e])
                         /\ \A l \in enforcing'[e] : TrueLedger(said, l)
  BY <1>1, <1>2, LedgersOf DEF DeletionsInv, TypeOK, ledgers
<1>5. /\ pass' \in [Device -> Stages] /\ decided' \in [Device -> SUBSET Path]
      /\ fetching' \in [Device -> SUBSET Path] /\ pulling' \in [Device -> SUBSET Path]
  BY DEF Crash, DeletionsInv, TypeOK, Stages
<1>6. /\ origin' \in Ledger /\ TrueLedger(said, origin') /\ ledger' \in [Device -> Ledger]
      /\ disk' \in [Device -> SUBSET Path] /\ pinset' \in [Device -> SUBSET Content]
      /\ listed' \subseteq Path /\ marked' \subseteq Path /\ want' \in [Device -> SUBSET Path]
  BY <1>2, LedgersOf DEF DeletionsInv, TypeOK, ledgers, files
<1> QED
  BY <1>2, <1>3, <1>4, <1>5, <1>6, QuietInv

LEMMA StepInv == DeletionsInv /\ [Next]_vars => DeletionsInv'
<1> SUFFICES ASSUME DeletionsInv, [Next]_vars PROVE DeletionsInv'
  OBVIOUS
<1>1. CASE UNCHANGED vars
  BY <1>1, LedgersOf, QuietInv
  DEF vars, ledgers, files, run, ghost, DeletionsInv, TypeOK
<1>2. ASSUME NEW d \in Device, User(d) PROVE DeletionsInv'
  BY <1>2, DeleteInv, UndeleteInv, FilesInv DEF User
<1>3. ASSUME NEW d \in Device, PassOf(d) PROVE DeletionsInv'
  BY <1>3, BeginInv, AddInv DEF PassOf
<1>4. ASSUME NEW d \in Device, Enforce(d) PROVE DeletionsInv'
  BY <1>4, EnforceNowInv DEF Enforce
<1>5. ASSUME NEW d \in Device, Transfer(d) PROVE DeletionsInv'
  BY <1>5, FilesInv DEF Transfer
<1> QED
  BY <1>1, <1>2, <1>3, <1>4, <1>5, ExchangeInv, CrashInv DEF Next

LEMMA Invariance == Spec => []DeletionsInv
BY InitInv, StepInv, PTL DEF Spec

\* Every variable keeps its type.
THEOREM TypeCorrect == Spec => []TypeOK
<1>1. DeletionsInv => TypeOK
  BY DEF DeletionsInv
<1> QED
  BY <1>1, Invariance, PTL

\* No copy of the ledger, in a file, at the remote or in the memory of a pass, ever
\* claims a deletion, a scope or an undelete that no user said.
THEOREM TellsTheTruth == Spec => []NothingMadeUp
<1>1. DeletionsInv => NothingMadeUp
  BY DEF DeletionsInv
<1> QED
  BY <1>1, Invariance, PTL

-----------------------------------------------------------------------------
(* What a step may never do.                                                 *)

\* What a tombstone dooms has its content, and the deletion was said.
LEMMA DoomedWasSaid ==
    ASSUME NEW S, NEW led, TrueLedger(S, led), NEW d \in Device, NEW p \in Doomed(led, d)
    PROVE  \E q \in Path : /\ ContentOf[q] = ContentOf[p]
                           /\ \E s \in S : Deleted(s, q) /\ (s.act.fleet \/ s.by = d)
                           /\ \E t \in S : Deleted(t, q) /\ t.act.bytes
<1>1. PICK q \in Path : Live(led[q], d) /\ led[q].bytes /\ p \in Claimed(q)
  BY DEF Doomed, LiveKeys
<1>2. ContentOf[q] = ContentOf[p]
  BY <1>1 DEF Claimed, Matches
<1>3. TrueOf(S, q, led[q])
  BY <1>1 DEF TrueLedger, Live
<1>4. \E s \in S : Deleted(s, q) /\ (s.act.fleet \/ s.by = d)
  <2>1. CASE led[q].fleet
    BY <1>3, <2>1 DEF TrueOf
  <2>2. CASE led[q].on = d
    BY <1>3, <2>2 DEF TrueOf
  <2> QED
    BY <1>1, <2>1, <2>2 DEF Live
<1>5. \E t \in S : Deleted(t, q) /\ t.act.bytes
  BY <1>1, <1>3 DEF TrueOf
<1> QED
  BY <1>2, <1>4, <1>5

AskedFor(d, p) ==
    \E q \in Path : /\ ContentOf[q] = ContentOf[p]
                    /\ \E s \in said : Deleted(s, q) /\ (s.act.fleet \/ s.by = d)
                    /\ \E t \in said : Deleted(t, q) /\ t.act.bytes

LEMMA ReapedWasAsked ==
    ASSUME DeletionsInv, NEW e \in Device, NEW led \in Ledger, TrueLedger(said, led), NEW kept, NEW held,
           Reaped(led, e, kept, held), NEW d \in Device, NEW p \in disk[d], p \notin disk'[d]
    PROVE  AskedFor(d, p)
<1>1. disk' = [disk EXCEPT ![e] = (@ \ Doomed(led, e)) \cup kept] /\ disk \in [Device -> SUBSET Path]
  BY DEF Reaped, DeletionsInv, TypeOK
<1>2. d = e /\ p \in Doomed(led, e)
  BY <1>1
<1> QED
  BY <1>2, DoomedWasSaid DEF AskedFor

LEMMA StepAsks ==
    ASSUME DeletionsInv, [Next]_vars, NEW d \in Device, NEW p \in disk[d], p \notin disk'[d]
    PROVE  AskedFor(d, p)
<1>1. CASE UNCHANGED disk
  BY <1>1
<1>2. ASSUME NEW e \in Device, NEW q \in Path, Restore(e, q) \/ Land(e, q) PROVE FALSE
  BY <1>2 DEF Restore, Land, DeletionsInv, TypeOK
<1>3. ASSUME NEW e \in Device, Begin(e) PROVE AskedFor(d, p)
  <2>1. ledger[e] \in Ledger /\ TrueLedger(said, ledger[e])
    BY LedgersOf
  <2>2. PICK kept, held : Reaped(ledger[e], e, kept, held)
    BY <1>3 DEF Begin
  <2> QED
    BY <2>1, <2>2, ReapedWasAsked
<1>4. ASSUME NEW e \in Device, NEW led \in enforcing[e], EnforceNow(e, led) PROVE AskedFor(d, p)
  <2>1. led \in Ledger /\ TrueLedger(said, led)
    BY LedgersOf
  <2>2. PICK kept, held : Reaped(led, e, kept, held)
    BY <1>4 DEF EnforceNow
  <2> QED
    BY <2>1, <2>2, ReapedWasAsked
<1>5. ASSUME NEW e \in Device, Add(e) \/ Exchange(e) \/ Crash(e) PROVE AskedFor(d, p)
  BY <1>1, <1>5 DEF Add, Exchange, Share, Receive, Crash, files
<1>6. ASSUME NEW e \in Device, NEW q \in Path, Pull(e, q) \/ Fail(e, q) \/ Undelete(e, q) \/ Decide(e, q)
      PROVE  AskedFor(d, p)
  BY <1>1, <1>6 DEF Pull, Fail, Undelete, Decide, files
<1>7. ASSUME NEW e \in Device, NEW q \in Path, NEW act, Delete(e, q, act) PROVE AskedFor(d, p)
  BY <1>1, <1>7 DEF Delete, files
<1>8. CASE UNCHANGED vars
  BY <1>1, <1>8 DEF vars, files
<1> QED
  BY <1>2, <1>3, <1>4, <1>5, <1>6, <1>7, <1>8 DEF Next, PassOf, Enforce, Transfer, User

\* A file leaves a disk only after a deletion of its path or its content, said for the
\* fleet or on that computer, and after one that said the bytes go.
THEOREM DeletesWhereAsked == Spec => OnlyWhereAsked
<1>1. DeletionsInv /\ [Next]_vars =>
        [\A d \in Device, p \in Path : p \in disk[d] /\ p \notin disk'[d] =>
           \E q \in Path : /\ ContentOf[q] = ContentOf[p]
                           /\ \E s \in said : Deleted(s, q) /\ (s.act.fleet \/ s.by = d)
                           /\ \E t \in said : Deleted(t, q) /\ t.act.bytes]_vars
  BY StepAsks DEF AskedFor
<1> QED
  BY <1>1, Invariance, PTL DEF Spec, OnlyWhereAsked

\* A merge keeps what stood, or lifts it by an undelete that was said.
LEMMA MergeKeeps ==
    ASSUME NEW k \in Path, NEW a \in Record, NEW b \in Record,
           a.removed # 0 => Truthful(k, a), b.removed # 0 => Truthful(k, b)
    PROVE  Kept(b, MergeRecord(a, b))
<1>1. CASE a.removed = 0
  BY <1>1, BoundAssumption DEF MergeRecord, Kept, Record, Time, MaxSaid
<1>2. CASE a.removed # 0 /\ b.removed = 0
  BY <1>2, BoundAssumption DEF MergeRecord, Kept, Record, Time, MaxSaid
<1>3. CASE a.removed # 0 /\ b.removed # 0
  <2> DEFINE m == MergeRecord(a, b)
  <2>1. /\ b.removed <= m.removed /\ (b.fleet => m.fleet)
        /\ b.undeleted = 0 /\ m.undeleted # 0 =>
             /\ m.undeleted = a.undeleted /\ a.undeleted # 0 /\ m.undeleted > b.removed
    BY <1>3, BoundAssumption DEF MergeRecord, Record, Time, MaxSaid, Later
  <2>2. a.undeleted # 0 => \E s \in said : s.kind = "undelete" /\ s.at = a.undeleted
    BY <1>3 DEF Truthful, Undeleted
  <2>3. b.undeleted = 0 /\ m.undeleted # 0 =>
          \E s \in said : s.kind = "undelete" /\ s.at = m.undeleted /\ s.at > b.removed
    BY <2>1, <2>2
  <2> QED
    BY <2>1, <2>3 DEF Kept
<1> QED
  BY <1>1, <1>2, <1>3

LEMMA StepKeeps ==
    ASSUME DeletionsInv, [Next]_vars, NEW k \in Path
    PROVE  Kept(origin[k], origin'[k])
<1>1. origin[k] \in Record /\ \A d \in Device : ledger[d][k] \in Record
  BY LedgersOf DEF Ledger
<1>2. CASE UNCHANGED origin
  BY <1>1, <1>2, BoundAssumption DEF Kept, Record, Time, MaxSaid
<1>3. ASSUME NEW d \in Device, Share(d) PROVE Kept(origin[k], origin'[k])
  <2>1. origin'[k] = MergeRecord(ledger[d][k], origin[k])
    BY <1>3 DEF Share, Merge
  <2>2. /\ ledger[d][k].removed # 0 => Truthful(k, ledger[d][k])
        /\ origin[k].removed # 0 => Truthful(k, origin[k])
    BY DEF DeletionsInv, NothingMadeUp, AllTruthful
  <2> QED
    BY <1>1, <2>1, <2>2, MergeKeeps
<1>4. ASSUME NEW d \in Device, ~Share(d),
             PassOf(d) \/ Enforce(d) \/ Transfer(d) \/ Exchange(d) \/ Crash(d)
      PROVE  UNCHANGED origin
  <2>1. ASSUME NEW led, EnforceNow(d, led) PROVE UNCHANGED origin
    BY <2>1 DEF EnforceNow
  <2>2. ASSUME NEW p, Land(d, p) \/ Fail(d, p) PROVE UNCHANGED origin
    BY <2>2 DEF Land, Fail, ledgers
  <2>3. CASE Begin(d)
    BY <2>3 DEF Begin, ledgers
  <2>4. CASE Add(d) \/ Receive(d) \/ Crash(d)
    BY <2>4 DEF Add, Receive, Crash, ledgers
  <2> QED
    BY <1>4, <2>1, <2>2, <2>3, <2>4 DEF PassOf, Enforce, Transfer, Exchange
<1>5. ASSUME NEW d \in Device, User(d) PROVE UNCHANGED origin
  <2>1. ASSUME NEW p, NEW act, Delete(d, p, act) PROVE UNCHANGED origin
    BY <2>1 DEF Delete
  <2>2. ASSUME NEW p, Undelete(d, p) \/ Decide(d, p) \/ Restore(d, p) \/ Pull(d, p) PROVE UNCHANGED origin
    BY <2>2 DEF Undelete, Decide, Restore, Pull, ledgers
  <2> QED
    BY <1>5, <2>1, <2>2 DEF User
<1>6. CASE UNCHANGED vars
  BY <1>2, <1>6 DEF vars, ledgers
<1> QED
  BY <1>2, <1>3, <1>4, <1>5, <1>6 DEF Next

\* What stands at the remote for the fleet is lifted only by an undelete, whoever
\* pushes an older or an emptier ledger over it.
THEOREM TombstonesStand == Spec => AbsenceLiftsNothing
<1>1. DeletionsInv /\ [Next]_vars => [\A k \in Path : Kept(origin[k], origin'[k])]_vars
  BY StepKeeps
<1> QED
  BY <1>1, Invariance, PTL DEF Spec, AbsenceLiftsNothing
=============================================================================
