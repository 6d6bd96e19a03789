---------------------------- MODULE Delivery_proofs ----------------------------
(* Whatever artifacts, storages, repositories and timers there are: an        *)
(* artifact in hand stays in hand, but for the three steps that drop one.     *)
EXTENDS Delivery, TLAPS

\* A storage has at most one running pass and one queued behind it; a repository queues
\* none, and its push is not armed again.
InLine ==
    \A t \in Target :
      /\ kind[t] = "storage" => \A p, q \in Running(t) : p = q
      /\ \A p, q \in Queued(t) : p = q
      /\ Queued(t) # {} => kind[t] = "storage" /\ Running(t) # {}
      /\ t \in rearmed => kind[t] = "storage"

\* What is written to a storage after the pass that runs has added has a timer or a pass
\* of its own, and that pass leaves nothing in the index behind.
LateWrites ==
    \A t \in Target : kind[t] = "storage" =>
      /\ Of(t, {"commit", "push"}) # {} /\ At(t, {"disk"}) # {} =>
           pending[t] # None \/ Queued(t) # {}
      /\ Of(t, {"push"}) # {} => At(t, {"index"}) = {}

\* The inductive invariant behind KeepsCarrier.
DeliveryInv == TypeOK /\ InLine /\ LateWrites

-----------------------------------------------------------------------------
(* Starting and ending a pass.                                                *)

LEMMA NotNone ==
    /\ \A r \in PassRecord : r # None
    /\ \A r \in Timer : r # None
  BY NoneAssumption

\* A pass that is asked for starts, or the queued one stands for it.
LEMMA BeginStarts ==
    ASSUME TypeOK, NEW t \in Target, NEW by \in {"trigger", "other"}, Begin(t, by)
    PROVE  /\ pass' \in [Pass -> PassRecord \cup {None}]
           /\ \A p \in Pass : pass[p] # None =>
                /\ pass'[p] # None /\ pass'[p].target = pass[p].target
                /\ pass'[p].by = pass[p].by /\ pass'[p].stage = pass[p].stage
           /\ Queued(t) # {} => \A p \in Pass : pass[p] = None => pass'[p] = None
           /\ Queued(t) = {} =>
                \E n \in Pass :
                  /\ pass[n] = None /\ pass'[n] # None /\ pass'[n].target = t
                  /\ pass'[n].stage = IF kind[t] = "storage" /\ Running(t) # {} THEN "queued" ELSE "add"
                  /\ \A p \in Pass : p # n => pass'[p] = pass[p]
<1>1. CASE Queued(t) # {}
  <2>1. pass' = [p \in Pass |-> IF p \in Queued(t)
                                THEN [pass[p] EXCEPT !.answers = @ \/ by = "trigger"]
                                ELSE pass[p]]
    BY <1>1 DEF Begin, Started
  <2>2. ASSUME NEW p \in Pass, pass[p] # None
        PROVE  /\ pass'[p] \in PassRecord /\ pass'[p].target = pass[p].target
               /\ pass'[p].by = pass[p].by /\ pass'[p].stage = pass[p].stage
    <3> DEFINE b == pass[p].answers \/ by = "trigger"
    <3>1. pass[p] \in PassRecord
      BY <2>2 DEF TypeOK
    <3>2. b \in BOOLEAN
      BY <3>1 DEF PassRecord
    <3>3. pass'[p] = pass[p] \/ pass'[p] = [pass[p] EXCEPT !.answers = b]
      BY <2>1
    <3> HIDE DEF b
    <3> QED
      BY <3>1, <3>2, <3>3 DEF PassRecord
  <2>3. \A p \in Pass : pass[p] = None => pass'[p] = None
    BY <2>1 DEF Queued, Of
  <2>4. pass' \in [Pass -> PassRecord \cup {None}]
    BY <2>1, <2>2, <2>3
  <2> QED
    BY <1>1, <2>2, <2>3, <2>4, NotNone
<1>2. CASE Queued(t) = {}
  <2> DEFINE n == CHOOSE p \in Idle : TRUE
             stage == IF kind[t] = "storage" /\ Running(t) # {} THEN "queued" ELSE "add"
  <2>1. n \in Pass /\ pass[n] = None
    BY <1>2 DEF Begin, MayStart, Idle
  <2>2. pass' = [pass EXCEPT ![n] = [target |-> t, by |-> by, stage |-> stage, answers |-> FALSE]]
    BY <1>2 DEF Begin, Started
  <2>3. stage \in Stages
    BY DEF Stages
  <2> HIDE DEF n, stage
  <2>4. [target |-> t, by |-> by, stage |-> stage, answers |-> FALSE] \in PassRecord
    BY <2>3 DEF PassRecord
  <2>5. pass'[n] = [target |-> t, by |-> by, stage |-> stage, answers |-> FALSE]
    BY <2>1, <2>2 DEF TypeOK
  <2>6. pass' \in [Pass -> PassRecord \cup {None}] /\ \A p \in Pass : p # n => pass'[p] = pass[p]
    BY <2>1, <2>2, <2>4 DEF TypeOK
  <2>7. pass'[n] # None
    BY <2>4, <2>5, NotNone
  <2>9. pass'[n].target = t /\ pass'[n].stage = stage
    BY <2>5
  <2>8. stage = IF kind[t] = "storage" /\ Running(t) # {} THEN "queued" ELSE "add"
    BY DEF stage
  <2> QED
    BY <1>2, <2>1, <2>6, <2>7, <2>8, <2>9
<1> QED
  BY <1>1, <1>2

LEMMA BookedTypes ==
    ASSUME TypeOK, NEW p \in Pass, pass[p] # None,
           NEW outcome \in {"ok", "problem", "offline"}, NEW book \in Booked(p, outcome)
    PROVE  /\ book.timer \in Timer \cup {None} /\ book.floor \in Nat
           /\ pending[pass[p].target] # None => book.timer = pending[pass[p].target]
           /\ pass[p].by = "trigger" /\ outcome = "problem" => book.timer # None
<1> DEFINE t == pass[p].target
<1>1. t \in Target /\ pending[t] \in Timer \cup {None} /\ floor[t] \in Nat
  BY DEF TypeOK, PassRecord
<1>2. pass[p].by \in {"trigger", "other"}
  BY DEF TypeOK, PassRecord
<1> HIDE DEF t
<1>3. ASSUME NEW d \in Backoff PROVE [left |-> d, age |-> 0] \in Timer /\ d \in Nat
  BY TimeAssumption DEF Timer
<1>4. ASSUME book \in Failed(t)
      PROVE  /\ book.timer \in Timer \cup {None} /\ book.floor \in Nat /\ book.timer # None
             /\ pending[t] # None => book.timer = pending[t]
  <2>1. PICK d \in Backoff :
          book = [timer |-> IF pending[t] = None THEN [left |-> d, age |-> 0] ELSE pending[t],
                  floor |-> d]
    BY <1>4 DEF Failed
  <2> QED
    BY <1>1, <1>3, <2>1, NotNone
<1>5. ASSUME book = Kept(t) \/ book = Cleared(t)
      PROVE  book.timer = pending[t] /\ book.floor \in Nat
  BY <1>1, <1>5 DEF Kept, Cleared
<1>6. \/ book \in Failed(t)
      \/ (book = Kept(t) \/ book = Cleared(t)) /\ (pass[p].by = "other" \/ outcome # "problem")
  BY <1>2 DEF Booked, t
<1> QED
  BY <1>1, <1>2, <1>4, <1>5, <1>6 DEF t

\* A pass that is over leaves the timers of others alone and loses none of its own.
LEMMA SettleEnds ==
    ASSUME TypeOK, NEW p \in Pass, pass[p] # None, pass[p].stage # "queued",
           NEW outcome \in {"ok", "problem", "offline"}, Settle(p, outcome)
    PROVE  /\ pass' \in [Pass -> PassRecord \cup {None}]
           /\ pass'[p] = None
           /\ \A q \in Pass : pass[q] = None => pass'[q] = None
           /\ \A q \in Pass : q # p /\ pass[q] # None =>
                /\ pass'[q] # None /\ pass'[q].target = pass[q].target
                /\ pass'[q].stage = IF q \in Queued(pass[p].target) THEN "add" ELSE pass[q].stage
           /\ pending' \in [Target -> Timer \cup {None}] /\ floor' \in [Target -> Nat]
           /\ \A u \in Target : pending[u] # None => pending'[u] # None
           /\ pass[p].by = "trigger" /\ outcome = "problem" => pending'[pass[p].target] # None
           /\ waiters \subseteq waiters' /\ waiters' \subseteq Keys \X Target
           /\ outcome = "offline" => <<"push", pass[p].target>> \in waiters'
<1> DEFINE t == pass[p].target
<1>1. t \in Target /\ pass[p] \in PassRecord
  BY DEF TypeOK, PassRecord
<1>2. PICK book \in Booked(p, outcome) :
        /\ pending' = [pending EXCEPT ![t] = book.timer]
        /\ floor' = [floor EXCEPT ![t] = IF pass[p].answers THEN 0 ELSE book.floor]
        /\ waiters' = waiters \cup (IF outcome = "offline" THEN WaitsFor(p, book) ELSE {})
        /\ pass' = [q \in Pass |-> IF q = p THEN None
                                   ELSE IF q \in Queued(t) THEN [pass[q] EXCEPT !.stage = "add"]
                                   ELSE pass[q]]
  BY DEF Settle
<1> HIDE DEF t
<1>3. /\ book.timer \in Timer \cup {None} /\ book.floor \in Nat
      /\ pending[t] # None => book.timer = pending[t]
      /\ pass[p].by = "trigger" /\ outcome = "problem" => book.timer # None
  BY BookedTypes DEF t
<1>4. /\ pending' \in [Target -> Timer \cup {None}] /\ floor' \in [Target -> Nat]
      /\ \A u \in Target : pending[u] # None => pending'[u] # None
      /\ pass[p].by = "trigger" /\ outcome = "problem" => pending'[t] # None
  BY <1>1, <1>2, <1>3 DEF TypeOK
<1>5. /\ waiters \subseteq waiters' /\ waiters' \subseteq Keys \X Target
      /\ outcome = "offline" => <<"push", t>> \in waiters'
  <2>1. WaitsFor(p, book) \subseteq Keys \X Target /\ <<"push", t>> \in WaitsFor(p, book)
    BY <1>1 DEF WaitsFor, Keys, t
  <2> QED
    BY <1>2, <2>1 DEF TypeOK
<1>6. ASSUME NEW q \in Pass, q # p, pass[q] # None
      PROVE  /\ pass'[q] \in PassRecord /\ pass'[q].target = pass[q].target
             /\ pass'[q].stage = IF q \in Queued(t) THEN "add" ELSE pass[q].stage
  <2>1. pass[q] \in PassRecord
    BY <1>6 DEF TypeOK
  <2>2. CASE q \in Queued(t)
    BY <1>2, <1>6, <2>1, <2>2 DEF PassRecord, Stages
  <2>3. CASE q \notin Queued(t)
    BY <1>2, <1>6, <2>1, <2>3
  <2> QED
    BY <2>2, <2>3
<1>7. pass'[p] = None /\ \A q \in Pass : pass[q] = None => pass'[q] = None
  BY <1>2 DEF Queued, Of
<1>8. pass' \in [Pass -> PassRecord \cup {None}]
  <2>1. \A q \in Pass : pass'[q] \in PassRecord \cup {None}
    BY <1>6, <1>7
  <2> QED
    BY <1>2, <2>1
<1> QED
  BY <1>4, <1>5, <1>6, <1>7, <1>8, NotNone DEF t

LEMMA GoesOnTypes ==
    ASSUME TypeOK, NEW p \in Pass, pass[p] # None, NEW s \in Stages, GoesOn(p, s)
    PROVE  /\ pass' \in [Pass -> PassRecord \cup {None}]
           /\ pass'[p] # None /\ pass'[p].target = pass[p].target /\ pass'[p].stage = s
           /\ \A q \in Pass : q # p => pass'[q] = pass[q]
<1>1. pass[p] \in PassRecord /\ pass' = [pass EXCEPT ![p] = [pass[p] EXCEPT !.stage = s]]
  BY DEF TypeOK, GoesOn
<1>2. [pass[p] EXCEPT !.stage = s] \in PassRecord
  BY <1>1 DEF PassRecord
<1>3. pass'[p] = [pass[p] EXCEPT !.stage = s] /\ \A q \in Pass : q # p => pass'[q] = pass[q]
  BY <1>1 DEF TypeOK
<1>4. pass' \in [Pass -> PassRecord \cup {None}]
  BY <1>1, <1>2 DEF TypeOK
<1>5. pass'[p].target = pass[p].target /\ pass'[p].stage = s
  BY <1>1, <1>3 DEF PassRecord
<1> QED
  BY <1>2, <1>3, <1>4, <1>5, NotNone

\* A boot starts one pass for every storage.
LEMMA BootStarts ==
    ASSUME TypeOK
    PROVE  /\ BootPasses \in [Pass -> PassRecord \cup {None}]
           /\ \A p \in Pass : BootPasses[p] # None => BootPasses[p].stage = "add"
           /\ \A p, q \in Pass : BootPasses[p] # None /\ BootPasses[q] # None
                                 /\ BootPasses[p].target = BootPasses[q].target => p = q
<1> DEFINE Slots == [{t \in Target : kind[t] = "storage"} -> Pass]
           Apart(f) == \A t, u \in DOMAIN f : f[t] = f[u] => t = u
           slot == CHOOSE f \in Slots : Apart(f)
           Whose(p) == CHOOSE t \in DOMAIN slot : slot[t] = p
           new(p) == [target |-> Whose(p), by |-> "other", stage |-> "add", answers |-> FALSE]
<1>1. slot \in Slots /\ Apart(slot)
  <2>1. PICK f \in [Target -> Pass] : \A t, u \in Target : f[t] = f[u] => t = u
    BY PassAssumption
  <2> DEFINE g == [t \in {u \in Target : kind[u] = "storage"} |-> f[t]]
  <2>2. g \in Slots /\ Apart(g)
    BY <2>1
  <2> QED
    BY <2>2
<1>2. BootPasses = [p \in Pass |-> IF \E t \in DOMAIN slot : slot[t] = p THEN new(p) ELSE None]
  BY DEF BootPasses
<1>3. DOMAIN slot \subseteq Target
  BY <1>1
<1> HIDE DEF slot, Slots
<1>4. ASSUME NEW p \in Pass, \E t \in DOMAIN slot : slot[t] = p
      PROVE  Whose(p) \in DOMAIN slot /\ slot[Whose(p)] = p
  BY <1>4
<1> HIDE DEF Whose
<1>5. ASSUME NEW p \in Pass
      PROVE  /\ BootPasses[p] \in PassRecord \cup {None}
             /\ BootPasses[p] # None =>
                  /\ BootPasses[p].stage = "add" /\ BootPasses[p].target \in DOMAIN slot
                  /\ slot[BootPasses[p].target] = p
  <2>1. CASE \E t \in DOMAIN slot : slot[t] = p
    <3>1. BootPasses[p] = new(p) /\ Whose(p) \in DOMAIN slot /\ slot[Whose(p)] = p
      BY <1>2, <1>4, <2>1
    <3>2. new(p) \in PassRecord
      BY <1>3, <3>1 DEF PassRecord, Stages
    <3> QED
      BY <3>1, <3>2
  <2>2. CASE ~\E t \in DOMAIN slot : slot[t] = p
    BY <1>2, <2>2
  <2> QED
    BY <2>1, <2>2
<1>6. BootPasses \in [Pass -> PassRecord \cup {None}]
  <2> HIDE DEF new
  <2> QED
    BY <1>2, <1>5
<1> QED
  BY <1>5, <1>6

-----------------------------------------------------------------------------
(* Types.                                                                     *)

LEMMA TargetOf == TypeOK => \A p \in Pass : pass[p] # None =>
                     /\ pass[p].target \in Target /\ pass[p].by \in {"trigger", "other"}
                     /\ pass[p].stage \in Stages
  BY DEF TypeOK, PassRecord

LEMMA LiftedTypes ==
    ASSUME TypeOK, NEW t, NEW from, NEW to \in Places
    PROVE  Lifted(t, from, to) \in [Artifact -> Places]
  BY DEF Lifted, TypeOK

LEMMA WaitTypes ==
    ASSUME TypeOK, NEW t \in Target
    PROVE  [left |-> Wait(t), age |-> Age(t)] \in Timer
<1>1. Age(t) \in Nat
  <2>1. pending[t] \in Timer \cup {None}
    BY DEF TypeOK
  <2>2. CASE pending[t] = None
    BY <2>2 DEF Age
  <2>3. CASE pending[t] # None
    BY <2>1, <2>3 DEF Age, Timer
  <2> QED
    BY <2>2, <2>3
<1>2. Wait(t) \in Nat
  <2>1. floor[t] \in Nat /\ Debounce \in Nat /\ MaxDelay \in Nat
    BY TimeAssumption DEF TypeOK
  <2>2. MaxDelay - Smaller(Age(t), MaxDelay) \in Nat
    BY <1>1, <2>1 DEF Smaller
  <2> HIDE DEF Age
  <2> QED
    BY <2>1, <2>2 DEF Wait, Smaller, Larger
<1> QED
  BY <1>1, <1>2 DEF Timer

LEMMA TickTypes ==
    ASSUME TypeOK, Tick
    PROVE  /\ pending' \in [Target -> Timer \cup {None}] /\ floor' \in [Target -> Nat]
           /\ \A t \in Target : pending'[t] = None <=> pending[t] = None
<1>1. ASSUME NEW t \in Target, pending[t] # None
      PROVE  pending'[t] \in Timer
  <2>1. pending[t] \in Timer /\ pending[t].left \in Nat /\ pending[t].age \in Nat /\ pending[t].left > 0
    BY <1>1 DEF Tick, TypeOK, Timer
  <2>2. pending'[t] = [left |-> pending[t].left - 1, age |-> Smaller(pending[t].age + 1, MaxDelay)]
    BY <1>1 DEF Tick
  <2>3. pending[t].left - 1 \in Nat /\ Smaller(pending[t].age + 1, MaxDelay) \in Nat
    BY <2>1, TimeAssumption DEF Smaller
  <2> QED
    BY <2>2, <2>3 DEF Timer
<1>2. \A t \in Target : pending[t] = None => pending'[t] = None
  BY DEF Tick
<1>3. floor' \in [Target -> Nat]
  <2>1. \A t \in Target : floor[t] \in Nat /\ (floor[t] = 0 \/ floor[t] - 1 \in Nat)
    BY DEF TypeOK
  <2>2. floor' = [t \in Target |-> IF floor[t] = 0 THEN 0 ELSE floor[t] - 1]
    BY DEF Tick
  <2> QED
    BY <2>1, <2>2
<1>4. pending' = [t \in Target |-> pending'[t]]
  BY DEF Tick
<1> QED
  BY <1>1, <1>2, <1>3, <1>4, NotNone

LEMMA InitTypes == Init => TypeOK
  BY PlaceAssumption, BoundAssumption DEF Init, TypeOK, Places, Kinds

LEMMA TroubleTypes == TypeOK /\ Trouble => troubles' \in 0 .. MaxTroubles
  BY BoundAssumption DEF TypeOK, Trouble

\* A step of a pass, told by what it does to the pass: it goes on, or it is over.
LEMMA PassTypes ==
    ASSUME TypeOK, NEW p \in Pass, Runs(p)
    PROVE  TypeOK'
<1>1. pass[p] # None /\ pass[p].stage # "queued"
  BY DEF Runs, Add, Commit, Pushed, PushFails, PushPostponed
<1>2. pass[p].target \in Target
  BY <1>1, TargetOf
<1>3. place' \in [Artifact -> Places]
  BY LiftedTypes DEF Runs, Add, Commit, Pushed, PushFails, PushPostponed, Places, TypeOK
<1>4. behind' \subseteq Target /\ rearmed' \subseteq Target
  BY <1>2 DEF Runs, Add, Commit, Pushed, PushFails, PushPostponed, TypeOK
<1>5. troubles' \in 0 .. MaxTroubles /\ UNCHANGED <<kind, online, boots>>
  BY TroubleTypes DEF Runs, Add, Commit, Pushed, PushFails, PushPostponed, NoTrouble, bounds, TypeOK
<1>6. \/ \E s \in Stages : GoesOn(p, s)
      \/ \E outcome \in {"ok", "problem", "offline"} : Settle(p, outcome)
  BY DEF Runs, Add, Commit, Pushed, PushFails, PushPostponed, Stages
<1>7. /\ pass' \in [Pass -> PassRecord \cup {None}]
      /\ pending' \in [Target -> Timer \cup {None}] /\ floor' \in [Target -> Nat]
      /\ waiters' \subseteq Keys \X Target
  <2>1. ASSUME NEW s \in Stages, GoesOn(p, s)
        PROVE  /\ pass' \in [Pass -> PassRecord \cup {None}]
               /\ UNCHANGED <<pending, floor, waiters>>
    BY <1>1, <2>1, GoesOnTypes DEF GoesOn
  <2>2. ASSUME NEW outcome \in {"ok", "problem", "offline"}, Settle(p, outcome)
        PROVE  /\ pass' \in [Pass -> PassRecord \cup {None}]
               /\ pending' \in [Target -> Timer \cup {None}] /\ floor' \in [Target -> Nat]
               /\ waiters' \subseteq Keys \X Target
    BY <1>1, <2>2, SettleEnds
  <2> QED
    BY <1>6, <2>1, <2>2 DEF TypeOK
<1> QED
  BY <1>3, <1>4, <1>5, <1>7 DEF TypeOK

LEMMA NextTypes == TypeOK /\ [Next]_vars => TypeOK'
<1> SUFFICES ASSUME TypeOK, [Next]_vars PROVE TypeOK'
  OBVIOUS
<1>1. CASE UNCHANGED vars
  BY <1>1 DEF vars, carriers, bounds, TypeOK
<1>2. ASSUME NEW a \in Artifact, NoteArtifactWritten(a) PROVE TypeOK'
  BY <1>2, WaitTypes, PlaceAssumption DEF NoteArtifactWritten, TypeOK, bounds, Places
<1>3. ASSUME NEW t \in Target, Fire(t) \/ FlushArtifactSync(t) PROVE TypeOK'
  <2>1. pass' \in [Pass -> PassRecord \cup {None}]
    BY <1>3, BeginStarts DEF Fire, FlushArtifactSync
  <2> QED
    BY <1>3, <2>1 DEF Fire, FlushArtifactSync, TypeOK, bounds
<1>4. ASSUME NEW t \in Target,
             UnpushedRetry(t) \/ OthersPass(t) \/ \E key \in Keys : ProbeOnce(key, t)
      PROVE  TypeOK'
  <2>1. pass' \in [Pass -> PassRecord \cup {None}]
    BY <1>4, BeginStarts DEF UnpushedRetry, OthersPass, ProbeOnce
  <2> QED
    BY <1>4, <2>1 DEF UnpushedRetry, OthersPass, ProbeOnce, TypeOK, carriers, bounds
<1>5. ASSUME NEW t \in Target, PeerPushes(t) \/ ConvergeWorkingRepo(t) PROVE TypeOK'
  BY <1>5 DEF PeerPushes, ConvergeWorkingRepo, TypeOK, carriers, bounds
<1>6. CASE Tick
  BY <1>6, TickTypes DEF Tick, TypeOK, bounds
<1>7. CASE Restart
  <2>1. pass' \in [Pass -> PassRecord \cup {None}]
    BY <1>7, BootStarts DEF Restart
  <2> QED
    BY <1>7, <2>1, BoundAssumption DEF Restart, TypeOK
<1>8. CASE GoOffline \/ GoOnline
  BY <1>8, TroubleTypes DEF GoOffline, GoOnline, TypeOK, carriers, bounds
<1> QED
  BY <1>1, <1>2, <1>3, <1>4, <1>5, <1>6, <1>7, <1>8, PassTypes DEF Next

\* Every timer, waiter, pass and version keeps its type.
THEOREM TypeCorrect == Spec => []TypeOK
  BY InitTypes, NextTypes, PTL DEF Spec

-----------------------------------------------------------------------------
(* The line of a storage.                                                     *)

LEMMA BeginInLine ==
    ASSUME TypeOK, InLine, NEW t \in Target, NEW by \in {"trigger", "other"}, Begin(t, by),
           kind' = kind, rearmed' \subseteq rearmed
    PROVE  /\ InLine'
           /\ \A u \in Target : /\ Of(u, {"commit", "push"})' = Of(u, {"commit", "push"})
                                /\ Of(u, {"push"})' = Of(u, {"push"})
                                /\ Queued(u) \subseteq Queued(u)'
           /\ kind[t] = "storage" /\ Running(t) # {} => Queued(t)' # {}
<1> USE DEF Queued, Running, Of
<1>1. \A p \in Pass : pass[p] # None =>
        /\ pass'[p] # None /\ pass'[p].target = pass[p].target /\ pass'[p].stage = pass[p].stage
  BY BeginStarts
<1>2. CASE Queued(t) # {}
  <2>1. \A p \in Pass : pass[p] = None => pass'[p] = None
    BY <1>2, BeginStarts
  <2>2. \A u \in Target : Queued(u)' = Queued(u) /\ Running(u)' = Running(u)
    BY <1>1, <2>1
  <2>3. \A u \in Target : /\ Of(u, {"commit", "push"})' = Of(u, {"commit", "push"})
                          /\ Of(u, {"push"})' = Of(u, {"push"})
    BY <1>1, <2>1
  <2> QED
    BY <1>2, <2>2, <2>3 DEF InLine
<1>3. CASE Queued(t) = {}
  <2>1. PICK n \in Pass :
          /\ pass[n] = None /\ pass'[n] # None /\ pass'[n].target = t
          /\ pass'[n].stage = IF kind[t] = "storage" /\ Running(t) # {} THEN "queued" ELSE "add"
          /\ \A p \in Pass : p # n => pass'[p] = pass[p]
    BY <1>3, BeginStarts
  <2>2. \A u \in Target : u # t => Queued(u)' = Queued(u) /\ Running(u)' = Running(u)
    BY <2>1
  <2>3. \A u \in Target : /\ Of(u, {"commit", "push"})' = Of(u, {"commit", "push"})
                          /\ Of(u, {"push"})' = Of(u, {"push"})
                          /\ Queued(u) \subseteq Queued(u)'
    BY <2>1
  <2>4. CASE kind[t] = "storage" /\ Running(t) # {}
    <3>1. Queued(t)' = {n} /\ Running(t)' = Running(t)
      BY <1>3, <2>1, <2>4
    <3> QED
      BY <2>2, <2>3, <2>4, <3>1 DEF InLine
  <2>5. CASE ~(kind[t] = "storage" /\ Running(t) # {})
    <3>1. Queued(t)' = {} /\ Running(t)' = Running(t) \cup {n}
      BY <1>3, <2>1, <2>5
    <3> QED
      BY <2>2, <2>3, <2>5, <3>1 DEF InLine
  <2> QED
    BY <2>4, <2>5
<1> QED
  BY <1>2, <1>3

LEMMA SettleInLine ==
    ASSUME TypeOK, InLine, NEW p \in Pass, pass[p] # None, pass[p].stage # "queued",
           NEW t \in Target, pass[p].target = t,
           NEW outcome \in {"ok", "problem", "offline"}, Settle(p, outcome), kind' = kind,
           \A u \in rearmed' : u \in rearmed \/ kind[u] = "storage"
    PROVE  /\ InLine'
           /\ \A u \in Target : u # t =>
                /\ Of(u, {"commit", "push"})' = Of(u, {"commit", "push"})
                /\ Of(u, {"push"})' = Of(u, {"push"})
                /\ Queued(u)' = Queued(u)
           /\ kind[t] = "storage" =>
                Of(t, {"commit", "push"})' = {} /\ Of(t, {"push"})' = {}
<1> USE DEF Queued, Running, Of
<1>1. pass[p].stage \in {"add", "commit", "push"} /\ p \in Running(t)
  BY TargetOf DEF Stages
<1>2. /\ pass'[p] = None
      /\ \A q \in Pass : pass[q] = None => pass'[q] = None
      /\ \A q \in Pass : q # p /\ pass[q] # None =>
           /\ pass'[q] # None /\ pass'[q].target = pass[q].target
           /\ pass'[q].stage = IF q \in Queued(t) THEN "add" ELSE pass[q].stage
  BY SettleEnds
<1>3. \A u \in Target : u # t =>
        /\ Queued(u)' = Queued(u) /\ Running(u)' = Running(u)
        /\ Of(u, {"commit", "push"})' = Of(u, {"commit", "push"})
        /\ Of(u, {"push"})' = Of(u, {"push"})
  BY <1>2
<1>4. Queued(t)' = {} /\ Running(t)' = (Running(t) \ {p}) \cup Queued(t)
  <2>1. ASSUME NEW q \in Pass
        PROVE  /\ q \notin Queued(t)'
               /\ q \in Running(t)' <=> q # p /\ (q \in Running(t) \/ q \in Queued(t))
    <3>1. CASE pass[q] = None \/ q = p
      BY <1>2, <3>1
    <3>2. CASE pass[q] # None /\ q # p
      <4>1. /\ pass[q].stage \in {"queued", "add", "commit", "push"}
            /\ pass'[q] # None /\ pass'[q].target = pass[q].target
            /\ pass'[q].stage = IF q \in Queued(t) THEN "add" ELSE pass[q].stage
        BY <1>2, <3>2, TargetOf DEF Stages
      <4> QED
        BY <3>2, <4>1
    <3> QED
      BY <3>1, <3>2
  <2>2. p \notin Queued(t)
    BY <1>1
  <2>3. /\ Queued(t)' \subseteq Pass /\ Running(t)' \subseteq Pass
        /\ Queued(t) \subseteq Pass /\ Running(t) \subseteq Pass
    OBVIOUS
  <2> HIDE DEF Queued, Running, Of
  <2> QED
    BY <2>1, <2>2, <2>3
<1>5. kind[t] = "storage" =>
        /\ Running(t) = {p}
        /\ Of(t, {"commit", "push"})' = {} /\ Of(t, {"push"})' = {}
  <2> SUFFICES ASSUME kind[t] = "storage"
               PROVE  /\ Running(t) = {p}
                      /\ Of(t, {"commit", "push"})' = {} /\ Of(t, {"push"})' = {}
    OBVIOUS
  <2>1. Running(t) = {p}
    <3> HIDE DEF Queued, Running, Of
    <3> QED
      BY <1>1 DEF InLine
  <2>2. \A q \in Pass : pass'[q] # None /\ pass'[q].target = t => pass'[q].stage = "add"
    BY <1>2, <2>1, TargetOf DEF Stages
  <2> QED
    BY <2>1, <2>2
<1> HIDE DEF Queued, Running, Of
<1>6. ASSUME NEW u \in Target
      PROVE  /\ kind[u] = "storage" => \A q, r \in Running(u)' : q = r
             /\ \A q, r \in Queued(u)' : q = r
             /\ Queued(u)' # {} => kind[u] = "storage" /\ Running(u)' # {}
  BY <1>1, <1>3, <1>4, <1>5 DEF InLine
<1>7. \A u \in Target : u \in rearmed' => kind[u] = "storage"
  BY DEF InLine
<1>8. InLine'
  BY <1>6, <1>7 DEF InLine
<1> QED
  BY <1>3, <1>5, <1>8

LEMMA GoesOnInLine ==
    ASSUME TypeOK, InLine, NEW p \in Pass, pass[p] # None, pass[p].stage # "queued",
           NEW s \in {"add", "commit", "push"}, GoesOn(p, s), UNCHANGED <<kind, rearmed>>
    PROVE  /\ InLine'
           /\ \A u \in Target : Queued(u)' = Queued(u) /\ Running(u)' = Running(u)
           /\ \A u \in Target : u # pass[p].target =>
                /\ Of(u, {"commit", "push"})' = Of(u, {"commit", "push"})
                /\ Of(u, {"push"})' = Of(u, {"push"})
<1>1. /\ pass[p].stage \in {"add", "commit", "push"} /\ s \in Stages
      /\ pass'[p] # None /\ pass'[p].target = pass[p].target /\ pass'[p].stage = s
      /\ \A q \in Pass : q # p => pass'[q] = pass[q]
  BY GoesOnTypes, TargetOf DEF Stages
<1>2. \A u \in Target : Queued(u)' = Queued(u) /\ Running(u)' = Running(u)
  BY <1>1 DEF Queued, Running, Of
<1>3. \A u \in Target : u # pass[p].target =>
        /\ Of(u, {"commit", "push"})' = Of(u, {"commit", "push"})
        /\ Of(u, {"push"})' = Of(u, {"push"})
  BY <1>1 DEF Of
<1> QED
  BY <1>2, <1>3 DEF InLine

\* A version that lies where it lay is still at its target.
LEMMA LiftedAt ==
    ASSUME TypeOK, NEW t \in Target, NEW from, NEW to \in Places, place' = Lifted(t, from, to)
    PROVE  /\ \A u \in Target : \A w : u # t => At(u, w)' = At(u, w)
           /\ \A w : to \notin w => At(t, w)' = At(t, w) \ At(t, from)
           /\ \A a \in Artifact : place'[a] = IF a \in At(t, from) THEN to ELSE place[a]
  BY DEF Lifted, At, TypeOK

LEMMA LateStays ==
    ASSUME LateWrites, UNCHANGED <<kind, place>>,
           \A t \in Target : pending[t] # None => pending'[t] # None \/ Of(t, {"commit", "push"})' = {}
                                               \/ Queued(t)' # {},
           \A t \in Target : /\ Of(t, {"commit", "push"})' = Of(t, {"commit", "push"})
                            /\ Of(t, {"push"})' = Of(t, {"push"})
                            /\ Queued(t) \subseteq Queued(t)'
    PROVE  LateWrites'
<1>1. \A t \in Target : \A w : At(t, w)' = At(t, w)
  BY DEF At
<1>2. \A t \in Target : Queued(t) # {} => Queued(t)' # {}
  OBVIOUS
<1> QED
  BY <1>1, <1>2 DEF LateWrites

LEMMA PassInLine ==
    ASSUME DeliveryInv, NEW p \in Pass, Runs(p)
    PROVE  InLine' /\ LateWrites'
<1>0. TypeOK /\ InLine /\ LateWrites
  BY DEF DeliveryInv
<1>1. PICK t \in Target : pass[p].target = t
  BY <1>0, TargetOf DEF Runs, Add, Commit, Pushed, PushFails, PushPostponed
<1>2. pass[p] # None /\ pass[p].stage # "queued" /\ kind' = kind
  BY DEF Runs, Add, Commit, Pushed, PushFails, PushPostponed
<1>3. ASSUME NEW outcome \in {"ok", "problem", "offline"}, Settle(p, outcome)
      PROVE  InLine' /\ LateWrites'
  <2>1. \A u \in rearmed' : u \in rearmed \/ kind[u] = "storage"
    BY DEF Runs, Add, Commit, Pushed, PushFails, PushPostponed
  <2>2. place' = place \/ place' = Lifted(t, {"head"}, "origin")
    <3>1. pass'[p] = None
      BY <1>0, <1>2, <1>3, SettleEnds
    <3>2. ~GoesOn(p, "commit") /\ ~GoesOn(p, "push")
      BY <1>0, <1>2, <3>1, GoesOnTypes DEF Stages
    <3> QED
      BY <1>1, <3>2 DEF Runs, Add, Commit, Pushed, PushFails, PushPostponed
  <2>3. \A u \in Target : u # t => At(u, {"disk"})' = At(u, {"disk"}) /\ At(u, {"index"})' = At(u, {"index"})
    BY <1>0, <2>2, LiftedAt DEF At, Places
  <2>4. \A u \in Target : pending[u] # None => pending'[u] # None
    BY <1>0, <1>2, <1>3, SettleEnds
  <2>5. /\ InLine'
        /\ \A u \in Target : u # t =>
             /\ Of(u, {"commit", "push"})' = Of(u, {"commit", "push"})
             /\ Of(u, {"push"})' = Of(u, {"push"})
             /\ Queued(u)' = Queued(u)
        /\ kind[t] = "storage" => Of(t, {"commit", "push"})' = {} /\ Of(t, {"push"})' = {}
    BY <1>0, <1>1, <1>2, <1>3, <2>1, SettleInLine
  <2> QED
    BY <1>0, <1>2, <2>3, <2>4, <2>5 DEF LateWrites
<1>4. CASE /\ pass[p].stage = "add" /\ place' = Lifted(t, {"disk"}, "index")
           /\ GoesOn(p, "commit") /\ UNCHANGED rearmed
  <2>1. /\ InLine'
        /\ \A u \in Target : Queued(u)' = Queued(u) /\ Running(u)' = Running(u)
        /\ \A u \in Target : u # t =>
             /\ Of(u, {"commit", "push"})' = Of(u, {"commit", "push"})
             /\ Of(u, {"push"})' = Of(u, {"push"})
    BY <1>0, <1>1, <1>2, <1>4, GoesOnInLine
  <2>2. /\ \A u \in Target : u # t => At(u, {"disk"})' = At(u, {"disk"}) /\ At(u, {"index"})' = At(u, {"index"})
        /\ At(t, {"disk"})' = {}
    BY <1>0, <1>4, LiftedAt DEF Places
  <2>3. kind[t] = "storage" => Of(t, {"push"})' = {}
    <3>1. \A q \in Pass : q # p => pass'[q] = pass[q]
      BY <1>0, <1>2, <1>4, GoesOnTypes DEF Stages
    <3>2. pass'[p].stage = "commit"
      BY <1>0, <1>2, <1>4, GoesOnTypes DEF Stages
    <3>3. kind[t] = "storage" => \A q \in Running(t) : q = p
      BY <1>0, <1>1, <1>2, <1>4 DEF InLine, Running, Of
    <3> QED
      BY <3>1, <3>2, <3>3 DEF Of, Running
  <2> QED
    BY <1>0, <1>2, <1>4, <2>1, <2>2, <2>3 DEF LateWrites, GoesOn
<1>5. CASE /\ pass[p].stage = "commit" /\ place' = Lifted(t, {"index"}, "head")
           /\ GoesOn(p, "push") /\ UNCHANGED rearmed
  <2>1. /\ InLine'
        /\ \A u \in Target : Queued(u)' = Queued(u) /\ Running(u)' = Running(u)
        /\ \A u \in Target : u # t =>
             /\ Of(u, {"commit", "push"})' = Of(u, {"commit", "push"})
             /\ Of(u, {"push"})' = Of(u, {"push"})
    BY <1>0, <1>1, <1>2, <1>5, GoesOnInLine
  <2>2. /\ \A u \in Target : u # t => At(u, {"disk"})' = At(u, {"disk"}) /\ At(u, {"index"})' = At(u, {"index"})
        /\ At(t, {"disk"})' \subseteq At(t, {"disk"}) /\ At(t, {"index"})' = {}
    BY <1>0, <1>5, LiftedAt DEF Places
  <2>3. p \in Of(t, {"commit", "push"})
    BY <1>1, <1>2, <1>5 DEF Of
  <2> QED
    BY <1>0, <1>2, <1>5, <2>1, <2>2, <2>3 DEF LateWrites, GoesOn
<1> QED
  BY <1>1, <1>3, <1>4, <1>5 DEF Runs, Add, Commit, Pushed, PushFails, PushPostponed

LEMMA NextInLine == DeliveryInv /\ [Next]_vars => InLine' /\ LateWrites'
<1> SUFFICES ASSUME DeliveryInv, [Next]_vars PROVE InLine' /\ LateWrites'
  OBVIOUS
<1>0. TypeOK /\ InLine /\ LateWrites
  BY DEF DeliveryInv
<1>a. ASSUME UNCHANGED pass
      PROVE  /\ \A t \in Target : \A w : Of(t, w)' = Of(t, w)
             /\ \A t \in Target : Queued(t)' = Queued(t) /\ Running(t)' = Running(t)
  BY <1>a DEF Queued, Running, Of
<1>b. ASSUME UNCHANGED <<pass, kind, rearmed>> PROVE InLine'
  BY <1>0, <1>a, <1>b DEF InLine
<1>c. ASSUME UNCHANGED <<pass, kind, rearmed, place>>,
             \A t \in Target : pending[t] # None => pending'[t] # None
      PROVE  InLine' /\ LateWrites'
  BY <1>0, <1>a, <1>b, <1>c, LateStays
<1>d. ASSUME NEW t \in Target, NEW by \in {"trigger", "other"}, Begin(t, by),
             UNCHANGED <<kind, place>>, rearmed' \subseteq rearmed,
             \A u \in Target : u # t => pending'[u] = pending[u]
      PROVE  InLine' /\ LateWrites'
  <2>1. /\ InLine'
        /\ \A u \in Target : /\ Of(u, {"commit", "push"})' = Of(u, {"commit", "push"})
                             /\ Of(u, {"push"})' = Of(u, {"push"})
                             /\ Queued(u) \subseteq Queued(u)'
        /\ kind[t] = "storage" /\ Running(t) # {} => Queued(t)' # {}
    BY <1>0, <1>d, BeginInLine
  <2>2. Of(t, {"commit", "push"}) # {} => Running(t) # {}
    BY DEF Of, Running
  <2>3. \A u \in Target : \A w : At(u, w)' = At(u, w)
    BY <1>d DEF At
  <2>4. \A u \in Target : Queued(u) # {} => Queued(u)' # {}
    BY <2>1
  <2> QED
    BY <1>0, <1>d, <2>1, <2>2, <2>3, <2>4 DEF LateWrites
<1>1. CASE UNCHANGED vars
  BY <1>1, <1>c DEF vars, carriers
<1>2. ASSUME NEW a \in Artifact, NoteArtifactWritten(a) PROVE InLine' /\ LateWrites'
  <2>1. PICK t \in Target : t = Home[a]
    BY PlaceAssumption
  <2>2. /\ \A u \in Target : u # t => At(u, {"disk"})' = At(u, {"disk"}) /\ pending'[u] = pending[u]
        /\ \A u \in Target : At(u, {"index"})' \subseteq At(u, {"index"})
        /\ pending'[t] # None
    BY <1>0, <1>2, <2>1, WaitTypes, NotNone DEF NoteArtifactWritten, At, TypeOK
  <2>3. UNCHANGED <<kind, rearmed, pass>>
    BY <1>2 DEF NoteArtifactWritten
  <2> QED
    BY <1>0, <1>a, <1>b, <2>2, <2>3 DEF LateWrites
<1>3. ASSUME NEW t \in Target, Fire(t) \/ FlushArtifactSync(t) PROVE InLine' /\ LateWrites'
  BY <1>0, <1>3, <1>d DEF Fire, FlushArtifactSync, TypeOK
<1>4. ASSUME NEW t \in Target,
             UnpushedRetry(t) \/ OthersPass(t) \/ \E key \in Keys : ProbeOnce(key, t)
      PROVE  InLine' /\ LateWrites'
  BY <1>4, <1>d DEF UnpushedRetry, OthersPass, ProbeOnce, carriers
<1>5. ASSUME NEW t \in Target, PeerPushes(t) \/ ConvergeWorkingRepo(t) PROVE InLine' /\ LateWrites'
  BY <1>5, <1>c DEF PeerPushes, ConvergeWorkingRepo, carriers
<1>6. CASE Tick
  BY <1>0, <1>6, <1>c, TickTypes DEF Tick
<1>7. CASE Restart
  <2>1. /\ \A p \in Pass : pass'[p] # None => pass'[p].stage = "add"
        /\ \A p, q \in Pass : pass'[p] # None /\ pass'[q] # None
                             /\ pass'[p].target = pass'[q].target => p = q
        /\ rearmed' = {}
    BY <1>0, <1>7, BootStarts DEF Restart
  <2>2. \A t \in Target : /\ Queued(t)' = {} /\ \A p, q \in Running(t)' : p = q
                          /\ Of(t, {"commit", "push"})' = {} /\ Of(t, {"push"})' = {}
    BY <2>1 DEF Queued, Running, Of
  <2> QED
    BY <2>1, <2>2 DEF InLine, LateWrites
<1>8. CASE GoOffline \/ GoOnline
  BY <1>8, <1>c DEF GoOffline, GoOnline, carriers
<1> QED
  BY <1>1, <1>2, <1>3, <1>4, <1>5, <1>6, <1>7, <1>8, PassInLine DEF Next

LEMMA Invariant == Spec => []DeliveryInv
<1>1. Init => DeliveryInv
  <2> SUFFICES ASSUME Init PROVE DeliveryInv
    OBVIOUS
  <2>1. \A t \in Target : \A w : Of(t, w) = {}
    BY DEF Init, Of
  <2> QED
    BY <2>1, InitTypes DEF DeliveryInv, InLine, LateWrites, Queued, Running, Init
<1>2. DeliveryInv /\ [Next]_vars => DeliveryInv'
  BY NextTypes, NextInLine DEF DeliveryInv
<1> QED
  BY <1>1, <1>2, PTL DEF Spec

\* The calls of a storage collapse: one pass runs and one waits, and a repository, whose
\* push is not armed again, queues none.
THEOREM OneBehindOne == Spec => []InLine
  BY Invariant, PTL DEF DeliveryInv

-----------------------------------------------------------------------------
(* An artifact in hand stays in hand.                                         *)

LEMMA Takes ==
    /\ TakesFrom["disk"] = {"queued", "add"}
    /\ TakesFrom["index"] = {"queued", "add", "commit"}
    /\ TakesFrom["head"] = {"queued", "add", "commit", "push"}
  BY DEF TakesFrom, Stages

\* How far a step may take a version.
Advances(a) == \/ place'[a] = place[a] \/ place'[a] = "origin"
               \/ place[a] = "disk" /\ place'[a] = "index"
               \/ place[a] = "index" /\ place'[a] = "head"

LEMMA HandStays ==
    ASSUME TypeOK, NEW a \in Artifact, NEW t \in Target, Home[a] = t, HasCarrier(a), Advances(a),
           pending[t] # None => pending'[t] # None,
           t \in rearmed => t \in rearmed',
           \A key \in Keys : <<key, t>> \in waiters => <<key, t>> \in waiters',
           \A p \in Pass : pass[p] # None /\ pass[p].target = t /\ pass[p].stage \in TakesFrom[place[a]] =>
             /\ pass'[p] # None /\ pass'[p].target = t
             /\ pass'[p].stage = pass[p].stage \/ pass'[p].stage = "add"
    PROVE  HasCarrier(a)'
<1>1. place[a] \in {"disk", "index", "head", "origin"}
  BY DEF TypeOK, Places
<1>2. place[a] = "origin" => place'[a] = "origin"
  BY DEF Advances
<1>3. CASE place[a] # "origin" /\ place'[a] # "origin"
  <2>1. /\ place'[a] \in {"disk", "index", "head"} /\ "add" \in TakesFrom[place'[a]]
        /\ TakesFrom[place[a]] \subseteq TakesFrom[place'[a]]
    BY <1>1, <1>3, Takes DEF Advances
  <2>2. Of(t, TakesFrom[place[a]]) # {} => Of(t, TakesFrom[place[a]])' # {}
    <3> SUFFICES ASSUME Of(t, TakesFrom[place[a]]) # {}
                 PROVE  Of(t, TakesFrom[place[a]])' # {}
      OBVIOUS
    <3>1. PICK p \in Pass : pass[p] # None /\ pass[p].target = t /\ pass[p].stage \in TakesFrom[place[a]]
      BY DEF Of
    <3>2. pass'[p] # None /\ pass'[p].target = t /\ pass'[p].stage \in TakesFrom[place'[a]]
      BY <2>1, <3>1
    <3> HIDE DEF TakesFrom
    <3>3. TakesFrom[place[a]]' = TakesFrom[place'[a]]
      BY DEF TakesFrom, Stages
    <3> QED
      BY <3>2, <3>3 DEF Of
  <2> QED
    BY <1>3, <2>2 DEF HasCarrier
<1> QED
  BY <1>1, <1>2, <1>3 DEF HasCarrier

\* A timer, a waiter or a new pass has every version of its target in hand.
LEMMA HandTaken ==
    ASSUME TypeOK', NEW a \in Artifact, NEW t \in Target, Home[a] = t,
           \/ place'[a] = "origin" \/ pending'[t] # None \/ t \in rearmed'
           \/ <<"push", t>> \in waiters'
           \/ \E p \in Pass : /\ pass'[p] # None /\ pass'[p].target = t
                              /\ \/ pass'[p].stage \in {"queued", "add"}
                                 \/ pass'[p].stage = "commit" /\ place'[a] # "disk"
                                 \/ pass'[p].stage = "push" /\ place'[a] = "head"
    PROVE  HasCarrier(a)'
<1>1. place'[a] \in {"disk", "index", "head", "origin"}
  BY DEF TypeOK, Places
<1>2. ASSUME NEW p \in Pass, pass'[p] # None, pass'[p].target = t,
             pass'[p].stage \in TakesFrom[place'[a]]
      PROVE  HasCarrier(a)'
  <2>1. TakesFrom[place[a]]' = TakesFrom[place'[a]]
    BY DEF TakesFrom, Stages
  <2> HIDE DEF TakesFrom
  <2>2. p \in Of(t, TakesFrom[place[a]])'
    BY <1>2, <2>1 DEF Of
  <2> QED
    BY <2>2 DEF HasCarrier
<1>3. (\/ place'[a] = "origin" \/ pending'[t] # None \/ t \in rearmed'
       \/ <<"push", t>> \in waiters') => HasCarrier(a)'
  BY DEF HasCarrier, Keys
<1> QED
  BY <1>1, <1>2, <1>3, Takes

\* The three steps that may drop what was in hand.
Excepted(a) == boots' # boots \/ OthersEnd(Home[a]) \/ LeavesQuietly(Home[a])

LEMMA PassKeeps ==
    ASSUME DeliveryInv, TypeOK', NEW p \in Pass, Runs(p), NEW a \in Artifact, HasCarrier(a)
    PROVE  HasCarrier(a)' \/ Excepted(a)
<1>0. TypeOK /\ InLine /\ LateWrites
  BY DEF DeliveryInv
<1>1. PICK t \in Target : pass[p].target = t
  BY <1>0, TargetOf DEF Runs, Add, Commit, Pushed, PushFails, PushPostponed
<1>2. PICK u \in Target : Home[a] = u
  BY PlaceAssumption
<1>3. /\ pass[p] # None /\ pass[p].stage \in {"add", "commit", "push"} /\ kind' = kind
      /\ pass[p].by \in {"trigger", "other"}
      /\ kind[t] \in {"storage", "repo"} /\ place[a] \in {"disk", "index", "head", "origin"}
  BY <1>0, TargetOf DEF Runs, Add, Commit, Pushed, PushFails, PushPostponed, TypeOK, Kinds, Places
<1>4. /\ \/ place'[a] = place[a]
         \/ u = t /\ Advances(a)
      /\ \A v \in Target : v # t /\ v \in rearmed => v \in rearmed'
  BY <1>0, <1>1, <1>2, LiftedAt
     DEF Runs, Add, Commit, Pushed, PushFails, PushPostponed, Places, Advances, At
<1>5. CASE \E s \in {"commit", "push"} : GoesOn(p, s)
  <2>1. PICK s \in {"commit", "push"} : GoesOn(p, s)
    BY <1>5
  <2>2. /\ pass'[p] # None /\ pass'[p].target = t /\ pass'[p].stage = s
        /\ \A q \in Pass : q # p => pass'[q] = pass[q]
    BY <1>0, <1>1, <1>3, <2>1, GoesOnTypes DEF Stages
  <2>3. ~\E outcome \in {"ok", "problem", "offline"} : Settle(p, outcome)
    BY <1>0, <1>3, <2>2, SettleEnds
  <2>4. /\ UNCHANGED <<pending, waiters, rearmed>>
        /\ \/ s = "commit" /\ pass[p].stage = "add" /\ place' = Lifted(t, {"disk"}, "index")
           \/ s = "push" /\ pass[p].stage = "commit" /\ place' = Lifted(t, {"index"}, "head")
    <3>1. CASE Add(p)
      BY <1>1, <2>1, <2>2, <2>3, <3>1, GoesOnTypes, <1>0, <1>3 DEF Add, GoesOn, Stages
    <3>2. CASE Commit(p)
      BY <1>1, <2>1, <2>2, <2>3, <3>2, GoesOnTypes, <1>0, <1>3 DEF Commit, GoesOn, Stages
    <3> QED
      BY <2>3, <3>1, <3>2 DEF Runs, Pushed, PushFails, PushPostponed
  <2>5. CASE u # t
    BY <1>0, <1>1, <1>2, <1>4, <2>2, <2>4, <2>5, HandStays DEF Advances
  <2>6. CASE u = t /\ s = "commit"
    <3>1. place'[a] # "disk"
      BY <1>0, <1>2, <2>4, <2>6, LiftedAt DEF Places, At
    <3> QED
      BY <1>2, <2>2, <2>6, <3>1, HandTaken
  <2>7. CASE u = t /\ s = "push" /\ place[a] = "index"
    <3>1. place'[a] = "head"
      BY <1>0, <1>2, <2>4, <2>7, LiftedAt DEF Places, At
    <3> QED
      BY <1>2, <2>2, <2>7, <3>1, HandTaken
  <2>8. CASE u = t /\ s = "push" /\ place[a] # "index"
    <3>1. place'[a] = place[a]
      BY <1>0, <1>2, <2>4, <2>8, LiftedAt DEF Places, At
    <3>2. CASE place[a] \in {"head", "origin"}
      BY <1>2, <2>2, <2>8, <3>1, <3>2, HandTaken
    <3>3. CASE place[a] = "disk"
      <4>1. \A q \in Pass : pass[q] # None /\ pass[q].stage \in TakesFrom[place[a]] => q # p
        BY <2>4, <2>8, <3>3, Takes
      <4> QED
        BY <1>0, <1>2, <2>2, <2>4, <2>8, <3>1, <4>1, HandStays DEF Advances
    <3> QED
      BY <1>3, <2>8, <3>2, <3>3
  <2> QED
    BY <2>1, <2>5, <2>6, <2>7, <2>8
<1>6. ASSUME NEW outcome \in {"ok", "problem", "offline"}, Settle(p, outcome)
      PROVE  /\ Ends(p, t)
             /\ \A q \in Pass : q # p /\ pass[q] # None =>
                  /\ pass'[q] # None /\ pass'[q].target = pass[q].target
                  /\ pass'[q].stage = IF q \in Queued(t) THEN "add" ELSE pass[q].stage
             /\ \A v \in Target : pending[v] # None => pending'[v] # None
             /\ pass[p].by = "trigger" /\ outcome = "problem" => pending'[t] # None
             /\ waiters \subseteq waiters'
             /\ outcome = "offline" => <<"push", t>> \in waiters'
             /\ u # t => HasCarrier(a)'
  <2>1. /\ pass'[p] = None
        /\ \A q \in Pass : q # p /\ pass[q] # None =>
             /\ pass'[q] # None /\ pass'[q].target = pass[q].target
             /\ pass'[q].stage = IF q \in Queued(t) THEN "add" ELSE pass[q].stage
        /\ \A v \in Target : pending[v] # None => pending'[v] # None
        /\ pass[p].by = "trigger" /\ outcome = "problem" => pending'[t] # None
        /\ waiters \subseteq waiters'
        /\ outcome = "offline" => <<"push", t>> \in waiters'
    BY <1>0, <1>1, <1>3, <1>6, SettleEnds
  <2>2. Ends(p, t)
    BY <1>1, <1>3, <2>1 DEF Ends
  <2>3. u # t => HasCarrier(a)'
    BY <1>0, <1>1, <1>2, <1>4, <2>1, HandStays DEF Advances
  <2> QED
    BY <2>1, <2>2, <2>3
<1>7. CASE Settle(p, "offline")
  BY <1>2, <1>6, <1>7, HandTaken
<1>8. CASE Settle(p, "problem") /\ pass[p].stage # "push"
  BY <1>2, <1>3, <1>6, <1>8, HandTaken DEF Excepted, OthersEnd
<1>9. CASE Settle(p, "problem") /\ PushFails(p)
  <2>1. kind[t] = "storage" => t \in rearmed'
    BY <1>1, <1>9 DEF PushFails
  <2> QED
    BY <1>2, <1>3, <1>6, <1>9, <2>1, HandTaken DEF Excepted, OthersEnd
<1>10. CASE Settle(p, "ok") /\ pass[p].stage = "add" /\ NothingToCarry(t) /\ place' = place
  <2>1. u = t => place[a] \notin {"disk", "index"} /\ (kind[t] = "storage" => place[a] # "head")
    BY <1>2, <1>10 DEF NothingToCarry, At
  <2> QED
    BY <1>2, <1>3, <1>6, <1>10, <2>1, HandTaken DEF Excepted, LeavesQuietly
<1>11. CASE Settle(p, "ok") /\ Pushed(p)
  <2>1. /\ place' = Lifted(t, {"head"}, "origin") /\ pass[p].stage = "push" /\ rearmed' = rearmed \ {t}
        /\ p \in Of(t, {"push"}) /\ p \in Of(t, {"commit", "push"})
    BY <1>1, <1>11 DEF Pushed, Of
  <2>2. CASE u = t /\ place[a] \in {"head", "origin"}
    <3>1. place'[a] = "origin"
      BY <1>0, <1>2, <2>1, <2>2, LiftedAt DEF Places, At
    <3> QED
      BY <1>2, <3>1, HandTaken
  <2>3. CASE u = t /\ place[a] \in {"disk", "index"} /\ kind[t] = "repo"
    <3>1. place'[a] = place[a]
      BY <1>0, <1>2, <2>1, <2>3, LiftedAt DEF Places, At
    <3>2. t \notin rearmed
      BY <1>0, <2>3 DEF InLine
    <3>3. \A q \in Pass : pass[q].stage \in TakesFrom[place[a]] => q # p
      BY <2>1, <2>3, Takes
    <3> QED
      BY <1>0, <1>2, <1>6, <1>11, <2>3, <3>1, <3>2, <3>3, HandStays DEF Advances
  <2>4. CASE u = t /\ place[a] = "index" /\ kind[t] = "storage"
    BY <1>0, <1>2, <2>1, <2>4 DEF LateWrites, At
  <2>5. CASE u = t /\ place[a] = "disk" /\ kind[t] = "storage"
    <3>1. pending[t] # None \/ Queued(t) # {}
      BY <1>0, <1>2, <2>1, <2>5 DEF LateWrites, At
    <3>2. CASE pending[t] # None
      BY <1>2, <1>6, <1>11, <2>5, <3>2, HandTaken
    <3>3. CASE Queued(t) # {}
      <4>1. PICK q \in Pass : q \in Queued(t) /\ pass[q] # None /\ pass[q].target = t /\ q # p
        BY <1>3, <2>1, <3>3 DEF Queued, Of
      <4>2. pass'[q] # None /\ pass'[q].target = t /\ pass'[q].stage = "add"
        BY <1>6, <1>11, <4>1
      <4> QED
        BY <1>2, <2>5, <4>2, HandTaken
    <3> QED
      BY <3>1, <3>2, <3>3
  <2> QED
    BY <1>3, <1>6, <1>11, <2>2, <2>3, <2>4, <2>5
<1> QED
  BY <1>1, <1>5, <1>7, <1>8, <1>9, <1>10, <1>11 DEF Runs, Add, Commit, Pushed, PushFails, PushPostponed

LEMMA NextKeeps ==
    ASSUME DeliveryInv, TypeOK', [Next]_vars, NEW a \in Artifact, HasCarrier(a)
    PROVE  HasCarrier(a)' \/ Excepted(a)
<1>0. TypeOK
  BY DEF DeliveryInv
<1>1. PICK u \in Target : Home[a] = u
  BY PlaceAssumption
<1>a. ASSUME place'[a] = place[a], pass' = pass, rearmed' = rearmed, waiters' = waiters,
             pending[u] # None => pending'[u] # None
      PROVE  HasCarrier(a)'
  BY <1>0, <1>1, <1>a, HandStays DEF Advances
<1>b. ASSUME NEW t \in Target, NEW by \in {"trigger", "other"}, Begin(t, by), place' = place,
             u # t => /\ pending'[u] = pending[u] /\ (u \in rearmed => u \in rearmed')
                      /\ \A key \in Keys : <<key, u>> \in waiters => <<key, u>> \in waiters'
      PROVE  HasCarrier(a)'
  <2>1. \A p \in Pass : pass[p] # None =>
          /\ pass'[p] # None /\ pass'[p].target = pass[p].target /\ pass'[p].stage = pass[p].stage
    BY <1>0, <1>b, BeginStarts
  <2>2. CASE u = t
    <3>1. CASE Queued(t) # {}
      BY <1>1, <2>1, <2>2, <3>1, HandTaken DEF Queued, Of
    <3>2. CASE Queued(t) = {}
      <4>1. \E n \in Pass : pass'[n] # None /\ pass'[n].target = t /\ pass'[n].stage \in {"queued", "add"}
        BY <1>0, <1>b, <3>2, BeginStarts
      <4> QED
        BY <1>1, <2>2, <4>1, HandTaken
    <3> QED
      BY <3>1, <3>2
  <2>3. CASE u # t
    BY <1>0, <1>1, <1>b, <2>1, <2>3, HandStays DEF Advances
  <2> QED
    BY <2>2, <2>3
<1>2. CASE UNCHANGED vars
  BY <1>2, <1>a DEF vars, carriers
<1>3. ASSUME NEW b \in Artifact, NoteArtifactWritten(b) PROVE HasCarrier(a)'
  <2>1. PICK t \in Target : Home[b] = t
    BY PlaceAssumption
  <2>2. pending'[t] # None
    BY <1>0, <1>3, <2>1, WaitTypes, NotNone DEF NoteArtifactWritten, TypeOK
  <2>3. CASE u = t
    BY <1>1, <2>2, <2>3, HandTaken
  <2>4. CASE u # t
    <3>1. place'[a] = place[a] /\ pending'[u] = pending[u]
      BY <1>0, <1>1, <1>3, <2>1, <2>4 DEF NoteArtifactWritten, TypeOK
    <3> QED
      BY <1>3, <1>a, <3>1 DEF NoteArtifactWritten
  <2> QED
    BY <2>3, <2>4
<1>4. ASSUME NEW t \in Target, Fire(t) \/ FlushArtifactSync(t) PROVE HasCarrier(a)'
  <2>1. u # t => pending'[u] = pending[u]
    BY <1>0, <1>4 DEF Fire, FlushArtifactSync, TypeOK
  <2> QED
    BY <1>4, <1>b, <2>1 DEF Fire, FlushArtifactSync
<1>5. ASSUME NEW t \in Target,
             UnpushedRetry(t) \/ OthersPass(t) \/ \E key \in Keys : ProbeOnce(key, t)
      PROVE  HasCarrier(a)'
  BY <1>5, <1>b DEF UnpushedRetry, OthersPass, ProbeOnce, carriers
<1>6. ASSUME NEW t \in Target, PeerPushes(t) \/ ConvergeWorkingRepo(t) PROVE HasCarrier(a)'
  BY <1>6, <1>a DEF PeerPushes, ConvergeWorkingRepo, carriers
<1>7. CASE Tick
  BY <1>0, <1>7, <1>a, TickTypes DEF Tick
<1>8. CASE Restart
  BY <1>0, <1>8 DEF Restart, Excepted, TypeOK
<1>9. CASE GoOffline \/ GoOnline
  BY <1>9, <1>a DEF GoOffline, GoOnline, carriers
<1> QED
  BY <1>2, <1>3, <1>4, <1>5, <1>6, <1>7, <1>8, <1>9, PassKeeps DEF Next

\* An artifact in hand stays in hand, whatever fails and in whatever order, but for the
\* process that dies, the pass of somebody else that fails, and the pass of a repository
\* that finds its commit unpushed.
THEOREM HandsOver == Spec => KeepsCarrier
<1>1. DeliveryInv /\ [Next]_vars =>
        (\A a \in Artifact : HasCarrier(a) =>
           \/ HasCarrier(a)'
           \/ boots' # boots
           \/ OthersEnd(Home[a]) \/ LeavesQuietly(Home[a]))
  BY NextTypes, NextKeeps DEF DeliveryInv, Excepted
<1> QED
  BY Invariant, <1>1, PTL DEF Spec, KeepsCarrier

=============================================================================
