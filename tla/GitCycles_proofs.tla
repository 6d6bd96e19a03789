-------------------------- MODULE GitCycles_proofs --------------------------
(* However many storages share a working copy and however their cycles and  *)
(* the mirrors interleave: one cycle runs git in it, no mirror writes beside *)
(* it, and no mirror is forgotten.                                          *)
EXTENDS GitCycles, TLAPS

AskedIsCall == \A r \in Request : stage[r] # "new" => asked[r] \in Call

\* The copy knows its owner, the owner its span, and the nesting is the span's.
GateExact ==
    /\ \A t \in Tree : busy[t] # None =>
         stage[busy[t]] \in Spans /\ TreeOfReq(busy[t]) = t
    /\ \A r \in Request : stage[r] \in Spans =>
         /\ busy[TreeOfReq(r)] = r
         /\ depth[TreeOfReq(r)] = IF stage[r] = "repulling" THEN 2 ELSE 1

\* The successor of a storage is the request that waits in its queue.
QueueExact ==
    /\ \A s \in Storage : queued[s] # None =>
         stage[queued[s]] = "queued" /\ asked[queued[s]].site = s
    /\ \A r \in Request : stage[r] = "queued" => queued[asked[r].site] = r

MirrorState == {"idle", "pass", "overtaken", "again"}

\* TypeOK in two halves: the cycles and the mirrors.
CycleTypes ==
    /\ asked \in [Request -> [kind : Kind \cup {None}, site : Storage \cup {None}]]
    /\ stage \in [Request -> Stages]
    /\ into \in [Request -> Request \cup {None}]
    /\ running \in [Storage -> Request \cup {None}]
    /\ queued \in [Storage -> Request \cup {None}]
    /\ busy \in [Tree -> Request \cup {None}]
    /\ depth \in [Tree -> 0 .. 2]
    /\ result \in [Request -> {"ok", "problem", "conflict"}]
    /\ tries \in [Request -> 0 .. Attempts - 1]
    /\ disk \in [Tree -> SUBSET Request]
    /\ head \in [Tree -> SUBSET Request]
    /\ origin \in [Tree -> SUBSET Request]
    /\ cleared \in [Tree -> SUBSET Request]

MirrorTypes ==
    /\ mirror \in [Repo -> MirrorState]
    /\ deferred \subseteq Repo /\ stale \subseteq Repo /\ dropped \subseteq Repo

CycleInv  == CycleTypes /\ AskedIsCall /\ GateExact /\ QueueExact
MirrorInv == MirrorTypes /\ NobodyWaitsForNothing /\ NothingForgotten

\* OneCyclePerTree follows from GateExact alone; a step preserves the halves apart.
GitInv == CycleInv /\ MirrorInv /\ writes \in 0 .. MaxWrites

\* A mirror that lands in this step lands outside the cycles.
Lands == \A m \in stale : m \notin stale' => ~InCycle(m)'

-----------------------------------------------------------------------------
(* The mirror.                                                              *)

\* What a call of the mirror for the repos of S leaves behind.
LEMMA MirrorsKeep ==
    ASSUME NEW S \in SUBSET Repo, NEW F \in [Repo -> MirrorState],
           NEW J \in SUBSET Repo, NEW U \in SUBSET Repo,
           dropped \subseteq Repo, Mirrors(S, F, J, U),
           \A m \in J : InCycle(m)',
           U \subseteq J \cup S \cup dropped \cup {m \in Repo : F[m] # "idle"}
    PROVE  MirrorInv' /\ \A m \in U : m \notin stale' => ~InCycle(m)'
<1> DEFINE joined  == {m \in S : F[m] # "idle"}
           blocked == {m \in S \ joined : InCycle(m)'}
           begun   == S \ (joined \cup blocked)
<1>1. PICK handed \in SUBSET begun : \E failed \in SUBSET (begun \ handed) :
          /\ mirror' = [m \in Repo |-> IF m \in handed THEN "pass"
                                       ELSE IF m \in joined THEN "again" ELSE F[m]]
          /\ deferred' = J \cup blocked
          /\ stale' = U \ (begun \ (handed \cup failed))
          /\ dropped' = (dropped \ S) \cup failed
  BY DEF Mirrors
<1>2. PICK failed \in SUBSET (begun \ handed) :
          /\ mirror' = [m \in Repo |-> IF m \in handed THEN "pass"
                                       ELSE IF m \in joined THEN "again" ELSE F[m]]
          /\ deferred' = J \cup blocked
          /\ stale' = U \ (begun \ (handed \cup failed))
          /\ dropped' = (dropped \ S) \cup failed
  BY <1>1
<1>3. mirror' \in [Repo -> MirrorState]
  BY <1>2 DEF MirrorState
<1>4. deferred' \subseteq Repo /\ stale' \subseteq Repo /\ dropped' \subseteq Repo
  BY <1>2
<1>5. NobodyWaitsForNothing'
  <2> SUFFICES ASSUME NEW m \in deferred' PROVE InCycle(m)'
    BY DEF NobodyWaitsForNothing
  <2>1. m \in J \/ m \in blocked
    BY <1>2
  <2> QED
    BY <2>1
<1>6. NothingForgotten'
  <2> SUFFICES ASSUME NEW m \in stale'
               PROVE  m \in deferred' \/ m \in dropped' \/ (m \in Repo /\ mirror'[m] # "idle")
    BY DEF NothingForgotten
  <2>1. m \in U /\ m \in Repo /\ ~(m \in begun /\ m \notin handed /\ m \notin failed)
    BY <1>2
  <2>2. CASE m \in S
    <3>1. CASE m \in joined
      <4>1. m \notin handed
        BY <3>1
      <4> QED
        BY <1>2, <2>1, <3>1, <4>1
    <3>2. CASE m \in blocked
      BY <1>2, <3>2
    <3>3. CASE m \in begun
      BY <1>2, <2>1, <3>3
    <3> QED
      BY <2>2, <3>1, <3>2, <3>3
  <2>3. CASE m \notin S
    <3>1. m \notin handed /\ m \notin joined
      BY <2>3
    <3>2. mirror'[m] = F[m]
      BY <1>2, <2>1, <3>1
    <3> QED
      BY <1>2, <2>1, <2>3, <3>2
  <2> QED
    BY <2>2, <2>3
<1>7. \A m \in U : m \notin stale' => ~InCycle(m)'
  <2> SUFFICES ASSUME NEW m \in U, m \notin stale' PROVE ~InCycle(m)'
    OBVIOUS
  <2>1. m \in begun
    BY <1>2
  <2> QED
    BY <2>1
<1> QED
  BY <1>3, <1>4, <1>5, <1>6, <1>7 DEF MirrorInv, MirrorTypes

\* A drain with the passes in flight F, of which none came to rest.
LEMMA DrainKeeps ==
    ASSUME MirrorInv, NEW F \in [Repo -> MirrorState], Drain(F),
           \A m \in Repo : mirror[m] # "idle" => F[m] # "idle"
    PROVE  MirrorInv' /\ Lands
<1> DEFINE free == {m \in deferred : ~InCycle(m)'}
<1>1. deferred \subseteq Repo /\ stale \subseteq Repo /\ dropped \subseteq Repo
  BY DEF MirrorInv, MirrorTypes
<1>2. Mirrors(free, F, deferred \ free, stale)
  BY DEF Drain
<1>3. \A m \in deferred \ free : InCycle(m)'
  OBVIOUS
<1>4. stale \subseteq (deferred \ free) \cup free \cup dropped \cup {m \in Repo : F[m] # "idle"}
  BY <1>1 DEF MirrorInv, NothingForgotten
<1>5. free \in SUBSET Repo /\ deferred \ free \in SUBSET Repo /\ stale \in SUBSET Repo
  BY <1>1
<1> HIDE DEF free
<1>6. MirrorInv' /\ \A m \in stale : m \notin stale' => ~InCycle(m)'
  BY <1>1, <1>2, <1>3, <1>4, <1>5, MirrorsKeep
<1> QED
  BY <1>6 DEF Lands

LEMMA OvertakenKeeps ==
    ASSUME MirrorInv, NEW t
    PROVE  /\ Overtaken(t) \in [Repo -> MirrorState]
           /\ \A m \in Repo : mirror[m] # "idle" => Overtaken(t)[m] # "idle"
BY DEF MirrorInv, MirrorTypes, Overtaken, MirrorState

\* The cycles move, and no copy is released.
LEMMA MirrorsWait ==
    ASSUME MirrorInv, UNCHANGED <<deferred, stale, dropped>>,
           mirror' \in [Repo -> MirrorState],
           \A m \in Repo : mirror[m] # "idle" => mirror'[m] # "idle",
           \A t \in Tree : busy[t] # None => busy'[t] # None
    PROVE  MirrorInv' /\ Lands
<1>1. \A m \in Repo : InCycle(m) => InCycle(m)'
  BY PlaceAssumption DEF InCycle
<1>2. NobodyWaitsForNothing'
  BY <1>1 DEF MirrorInv, MirrorTypes, NobodyWaitsForNothing
<1>3. NothingForgotten'
  BY DEF MirrorInv, MirrorTypes, NothingForgotten
<1> QED
  BY <1>2, <1>3 DEF MirrorInv, MirrorTypes, Lands

LEMMA WriteKeeps ==
    ASSUME MirrorInv, NEW m \in Repo, Write(m)
    PROVE  MirrorInv' /\ Lands
<1>1. \A n \in Repo : InCycle(n) <=> InCycle(n)'
  BY DEF Write, InCycle, gate
<1>2. \A n \in deferred : InCycle(n)'
  BY <1>1 DEF MirrorInv, MirrorTypes, NobodyWaitsForNothing
<1>3. Mirrors({m}, mirror, deferred, stale \cup {m})
  BY DEF Write
<1>4. stale \cup {m} \subseteq deferred \cup {m} \cup dropped \cup {n \in Repo : mirror[n] # "idle"}
  BY DEF MirrorInv, NothingForgotten
<1>5. /\ {m} \in SUBSET Repo /\ deferred \in SUBSET Repo /\ stale \cup {m} \in SUBSET Repo
      /\ dropped \subseteq Repo /\ mirror \in [Repo -> MirrorState]
  BY DEF MirrorInv, MirrorTypes
<1>6. MirrorInv' /\ \A n \in stale \cup {m} : n \notin stale' => ~InCycle(n)'
  BY <1>2, <1>3, <1>4, <1>5, MirrorsKeep
<1> QED
  BY <1>6 DEF Lands

LEMMA ContinueKeeps ==
    ASSUME MirrorInv, NEW m \in Repo, Continue(m)
    PROVE  MirrorInv' /\ Lands
<1>1. \A n \in Repo : InCycle(n) <=> InCycle(n)'
  BY DEF Continue, Abandon, Finish, FinishOvertaken, Fail, Rerun, InCycle, gate
<1>2. \A n \in deferred : InCycle(n)'
  BY <1>1 DEF MirrorInv, MirrorTypes, NobodyWaitsForNothing
<1>3. /\ deferred \in SUBSET Repo /\ stale \in SUBSET Repo /\ dropped \subseteq Repo
      /\ mirror \in [Repo -> MirrorState] /\ Settled(m) \in [Repo -> MirrorState]
      /\ \A n \in Repo : n # m /\ mirror[n] # "idle" => Settled(m)[n] # "idle"
  BY DEF MirrorInv, MirrorTypes, Settled, MirrorState
<1>4. stale \subseteq deferred \cup {m} \cup dropped \cup {n \in Repo : Settled(m)[n] # "idle"}
  BY <1>3 DEF MirrorInv, NothingForgotten
<1>5. CASE Abandon(m)
  <2>1. Mirrors(Again(m), Settled(m), deferred \cup {m}, stale) /\ InCycle(m)
    BY <1>5 DEF Abandon
  <2>2. Again(m) \in SUBSET Repo /\ deferred \cup {m} \in SUBSET Repo
    BY <1>3 DEF Again
  <2>3. \A n \in deferred \cup {m} : InCycle(n)'
    BY <1>1, <1>2, <2>1
  <2>4. stale \subseteq (deferred \cup {m}) \cup Again(m) \cup dropped
                          \cup {n \in Repo : Settled(m)[n] # "idle"}
    BY <1>4
  <2>5. MirrorInv' /\ \A n \in stale : n \notin stale' => ~InCycle(n)'
    BY <1>3, <2>1, <2>2, <2>3, <2>4, MirrorsKeep
  <2> QED
    BY <2>5 DEF Lands
<1>6. CASE Rerun(m)
  <2>1. Mirrors({m}, Settled(m), deferred, stale)
    BY <1>6 DEF Rerun
  <2>2. {m} \in SUBSET Repo
    OBVIOUS
  <2>3. MirrorInv' /\ \A n \in stale : n \notin stale' => ~InCycle(n)'
    BY <1>2, <1>3, <1>4, <2>1, <2>2, MirrorsKeep
  <2> QED
    BY <2>3 DEF Lands
\* The pass ends: either m is no longer stale, or it is dropped.
<1>7. CASE Finish(m) \/ FinishOvertaken(m) \/ Fail(m)
  <2>1. /\ mirror' = Settled(m) /\ deferred' = deferred
        /\ \/ stale' = stale \ {m} /\ dropped' = dropped /\ ~InCycle(m)
           \/ stale' = stale /\ dropped' = dropped \cup {m}
    BY <1>7 DEF Finish, FinishOvertaken, Fail
  <2>2. MirrorTypes'
    BY <1>3, <2>1 DEF MirrorTypes
  <2>3. NobodyWaitsForNothing'
    BY <1>2, <2>1 DEF NobodyWaitsForNothing
  <2>4. NothingForgotten'
    BY <1>3, <1>4, <2>1 DEF NothingForgotten
  <2>5. Lands
    BY <1>1, <2>1 DEF Lands
  <2> QED
    BY <2>2, <2>3, <2>4, <2>5 DEF MirrorInv
<1> QED
  BY <1>5, <1>6, <1>7 DEF Continue

-----------------------------------------------------------------------------
(* The cycles.                                                              *)

LEMMA AskedTree ==
    ASSUME CycleInv, NEW r \in Request, stage[r] # "new"
    PROVE  /\ asked[r] \in Call
           /\ asked[r].site \in Storage
           /\ TreeOfReq(r) \in Tree
BY PlaceAssumption DEF CycleInv, AskedIsCall, Call, TreeOfReq

\* A pass that is in no span moves to a stage that is none.
LEMMA MoveKeeps ==
    ASSUME CycleInv, NEW r \in Request, NEW s \in Stages, Move(r, s),
           stage[r] \notin Spans \cup {"new"}, s \notin Spans \cup {"new"},
           UNCHANGED <<asked, gate>>
    PROVE  stage' \in [Request -> Stages] /\ AskedIsCall' /\ GateExact'
<1>1. stage' = [stage EXCEPT ![r] = s] /\ stage \in [Request -> Stages]
      /\ asked' = asked /\ busy' = busy /\ depth' = depth
  BY DEF Move, CycleInv, CycleTypes, gate
<1>2. \A q \in Request : stage'[q] = IF q = r THEN s ELSE stage[q]
  BY <1>1
<1>3. \A q \in Request : stage'[q] \in Spans <=> stage[q] \in Spans
  BY <1>2
<1>4. \A q \in Request : stage[q] \in Spans => stage'[q] = stage[q]
  BY <1>2
<1>5. \A q \in Request : TreeOfReq(q)' = TreeOfReq(q)
  BY <1>1 DEF TreeOfReq
<1>6. AskedIsCall'
  BY <1>1, <1>2 DEF CycleInv, AskedIsCall
<1>7. busy \in [Tree -> Request \cup {None}]
  BY DEF CycleInv, CycleTypes
<1>8. GateExact'
  BY <1>1, <1>3, <1>4, <1>5, <1>7 DEF CycleInv, GateExact
<1> QED
  BY <1>1, <1>6, <1>8

LEMMA EnterKeeps ==
    ASSUME CycleInv, NEW r \in Request, NEW s \in Spans \ {"repulling"},
           stage[r] \in Waiting, MayEnter(r), Enter(r), Move(r, s), UNCHANGED asked
    PROVE  /\ stage' \in [Request -> Stages] /\ AskedIsCall' /\ GateExact'
           /\ busy' \in [Tree -> Request \cup {None}] /\ depth' \in [Tree -> 0 .. 2]
           /\ \A t \in Tree : busy[t] # None => busy'[t] # None
<1> DEFINE t == TreeOfReq(r)
<1>1. t \in Tree /\ asked[r] \in Call
  BY AskedTree DEF Waiting
<1>2. /\ stage' = [stage EXCEPT ![r] = s] /\ stage \in [Request -> Stages] /\ asked' = asked
      /\ busy' = [busy EXCEPT ![t] = r] /\ busy \in [Tree -> Request \cup {None}]
      /\ depth' = [depth EXCEPT ![t] = 1] /\ depth \in [Tree -> 0 .. 2]
      /\ busy[t] = None
  BY DEF Move, Enter, MayEnter, CycleInv, CycleTypes
<1>3. r # None /\ s \in Stages /\ s # "new"
  BY NoneAssumption DEF Spans, Stages
<1>4. \A q \in Request : stage'[q] = IF q = r THEN s ELSE stage[q]
  BY <1>2
<1>5. \A q \in Request : TreeOfReq(q)' = TreeOfReq(q)
  BY <1>2 DEF TreeOfReq
<1>6. \A q \in Request : stage[q] \in Spans => TreeOfReq(q) # t /\ TreeOfReq(q) \in Tree /\ q # r
  <2> SUFFICES ASSUME NEW q \in Request, stage[q] \in Spans
               PROVE  TreeOfReq(q) # t /\ TreeOfReq(q) \in Tree /\ q # r
    OBVIOUS
  <2>1. busy[TreeOfReq(q)] = q /\ q # None
    BY NoneAssumption DEF CycleInv, GateExact
  <2>2. TreeOfReq(q) \in Tree
    BY AskedTree DEF Spans
  <2> QED
    BY <1>2, <2>1, <2>2 DEF Waiting, Spans
<1>7. AskedIsCall'
  BY <1>1, <1>2, <1>4 DEF CycleInv, AskedIsCall
<1>8. \A q \in Request : stage'[q] \in Spans =>
         /\ busy'[TreeOfReq(q)] = q
         /\ depth'[TreeOfReq(q)] = IF stage'[q] = "repulling" THEN 2 ELSE 1
  BY <1>1, <1>2, <1>4, <1>6 DEF CycleInv, GateExact
<1>9. \A u \in Tree : busy'[u] # None => stage'[busy'[u]] \in Spans /\ TreeOfReq(busy'[u]) = u
  <2> SUFFICES ASSUME NEW u \in Tree, busy'[u] # None
               PROVE  stage'[busy'[u]] \in Spans /\ TreeOfReq(busy'[u]) = u
    OBVIOUS
  <2>1. CASE u = t
    BY <1>1, <1>2, <1>4, <2>1
  <2>2. CASE u # t
    <3>1. busy'[u] = busy[u] /\ busy[u] \in Request
      BY <1>2, <2>2
    <3> QED
      BY <1>4, <3>1 DEF CycleInv, GateExact
  <2> QED
    BY <2>1, <2>2
<1>10. busy' \in [Tree -> Request \cup {None}]
  BY <1>2
<1>11. GateExact'
  BY <1>5, <1>8, <1>9, <1>10 DEF GateExact
<1> QED
  BY <1>2, <1>3, <1>7, <1>10, <1>11

\* What Exit does to the gate, whatever the mirrors do.
LEMMA ExitKeeps ==
    ASSUME CycleInv, NEW r \in Request, NEW s \in Stages, NEW F,
           stage[r] \in Spans, s \notin Spans \cup {"new"}, Exit(r, s, F), UNCHANGED asked
    PROVE  /\ stage' \in [Request -> Stages] /\ AskedIsCall' /\ GateExact'
           /\ busy' \in [Tree -> Request \cup {None}] /\ depth' \in [Tree -> 0 .. 2]
<1> DEFINE t == TreeOfReq(r)
<1>1. t \in Tree /\ asked[r] \in Call /\ busy[t] = r
  BY AskedTree DEF Spans, CycleInv, GateExact
<1>2. /\ stage' = [stage EXCEPT ![r] = s] /\ stage \in [Request -> Stages] /\ asked' = asked
      /\ busy' = [busy EXCEPT ![t] = None] /\ busy \in [Tree -> Request \cup {None}]
      /\ depth' = [depth EXCEPT ![t] = 0] /\ depth \in [Tree -> 0 .. 2]
  BY DEF Move, Exit, CycleInv, CycleTypes
<1>4. \A q \in Request : stage'[q] = IF q = r THEN s ELSE stage[q]
  BY <1>2
<1>5. \A q \in Request : TreeOfReq(q)' = TreeOfReq(q)
  BY <1>2 DEF TreeOfReq
<1>6. \A q \in Request : stage[q] \in Spans /\ q # r => TreeOfReq(q) # t /\ TreeOfReq(q) \in Tree
  <2> SUFFICES ASSUME NEW q \in Request, stage[q] \in Spans, q # r
               PROVE  TreeOfReq(q) # t /\ TreeOfReq(q) \in Tree
    OBVIOUS
  <2>1. busy[TreeOfReq(q)] = q
    BY DEF CycleInv, GateExact
  <2>2. TreeOfReq(q) \in Tree
    BY AskedTree DEF Spans
  <2> QED
    BY <1>1, <2>1, <2>2
<1>7. AskedIsCall'
  BY <1>1, <1>2, <1>4 DEF CycleInv, AskedIsCall
<1>8. \A q \in Request : stage'[q] \in Spans =>
         /\ busy'[TreeOfReq(q)] = q
         /\ depth'[TreeOfReq(q)] = IF stage'[q] = "repulling" THEN 2 ELSE 1
  BY <1>2, <1>4, <1>6 DEF CycleInv, GateExact
<1>9. \A u \in Tree : busy'[u] # None => stage'[busy'[u]] \in Spans /\ TreeOfReq(busy'[u]) = u
  <2> SUFFICES ASSUME NEW u \in Tree, busy'[u] # None
               PROVE  stage'[busy'[u]] \in Spans /\ TreeOfReq(busy'[u]) = u
    OBVIOUS
  <2>1. u # t /\ busy'[u] = busy[u] /\ busy[u] \in Request
    BY <1>2
  <2>2. stage[busy[u]] \in Spans /\ TreeOfReq(busy[u]) = u
    BY <2>1 DEF CycleInv, GateExact
  <2> QED
    BY <1>4, <2>1, <2>2
<1>10. busy' \in [Tree -> Request \cup {None}]
  BY <1>2
<1>11. GateExact'
  BY <1>5, <1>8, <1>9, <1>10 DEF GateExact
<1> QED
  BY <1>2, <1>7, <1>10, <1>11

\* The nested span of a push that lost the race: the owner stays, the depth moves.
LEMMA NestKeeps ==
    ASSUME CycleInv, NEW r \in Request, NEW s \in {"pushing", "repulling"}, NEW n \in {1, 2},
           stage[r] \in Spans, Move(r, s), n = IF s = "repulling" THEN 2 ELSE 1,
           depth' = [depth EXCEPT ![TreeOfReq(r)] = n], UNCHANGED <<asked, busy>>
    PROVE  /\ stage' \in [Request -> Stages] /\ AskedIsCall' /\ GateExact'
           /\ busy' \in [Tree -> Request \cup {None}] /\ depth' \in [Tree -> 0 .. 2]
<1> DEFINE t == TreeOfReq(r)
<1>1. t \in Tree /\ asked[r] \in Call /\ busy[t] = r
  BY AskedTree DEF Spans, CycleInv, GateExact
<1>2. /\ stage' = [stage EXCEPT ![r] = s] /\ stage \in [Request -> Stages] /\ asked' = asked
      /\ busy' = busy /\ busy \in [Tree -> Request \cup {None}] /\ depth \in [Tree -> 0 .. 2]
      /\ depth' = [depth EXCEPT ![t] = n]
  BY DEF Move, CycleInv, CycleTypes
<1>3. s \in Stages /\ s \in Spans
  BY DEF Stages, Spans
<1>4. \A q \in Request : stage'[q] = IF q = r THEN s ELSE stage[q]
  BY <1>2
<1>5. \A q \in Request : TreeOfReq(q)' = TreeOfReq(q)
  BY <1>2 DEF TreeOfReq
<1>6. \A q \in Request : stage[q] \in Spans /\ q # r => TreeOfReq(q) # t /\ TreeOfReq(q) \in Tree
  <2> SUFFICES ASSUME NEW q \in Request, stage[q] \in Spans, q # r
               PROVE  TreeOfReq(q) # t /\ TreeOfReq(q) \in Tree
    OBVIOUS
  <2>1. busy[TreeOfReq(q)] = q
    BY DEF CycleInv, GateExact
  <2>2. TreeOfReq(q) \in Tree
    BY AskedTree DEF Spans
  <2> QED
    BY <1>1, <2>1, <2>2
<1>7. AskedIsCall'
  BY <1>1, <1>2, <1>4 DEF CycleInv, AskedIsCall
<1>8. \A q \in Request : stage'[q] \in Spans =>
         /\ busy[TreeOfReq(q)] = q
         /\ depth'[TreeOfReq(q)] = IF stage'[q] = "repulling" THEN 2 ELSE 1
  BY <1>1, <1>2, <1>4, <1>6 DEF CycleInv, GateExact
<1>9. \A u \in Tree : busy[u] # None => stage'[busy[u]] \in Spans /\ TreeOfReq(busy[u]) = u
  <2> SUFFICES ASSUME NEW u \in Tree, busy[u] # None
               PROVE  stage'[busy[u]] \in Spans /\ TreeOfReq(busy[u]) = u
    OBVIOUS
  <2>1. busy[u] \in Request /\ stage[busy[u]] \in Spans /\ TreeOfReq(busy[u]) = u
    BY <1>2 DEF CycleInv, GateExact
  <2> QED
    BY <1>3, <1>4, <2>1
<1>10. GateExact'
  BY <1>2, <1>5, <1>8, <1>9 DEF GateExact
<1>11. n \in 0 .. 2
  OBVIOUS
<1>12. depth' \in [Tree -> 0 .. 2]
  BY <1>2, <1>11
<1> QED
  BY <1>2, <1>3, <1>7, <1>10, <1>12

\* A pass moves outside the queue.
LEMMA QueueStays ==
    ASSUME CycleInv, NEW r \in Request, NEW s \in Stages \ {"queued"}, Move(r, s),
           stage[r] # "queued", UNCHANGED <<asked, queued>>
    PROVE  QueueExact'
<1>1. stage' = [stage EXCEPT ![r] = s] /\ stage \in [Request -> Stages]
  BY DEF Move, CycleInv, CycleTypes
<1>2. \A q \in Request : stage'[q] = "queued" <=> stage[q] = "queued"
  BY <1>1
<1>3. queued \in [Storage -> Request \cup {None}]
  BY DEF CycleInv, CycleTypes
<1> QED
  BY <1>2, <1>3 DEF CycleInv, QueueExact

\* A request leaves "new", into no span.
LEMMA AskKeeps ==
    ASSUME CycleInv, NEW r \in Request, NEW call \in Call, Ask(r, call)
    PROVE  CycleInv'
<1> DEFINE s == call.site
<1>1. call.kind \in Kind /\ s \in Storage /\ TreeOf[s] \in Tree
  BY PlaceAssumption DEF Call
<1>2. /\ asked' = [asked EXCEPT ![r] = call] /\ stage[r] = "new"
      /\ asked \in [Request -> [kind : Kind \cup {None}, site : Storage \cup {None}]]
      /\ stage \in [Request -> Stages] /\ busy' = busy /\ depth' = depth
      /\ busy \in [Tree -> Request \cup {None}]
  BY DEF Ask, CycleInv, CycleTypes, gate
<1>3. PICK where \in {"pull", "queued", "joined"} : stage' = [stage EXCEPT ![r] = where]
  BY DEF Ask, Move
<1>4. \A q \in Request : q # r => asked'[q] = asked[q] /\ stage'[q] = stage[q]
  BY <1>2, <1>3
<1>5. asked'[r] = call /\ stage'[r] = where
  BY <1>2, <1>3
<1>6. where \in Stages /\ where \notin Spans /\ "new" \notin Spans
  BY DEF Stages, Spans, Waiting
<1>7. AskedIsCall'
  BY <1>4, <1>5 DEF CycleInv, AskedIsCall
<1>8. \A q \in Request : q # r => TreeOfReq(q)' = TreeOfReq(q)
  BY <1>4 DEF TreeOfReq
<1>9. GateExact'
  <2>1. \A t \in Tree : busy[t] # None => busy[t] \in Request /\ busy[t] # r
    BY <1>2, <1>6 DEF CycleInv, GateExact
  <2> QED
    BY <1>2, <1>4, <1>5, <1>6, <1>8, <2>1 DEF CycleInv, GateExact
<1>10. CycleTypes'
  <2>1. asked' \in [Request -> [kind : Kind \cup {None}, site : Storage \cup {None}]]
    <3>1. call \in [kind : Kind \cup {None}, site : Storage \cup {None}]
      BY DEF Call
    <3> QED
      BY <1>2, <3>1
  <2>2. stage' \in [Request -> Stages]
    BY <1>2, <1>3, <1>6
  <2>3. disk' \in [Tree -> SUBSET Request]
    BY <1>1 DEF Ask, CycleInv, CycleTypes
  <2>4. /\ into' \in [Request -> Request \cup {None}]
        /\ running' \in [Storage -> Request \cup {None}]
        /\ queued' \in [Storage -> Request \cup {None}]
    BY <1>1 DEF Ask, CycleInv, CycleTypes
  <2>5. UNCHANGED <<busy, depth, result, tries, head, origin, cleared>>
    BY DEF Ask, gate, work
  <2> QED
    BY <2>1, <2>2, <2>3, <2>4, <2>5 DEF CycleInv, CycleTypes
<1>11. QueueExact'
  <2>1. /\ queued \in [Storage -> Request \cup {None}]
        /\ \A q \in Request : stage[q] = "queued" => asked[q].site \in Storage
    BY AskedTree DEF CycleInv, CycleTypes
  <2>2. CASE queued' = queued /\ where # "queued"
    <3>1. \A u \in Storage : queued[u] # None => queued[u] \in Request /\ queued[u] # r
      BY <1>2, <2>1 DEF CycleInv, QueueExact
    <3> QED
      BY <1>4, <1>5, <2>1, <2>2, <3>1 DEF CycleInv, QueueExact
  <2>3. CASE queued[s] = None /\ queued' = [queued EXCEPT ![s] = r] /\ where = "queued"
    <3>1. \A u \in Storage : queued[u] # None => queued[u] \in Request /\ queued[u] # r
      BY <1>2, <2>1 DEF CycleInv, QueueExact
    <3>2. \A u \in Storage : queued'[u] = IF u = s THEN r ELSE queued[u]
      BY <2>1, <2>3
    <3>3. \A q \in Request : q # r /\ stage[q] = "queued" => asked[q].site # s
      BY <2>3, NoneAssumption DEF CycleInv, QueueExact
    <3>4. \A u \in Storage : queued'[u] # None =>
             stage'[queued'[u]] = "queued" /\ asked'[queued'[u]].site = u
      BY <1>4, <1>5, <2>3, <3>1, <3>2 DEF CycleInv, QueueExact
    <3>5. \A q \in Request : stage'[q] = "queued" => queued'[asked'[q].site] = q
      BY <1>1, <1>4, <1>5, <2>1, <3>2, <3>3 DEF CycleInv, QueueExact
    <3> QED
      BY <3>4, <3>5 DEF QueueExact
  <2>4. \/ queued' = queued /\ stage' = [stage EXCEPT ![r] = "pull"]
        \/ queued' = queued /\ stage' = [stage EXCEPT ![r] = "joined"]
        \/ /\ queued[s] = None /\ queued' = [queued EXCEPT ![s] = r]
           /\ stage' = [stage EXCEPT ![r] = "queued"]
    BY DEF Ask, Move
  <2>5. \/ queued' = queued /\ where # "queued"
        \/ queued[s] = None /\ queued' = [queued EXCEPT ![s] = r] /\ where = "queued"
    BY <1>2, <1>5, <2>4
  <2> QED
    BY <2>2, <2>3, <2>5
<1> QED
  BY <1>7, <1>9, <1>10, <1>11 DEF CycleInv

\* The passes that wait or are over are in no span, before and after.
LEMMA LeaveKeeps ==
    ASSUME CycleInv, NEW r \in Request, Leave(r)
    PROVE  CycleInv'
<1> DEFINE s == asked[r].site
<1>1. s \in Storage /\ stage[r] = "leaving"
  BY AskedTree DEF Leave
<1>2. /\ stage \in [Request -> Stages] /\ asked' = asked /\ busy' = busy /\ depth' = depth
      /\ busy \in [Tree -> Request \cup {None}]
  BY DEF Leave, CycleInv, CycleTypes, gate
<1>3. stage' = [q \in Request |->
                   IF q = r \/ (stage[q] = "joined" /\ into[q] = r) THEN "done"
                   ELSE IF q = queued[s] THEN "pull" ELSE stage[q]]
  BY DEF Leave
<1>4. \A q \in Request : \/ stage'[q] = stage[q]
                         \/ stage'[q] \in {"done", "pull"} /\ stage[q] \in {"leaving", "joined", "queued"}
  BY <1>1, <1>3, NoneAssumption DEF CycleInv, QueueExact
<1>5. \A q \in Request : /\ stage'[q] \in Stages
                         /\ stage'[q] \in Spans <=> stage[q] \in Spans
                         /\ stage[q] \in Spans => stage'[q] = stage[q]
                         /\ stage'[q] # "new" => stage[q] # "new"
  BY <1>2, <1>4 DEF Stages, Spans, Waiting
<1>6. \A q \in Request : TreeOfReq(q)' = TreeOfReq(q)
  BY <1>2 DEF TreeOfReq
<1>7. AskedIsCall'
  BY <1>2, <1>5 DEF CycleInv, AskedIsCall
<1>8. GateExact'
  BY <1>2, <1>5, <1>6 DEF CycleInv, GateExact
<1>9. stage' \in [Request -> Stages]
  BY <1>3, <1>5
<1>10. /\ running' \in [Storage -> Request \cup {None}]
       /\ queued' \in [Storage -> Request \cup {None}]
  BY <1>1 DEF Leave, CycleInv, CycleTypes
<1>11. UNCHANGED <<asked, into, busy, depth, result, tries, disk, head, origin, cleared>>
  BY DEF Leave, gate, work, text
<1>12. QueueExact'
  <2>1. queued' = [queued EXCEPT ![s] = None] /\ queued \in [Storage -> Request \cup {None}]
    BY DEF Leave, CycleInv, CycleTypes
  <2>2. \A q \in Request : stage'[q] = "queued" => stage[q] = "queued" /\ q # queued[s]
    BY <1>3, <1>4
  <2>3. \A u \in Storage : u # s /\ queued[u] # None => stage'[queued[u]] = "queued"
    BY <1>1, <1>3, <2>1 DEF CycleInv, QueueExact
  <2>4. \A q \in Request : stage[q] = "queued" => asked[q].site \in Storage
    BY AskedTree
  <2> QED
    BY <1>1, <1>2, <2>1, <2>2, <2>3, <2>4 DEF CycleInv, QueueExact
<1> QED
  BY <1>7, <1>8, <1>9, <1>10, <1>11, <1>12 DEF CycleInv, CycleTypes

\* A step of a pass, its last one apart.
\* A merge moves what stands in its way, and nothing else.
LEMMA MergeTypes ==
    ASSUME CycleTypes, NEW t \in Tree, Merge(t)
    PROVE  /\ disk' \in [Tree -> SUBSET Request] /\ head' \in [Tree -> SUBSET Request]
           /\ origin' \in [Tree -> SUBSET Request] /\ cleared' \in [Tree -> SUBSET Request]
<1>1. PICK blocking \in SUBSET (disk[t] \ head[t]) :
        /\ disk' = [disk EXCEPT ![t] = @ \ blocking]
        /\ cleared' = [cleared EXCEPT ![t] = @ \cup blocking]
  BY DEF Merge
<1>2. blocking \subseteq Request
  BY DEF CycleTypes
<1>3. head' = head /\ origin' = origin
  BY DEF Merge
<1> QED
  BY <1>1, <1>2, <1>3 DEF CycleTypes

LEMMA PassKeeps ==
    ASSUME GitInv, NEW r \in Request, Pass(r), ~Leave(r)
    PROVE  CycleInv' /\ MirrorInv' /\ Lands
<1> USE DEF GitInv
<1>0. /\ CycleTypes /\ stage[r] \in Stages /\ AskedIsCall /\ GateExact
      /\ mirror \in [Repo -> MirrorState]
  BY DEF CycleInv, CycleTypes, MirrorInv, MirrorTypes
\* The shape of a step: what it does to the gate, and to the mirrors.
<1>1. CASE SkipPull(r) \/ Work(r) \/ WorkThrows(r)
  <2>1. PICK s \in {"work", "leaving", "commit"} : Move(r, s)
    BY <1>1 DEF SkipPull, Work, WorkThrows
  <2>2. /\ stage[r] \in {"pull", "work"} /\ UNCHANGED <<asked, gate, into, running, queued, tries>>
        /\ UNCHANGED <<head, origin, cleared, mirrors>>
    BY <1>1 DEF SkipPull, Work, WorkThrows, unlocked, text
  <2>3. s \in Stages /\ s \notin Spans \cup {"new", "queued"}
        /\ stage[r] \notin Spans \cup {"new", "queued"}
    BY <2>2 DEF Stages, Spans, Waiting
  <2>4. stage' \in [Request -> Stages] /\ AskedIsCall' /\ GateExact'
    BY <2>1, <2>2, <2>3, MoveKeeps
  <2>5. QueueExact'
    BY <2>1, <2>2, <2>3, QueueStays
  <2>6. TreeOfReq(r) \in Tree
    BY <2>2, AskedTree
  <2>7. disk' \in [Tree -> SUBSET Request] /\ result' \in [Request -> {"ok", "problem", "conflict"}]
    <3>1. PICK new \in SUBSET Request :
             disk' = disk \/ disk' = [disk EXCEPT ![TreeOfReq(r)] = @ \cup new]
      <4>1. Written(r) \subseteq Request
        BY DEF Written
      <4>2. CASE SkipPull(r)
        BY <4>2 DEF SkipPull, text
      <4>3. CASE Work(r)
        BY <4>1, <4>3 DEF Work
      <4>4. CASE WorkThrows(r)
        BY <4>1, <4>4 DEF WorkThrows
      <4> QED
        BY <1>1, <4>2, <4>3, <4>4
    <3>2. disk' \in [Tree -> SUBSET Request]
      BY <1>0, <2>6, <3>1 DEF CycleTypes
    <3>3. result' \in [Request -> {"ok", "problem", "conflict"}]
      BY <1>0, <1>1 DEF SkipPull, Work, WorkThrows, CycleTypes
    <3> QED
      BY <3>2, <3>3
  <2>8. CycleInv'
    BY <1>0, <2>2, <2>4, <2>5, <2>7 DEF CycleInv, CycleTypes, gate
  <2>9. MirrorInv' /\ Lands
    BY <1>0, <2>2, MirrorsWait DEF gate, mirrors
  <2> QED
    BY <2>8, <2>9
<1>2. CASE Pull(r) \/ Commit(r)
  <2>1. PICK s \in {"pulling", "settling", "pushing"} : Move(r, s)
    BY <1>2 DEF Pull, Commit
  <2>2. /\ stage[r] \in Waiting /\ MayEnter(r) /\ Enter(r)
        /\ UNCHANGED <<asked, into, running, queued, tries, disk, origin, cleared, mirrors>>
    BY <1>2 DEF Pull, Commit, Checkpoint, unlocked, Waiting
  <2>3. s \in Spans \ {"repulling"} /\ s \in Stages \ {"queued"}
        /\ stage[r] \notin {"new", "queued"}
    BY <2>2 DEF Stages, Spans, Waiting
  <2>4. /\ stage' \in [Request -> Stages] /\ AskedIsCall' /\ GateExact'
        /\ busy' \in [Tree -> Request \cup {None}] /\ depth' \in [Tree -> 0 .. 2]
        /\ \A t \in Tree : busy[t] # None => busy'[t] # None
    BY <2>1, <2>2, <2>3, EnterKeeps
  <2>5. QueueExact'
    BY <2>1, <2>2, <2>3, QueueStays
  <2>6. TreeOfReq(r) \in Tree
    BY <2>3, AskedTree
  <2>7. head' \in [Tree -> SUBSET Request] /\ result' \in [Request -> {"ok", "problem", "conflict"}]
    BY <1>0, <1>2, <2>6 DEF Pull, Commit, Checkpoint, CycleTypes
  <2>8. CycleInv'
    BY <1>0, <2>2, <2>4, <2>5, <2>7 DEF CycleInv, CycleTypes
  <2>9. MirrorInv' /\ Lands
    BY <1>0, <2>2, <2>4, MirrorsWait DEF mirrors
  <2> QED
    BY <2>8, <2>9
<1>3. CASE RaceLost(r)
  <2>1. /\ Move(r, "repulling") /\ stage[r] = "pushing" /\ MayRetry(r)
        /\ UNCHANGED <<asked, into, running, queued, busy, disk, origin, cleared, mirrors>>
        /\ depth' = [depth EXCEPT ![TreeOfReq(r)] = @ + 1]
    BY <1>3 DEF RaceLost, Checkpoint
  <2>2. depth' = [depth EXCEPT ![TreeOfReq(r)] = 2]
    <3>1. depth[TreeOfReq(r)] = 1
      BY <1>0, <2>1 DEF GateExact, Spans
    <3> QED
      BY <2>1, <3>1
  <2>3. stage[r] \in Spans /\ stage[r] \notin {"new", "queued"} /\ "repulling" \in Stages \ {"queued"}
    BY <2>1 DEF Spans, Stages
  <2>4. /\ stage' \in [Request -> Stages] /\ AskedIsCall' /\ GateExact'
        /\ busy' \in [Tree -> Request \cup {None}] /\ depth' \in [Tree -> 0 .. 2]
    BY <2>1, <2>2, <2>3, NestKeeps
  <2>5. QueueExact'
    BY <2>1, <2>3, QueueStays
  <2>6. TreeOfReq(r) \in Tree
    BY <2>3, AskedTree
  <2>7. head' \in [Tree -> SUBSET Request] /\ result' \in [Request -> {"ok", "problem", "conflict"}]
    BY <1>0, <1>3, <2>6 DEF RaceLost, Checkpoint, CycleTypes
  <2>8. tries' \in [Request -> 0 .. Attempts - 1]
    <3>1. tries[r] \in 0 .. Attempts - 1 /\ tries[r] + 1 < Attempts /\ Attempts \in Nat
      BY <1>0, <2>1, NumberAssumption DEF MayRetry, CycleTypes
    <3>2. tries[r] + 1 \in 0 .. Attempts - 1
      BY <3>1
    <3>3. tries' = [tries EXCEPT ![r] = tries[r] + 1]
      BY <1>3 DEF RaceLost
    <3> QED
      BY <1>0, <3>2, <3>3 DEF CycleTypes
  <2>9. CycleInv'
    BY <1>0, <2>1, <2>4, <2>5, <2>7, <2>8 DEF CycleInv, CycleTypes
  <2>10. MirrorInv' /\ Lands
    BY <1>0, <2>1, MirrorsWait DEF mirrors
  <2> QED
    BY <2>9, <2>10
<1>4. CASE EndRepull(r) /\ Move(r, "pushing") /\ UNCHANGED <<busy, deferred, stale, dropped>>
           /\ depth' = [depth EXCEPT ![TreeOfReq(r)] = @ - 1]
           /\ mirror' = Overtaken(TreeOfReq(r)) /\ UNCHANGED result
  <2>1. stage[r] = "repulling"
        /\ UNCHANGED <<asked, into, running, queued, tries, busy, result>>
        /\ Merge(TreeOfReq(r))
    BY <1>4 DEF EndRepull, unlocked
  <2>2. depth' = [depth EXCEPT ![TreeOfReq(r)] = 1]
    <3>1. depth[TreeOfReq(r)] = 2
      BY <1>0, <2>1 DEF GateExact, Spans
    <3> QED
      BY <1>4, <3>1
  <2>3. stage[r] \in Spans /\ stage[r] \notin {"new", "queued"} /\ "pushing" \in Stages \ {"queued"}
    BY <2>1 DEF Spans, Stages
  <2>4. /\ stage' \in [Request -> Stages] /\ AskedIsCall' /\ GateExact'
        /\ busy' \in [Tree -> Request \cup {None}] /\ depth' \in [Tree -> 0 .. 2]
    BY <1>4, <2>1, <2>2, <2>3, NestKeeps
  <2>5. QueueExact'
    BY <1>4, <2>1, <2>3, QueueStays
  <2>6. TreeOfReq(r) \in Tree
    BY <2>3, AskedTree
  <2>7. /\ disk' \in [Tree -> SUBSET Request] /\ head' \in [Tree -> SUBSET Request]
        /\ origin' \in [Tree -> SUBSET Request] /\ cleared' \in [Tree -> SUBSET Request]
    BY <1>0, <2>1, <2>6, MergeTypes
  <2>8. CycleInv'
    BY <1>0, <2>1, <2>4, <2>5, <2>7 DEF CycleInv, CycleTypes
  <2>9. MirrorInv' /\ Lands
    BY <1>4, MirrorsWait, OvertakenKeeps
  <2> QED
    BY <2>8, <2>9
<1>5. CASE \E s \in {"work", "leaving"}, F \in {mirror, Overtaken(TreeOfReq(r))} :
             /\ Exit(r, s, F)
             /\ EndPull(r) \/ EndCommit(r) \/ Pushed(r) \/ GiveUp(r) \/ EndRepull(r)
  <2>1. PICK s \in {"work", "leaving"}, F \in {mirror, Overtaken(TreeOfReq(r))} : Exit(r, s, F)
    BY <1>5
  <2>2. stage[r] \in Spans /\ UNCHANGED <<asked, into, running, queued, tries>>
    BY <1>5 DEF EndPull, EndCommit, Pushed, GiveUp, EndRepull, unlocked, Spans
  <2>3. s \in Stages \ {"queued"} /\ s \notin Spans \cup {"new"} /\ stage[r] \notin {"new", "queued"}
        /\ Move(r, s) /\ Drain(F)
    BY <2>1, <2>2 DEF Stages, Spans, Exit
  <2>4. /\ stage' \in [Request -> Stages] /\ AskedIsCall' /\ GateExact'
        /\ busy' \in [Tree -> Request \cup {None}] /\ depth' \in [Tree -> 0 .. 2]
    BY <2>1, <2>2, <2>3, ExitKeeps
  <2>5. QueueExact'
    BY <2>2, <2>3, QueueStays
  <2>6. TreeOfReq(r) \in Tree
    BY <2>3, AskedTree
  <2>7. /\ disk' \in [Tree -> SUBSET Request] /\ head' \in [Tree -> SUBSET Request]
        /\ origin' \in [Tree -> SUBSET Request] /\ cleared' \in [Tree -> SUBSET Request]
        /\ result' \in [Request -> {"ok", "problem", "conflict"}]
    <3>1. CASE EndPull(r) \/ EndRepull(r)
      <4>1. Merge(TreeOfReq(r)) /\ result' \in [Request -> {"ok", "problem", "conflict"}]
        BY <1>0, <3>1 DEF EndPull, EndRepull, CycleTypes
      <4> QED
        BY <1>0, <2>6, <4>1, MergeTypes
    <3>2. CASE EndCommit(r) \/ Pushed(r) \/ GiveUp(r)
      BY <1>0, <2>6, <3>2 DEF EndCommit, Pushed, GiveUp, text, CycleTypes
    <3> QED
      BY <1>5, <3>1, <3>2
  <2>8. CycleInv'
    BY <1>0, <2>2, <2>4, <2>5, <2>7 DEF CycleInv, CycleTypes
  <2>9. F \in [Repo -> MirrorState] /\ \A m \in Repo : mirror[m] # "idle" => F[m] # "idle"
    BY <1>0, OvertakenKeeps
  <2>10. MirrorInv' /\ Lands
    BY <2>3, <2>9, DrainKeeps
  <2> QED
    BY <2>8, <2>10
<1>6. CASE EndPull(r)
  BY <1>5, <1>6 DEF EndPull
<1>7. CASE EndCommit(r) \/ Pushed(r) \/ GiveUp(r)
  BY <1>5, <1>7 DEF EndCommit, Pushed, GiveUp
<1>8. CASE EndRepull(r)
  <2>1. \/ /\ Move(r, "pushing") /\ UNCHANGED <<busy, deferred, stale, dropped>>
           /\ depth' = [depth EXCEPT ![TreeOfReq(r)] = @ - 1]
           /\ mirror' = Overtaken(TreeOfReq(r)) /\ UNCHANGED result
        \/ Exit(r, "leaving", Overtaken(TreeOfReq(r)))
    BY <1>8 DEF EndRepull
  <2> QED
    BY <1>4, <1>5, <1>8, <2>1
<1> QED
  BY <1>1, <1>2, <1>3, <1>6, <1>7, <1>8 DEF Pass

-----------------------------------------------------------------------------
LEMMA InitGit == Init => GitInv
<1> SUFFICES ASSUME Init PROVE GitInv
  OBVIOUS
<1>1. CycleTypes
  BY NumberAssumption DEF Init, CycleTypes, Stages
<1>2. AskedIsCall /\ GateExact /\ QueueExact
  BY PlaceAssumption DEF Init, AskedIsCall, GateExact, QueueExact, Spans
<1>3. MirrorInv
  BY DEF Init, MirrorInv, MirrorTypes, MirrorState, NobodyWaitsForNothing, NothingForgotten
<1>4. writes \in 0 .. MaxWrites
  BY NumberAssumption DEF Init
<1> QED
  BY <1>1, <1>2, <1>3, <1>4 DEF GitInv, CycleInv

LEMMA NextGit == GitInv /\ [Next]_vars => GitInv' /\ Lands
<1> SUFFICES ASSUME GitInv, [Next]_vars PROVE GitInv' /\ Lands
  OBVIOUS
<1>0. CycleInv /\ MirrorInv /\ writes \in 0 .. MaxWrites
  BY DEF GitInv
<1>1. CASE UNCHANGED vars
  <2>1. UNCHANGED <<asked, stage, into, running, queued, busy, depth, result, tries, disk, head,
                    origin, cleared, mirror, deferred, stale, dropped, writes>>
    BY <1>1 DEF vars, lock, gate, work, text, mirrors
  <2>2. CycleInv'
    BY <1>0, <2>1 DEF CycleInv, CycleTypes, AskedIsCall, GateExact, QueueExact, TreeOfReq
  <2>3. MirrorInv' /\ Lands
    BY <1>0, <2>1, MirrorsWait DEF MirrorInv, MirrorTypes
  <2> QED
    BY <1>0, <2>1, <2>2, <2>3 DEF GitInv
<1>2. ASSUME NEW r \in Request, NEW call \in Calls[r], Ask(r, call)
      PROVE  GitInv' /\ Lands
  <2>1. call \in Call
    BY CallAssumption
  <2>2. CycleInv'
    BY <1>0, <1>2, <2>1, AskKeeps
  <2>3. UNCHANGED <<busy, mirror, deferred, stale, dropped, writes>>
    BY <1>2 DEF Ask, gate, mirrors
  <2>4. MirrorInv' /\ Lands
    BY <1>0, <2>3, MirrorsWait DEF MirrorInv, MirrorTypes
  <2> QED
    BY <1>0, <2>2, <2>3, <2>4 DEF GitInv
<1>3. ASSUME NEW r \in Request, Leave(r)
      PROVE  GitInv' /\ Lands
  <2>1. CycleInv'
    BY <1>0, <1>3, LeaveKeeps
  <2>2. UNCHANGED <<busy, mirror, deferred, stale, dropped, writes>>
    BY <1>3 DEF Leave, gate, mirrors
  <2>3. MirrorInv' /\ Lands
    BY <1>0, <2>2, MirrorsWait DEF MirrorInv, MirrorTypes
  <2> QED
    BY <1>0, <2>1, <2>2, <2>3 DEF GitInv
<1>4. ASSUME NEW r \in Request, Pass(r), ~Leave(r)
      PROVE  GitInv' /\ Lands
  <2>1. CycleInv' /\ MirrorInv' /\ Lands
    BY <1>4, PassKeeps
  <2>2. UNCHANGED writes
    BY <1>4 DEF Pass, SkipPull, Pull, EndPull, Work, WorkThrows, Commit, EndCommit, Pushed,
                GiveUp, RaceLost, EndRepull, unlocked
  <2> QED
    BY <1>0, <2>1, <2>2 DEF GitInv
<1>5. ASSUME NEW m \in Repo, Write(m) \/ Continue(m)
      PROVE  GitInv' /\ Lands
  <2>1. MirrorInv' /\ Lands
    BY <1>0, <1>5, WriteKeeps, ContinueKeeps
  <2>2. UNCHANGED <<asked, stage, into, running, queued, busy, depth, result, tries, disk, head,
                    origin, cleared>>
    BY <1>5 DEF Write, Continue, Abandon, Finish, FinishOvertaken, Fail, Rerun, lock, gate, work, text
  <2>3. CycleInv'
    BY <1>0, <2>2 DEF CycleInv, CycleTypes, AskedIsCall, GateExact, QueueExact, TreeOfReq
  <2>4. writes' = writes \/ (writes < MaxWrites /\ writes' = writes + 1)
    BY <1>5 DEF Write, Continue, Abandon, Finish, FinishOvertaken, Fail, Rerun
  <2>5. writes' \in 0 .. MaxWrites
    BY <1>0, <2>4, NumberAssumption
  <2> QED
    BY <2>1, <2>3, <2>5 DEF GitInv
<1> QED
  BY <1>1, <1>2, <1>3, <1>4, <1>5 DEF Next

LEMMA GitInvariant == Spec => []GitInv
BY InitGit, NextGit, PTL DEF Spec

\* Every variable keeps its type; the nesting of a gate never exceeds two and no
\* pass pushes more often than ATTEMPTS.
THEOREM TypeCorrect == Spec => []TypeOK
<1>1. GitInv => TypeOK
  BY DEF GitInv, CycleInv, CycleTypes, MirrorInv, MirrorTypes, MirrorState, TypeOK
<1> QED
  BY <1>1, GitInvariant, PTL

\* Whatever storages share a working copy, one cycle at a time runs git in it,
\* the re-entrant retry included (withWorktreeBusy).
THEOREM CyclesExclude == Spec => []OneCyclePerTree
<1>1. GitInv => OneCyclePerTree
  BY DEF GitInv, CycleInv, GateExact, OneCyclePerTree
<1> QED
  BY <1>1, GitInvariant, PTL

\* No mirror waits for a release that has already happened (deferWhileBusy, drain).
THEOREM DeferredMirrorsFire == Spec => []NobodyWaitsForNothing
<1>1. GitInv => NobodyWaitsForNothing
  BY DEF GitInv, MirrorInv
<1> QED
  BY <1>1, GitInvariant, PTL

\* Every unmirrored change is the job of a pass or waits for a cycle, unless a
\* pass threw or was overtaken (mirrorToSyncRepo, finishMirrorCooperatively).
THEOREM MirrorsAreOwned == Spec => []NothingForgotten
<1>1. GitInv => NothingForgotten
  BY DEF GitInv, MirrorInv
<1> QED
  BY <1>1, GitInvariant, PTL

\* A mirror that is interrupted by cycles lands outside them.
THEOREM MirrorsLandBetween == Spec => LandsBetweenCycles
<1>1. GitInv /\ [Next]_vars => [\A m \in stale : m \notin stale' => ~InCycle(m)']_vars
  BY NextGit DEF Lands
<1> QED
  BY <1>1, GitInvariant, PTL DEF Spec, LandsBetweenCycles

-----------------------------------------------------------------------------
(* What a request was made for is at origin once it is answered and its pass *)
(* reports nothing, whatever storages share the copy and whoever else's pass *)
(* it collapsed into.                                                        *)

\* The requests whose delivery the pass of p answers for.
Promise(r) == asked[r].kind = "text" \/ (asked[r].kind \in {"pin", "assert"} /\ into[r] = None)
Carried(p) == {r \in Request : stage[r] # "new" /\ Cover(r) = p /\ Promise(r)}

\* Texts move from the disk to a commit and from there to origin, never back: a merge
\* takes nothing that is committed.
Chain == \A t \in Tree : origin[t] \subseteq head[t] /\ head[t] \subseteq disk[t]

\* A request collapses into a pass of its own storage, which was not over then and
\* does not end without it; nobody collapses into a request that collapsed.
Joins ==
    \A r \in Request : into[r] # None =>
      /\ into[r] \in Request /\ into[into[r]] = None
      /\ asked[into[r]].site = asked[r].site
      /\ stage[into[r]] # "new"
      /\ stage[r] \in {"joined", "done"}
      /\ stage[r] = "done" => stage[into[r]] = "done"

\* A text is on the disk before it is asked for, the work of a pass before its
\* second span, unless a merge has put it aside.
OnDisk ==
    \A p \in Request : \A r \in Carried(p) :
      asked[r].kind = "text" \/ stage[p] \in {"commit", "pushing", "repulling", "settling"}
        => r \in disk[TreeOfReq(p)] \cup cleared[TreeOfReq(p)]

\* What is pushed is committed, the other storages' left-overs included.
Committed ==
    \A p \in Request : stage[p] \in {"pushing", "repulling"} =>
      Carried(p) \subseteq head[TreeOfReq(p)] \cup cleared[TreeOfReq(p)]

\* A pass that settled without a problem had pushed, or had nothing to push.
AtOrigin ==
    \A p \in Request :
      into[p] = None /\ stage[p] \in {"settling", "leaving", "done"} /\ result[p] = "ok" =>
        Carried(p) \subseteq origin[TreeOfReq(p)] \cup cleared[TreeOfReq(p)]

\* A race that was lost is a problem until a push succeeds.
LostIsProblem == \A p \in Request : stage[p] = "repulling" => result[p] # "ok"

\* Delivered speaks of the end of a pass; these parts follow it from the request on.
DeliveryInv ==
    GitInv /\ Chain /\ Joins /\ OnDisk /\ Committed /\ AtOrigin /\ LostIsProblem
-----------------------------------------------------------------------------
LEMMA CarriedPlace ==
    ASSUME DeliveryInv, NEW p \in Request, NEW r \in Carried(p)
    PROVE  /\ r \in Request /\ stage[p] # "new"
           /\ TreeOfReq(r) = TreeOfReq(p) /\ TreeOfReq(p) \in Tree
<1>1. r \in Request /\ stage[r] # "new" /\ Cover(r) = p
  BY DEF Carried
<1>2. CASE into[r] = None
  <2>1. r = p
    BY <1>1, <1>2 DEF Cover
  <2> QED
    BY <1>1, <2>1, AskedTree DEF DeliveryInv, GitInv
<1>3. CASE into[r] # None
  <2>1. p = into[r]
    BY <1>1, <1>3 DEF Cover
  <2>2. stage[p] # "new" /\ asked[p].site = asked[r].site
    BY <1>1, <1>3, <2>1 DEF DeliveryInv, Joins
  <2> QED
    BY <1>1, <2>2, AskedTree DEF DeliveryInv, GitInv, TreeOfReq
<1> QED
  BY <1>2, <1>3

LEMMA DeliveryGives == DeliveryInv => Delivered
<1> SUFFICES ASSUME DeliveryInv, NEW r \in Request, Promise(r),
                    stage[r] = "done", result[Cover(r)] = "ok"
             PROVE  r \in origin[TreeOfReq(r)] \cup cleared[TreeOfReq(r)]
  BY DEF Delivered, Promised, Promise
<1>1. r \in Carried(Cover(r))
  BY DEF Carried
<1>2. Cover(r) \in Request /\ into[Cover(r)] = None /\ stage[Cover(r)] = "done"
  BY DEF DeliveryInv, Joins, Cover
<1>3. r \in origin[TreeOfReq(Cover(r))] \cup cleared[TreeOfReq(Cover(r))]
  BY <1>1, <1>2 DEF DeliveryInv, AtOrigin
<1> QED
  BY <1>1, <1>2, <1>3, CarriedPlace

\* A checkpoint moves texts one link down the chain.
LEMMA CheckpointKeeps ==
    ASSUME Chain, CycleTypes, NEW t \in Tree, Checkpoint(t)
    PROVE  /\ disk' = disk /\ origin' = origin /\ cleared' = cleared /\ Chain'
           /\ \A u \in Tree : head[u] \subseteq head'[u]
<1>1. disk' = disk /\ origin' = origin /\ cleared' = cleared
  BY DEF Checkpoint
<1>2. head' = head \/ head' = [head EXCEPT ![t] = disk[t]]
  BY DEF Checkpoint
<1>3. \A u \in Tree : head'[u] = head[u] \/ head'[u] = disk[u]
  BY <1>2 DEF CycleTypes
<1> QED
  BY <1>1, <1>3 DEF Chain

\* A merge takes from the disk what it puts aside, and nothing that is committed.
LEMMA MergeKeeps ==
    ASSUME Chain, CycleTypes, NEW t \in Tree, Merge(t)
    PROVE  /\ head' = head /\ origin' = origin /\ Chain'
           /\ \A u \in Tree : /\ disk[u] \subseteq disk'[u] \cup cleared'[u]
                              /\ cleared[u] \subseteq cleared'[u]
<1>1. head' = head /\ origin' = origin
  BY DEF Merge
<1>2. PICK blocking \in SUBSET (disk[t] \ head[t]) :
        /\ disk' = [disk EXCEPT ![t] = @ \ blocking]
        /\ cleared' = [cleared EXCEPT ![t] = @ \cup blocking]
  BY DEF Merge
<1>3. \A u \in Tree : IF u = t THEN /\ disk'[u] = disk[u] \ blocking
                                    /\ cleared'[u] = cleared[u] \cup blocking
                      ELSE disk'[u] = disk[u] /\ cleared'[u] = cleared[u]
  BY <1>2 DEF CycleTypes
<1>4. \A u \in Tree : head[u] \subseteq disk'[u]
  BY <1>2, <1>3 DEF Chain
<1> QED
  BY <1>1, <1>3, <1>4 DEF Chain

Pending == Stages \ {"new", "queued", "joined", "done"}

\* A step within a pass: no text is lost but to a merge, and the pass meets what its new stage
\* says of the requests it answers for.
LEMMA WithinPass ==
    ASSUME DeliveryInv, NEW r \in Request, NEW s \in Pending,
           stage[r] \in Pending, Move(r, s), UNCHANGED <<asked, into>>,
           \A t \in Tree : /\ disk[t] \subseteq disk'[t] \cup cleared'[t]
                           /\ head[t] \subseteq head'[t] /\ origin[t] \subseteq origin'[t]
                           /\ cleared[t] \subseteq cleared'[t],
           Chain', \A q \in Request \ {r} : result'[q] = result[q],
           s \in {"commit", "pushing", "repulling", "settling"} =>
             Carried(r) \subseteq disk'[TreeOfReq(r)] \cup cleared'[TreeOfReq(r)],
           s \in {"pushing", "repulling"} =>
             Carried(r) \subseteq head'[TreeOfReq(r)] \cup cleared'[TreeOfReq(r)],
           s \in {"settling", "leaving"} /\ result'[r] = "ok" =>
             Carried(r) \subseteq origin'[TreeOfReq(r)] \cup cleared'[TreeOfReq(r)],
           s = "repulling" => result'[r] # "ok"
    PROVE  Chain' /\ Joins' /\ OnDisk' /\ Committed' /\ AtOrigin' /\ LostIsProblem'
<1>1. \A q \in Request : stage'[q] = IF q = r THEN s ELSE stage[q]
  BY DEF Move, DeliveryInv, GitInv, CycleInv, CycleTypes
<1>2. \A q \in Request : /\ stage'[q] = "new" <=> stage[q] = "new"
                         /\ stage'[q] = "done" <=> stage[q] = "done"
                         /\ stage'[q] = "joined" <=> stage[q] = "joined"
  BY <1>1 DEF Pending, Stages
<1>3. \A q \in Request : TreeOfReq(q)' = TreeOfReq(q) /\ Cover(q)' = Cover(q)
                         /\ (Promise(q)' <=> Promise(q))
  BY DEF TreeOfReq, Cover, Promise
<1>4. \A p \in Request : Carried(p)' = Carried(p)
  BY <1>2, <1>3 DEF Carried
<1>5. Joins'
  BY <1>2 DEF DeliveryInv, Joins
<1>6. \A p \in Request, q \in Request : q \in Carried(p) => TreeOfReq(p) \in Tree
  BY CarriedPlace
<1>7. OnDisk'
  <2> SUFFICES ASSUME NEW p \in Request, NEW q \in Carried(p),
                      \/ asked[q].kind = "text"
                      \/ stage'[p] \in {"commit", "pushing", "repulling", "settling"}
               PROVE  q \in disk'[TreeOfReq(p)] \cup cleared'[TreeOfReq(p)]
    BY <1>3, <1>4 DEF OnDisk
  <2>1. q \in Request /\ TreeOfReq(p) \in Tree
    BY <1>6 DEF Carried
  <2>2. CASE p = r /\ asked[q].kind # "text"
    BY <1>1, <2>2
  <2>3. CASE p # r \/ asked[q].kind = "text"
    <3>1. q \in disk[TreeOfReq(p)] \cup cleared[TreeOfReq(p)]
      BY <1>1, <2>3 DEF DeliveryInv, OnDisk
    <3> QED
      BY <2>1, <3>1
  <2> QED
    BY <2>2, <2>3
<1>8. Committed'
  <2> SUFFICES ASSUME NEW p \in Request, NEW q \in Carried(p),
                      stage'[p] \in {"pushing", "repulling"}
               PROVE  q \in head'[TreeOfReq(p)] \cup cleared'[TreeOfReq(p)]
    BY <1>3, <1>4 DEF Committed
  <2>1. q \in Request /\ TreeOfReq(p) \in Tree
    BY <1>6 DEF Carried
  <2>2. CASE p = r
    BY <1>1, <2>2
  <2>3. CASE p # r
    BY <1>1, <2>1, <2>3 DEF DeliveryInv, Committed
  <2> QED
    BY <2>2, <2>3
<1>9. AtOrigin'
  <2> SUFFICES ASSUME NEW p \in Request, NEW q \in Carried(p), into[p] = None,
                      stage'[p] \in {"settling", "leaving", "done"}, result'[p] = "ok"
               PROVE  q \in origin'[TreeOfReq(p)] \cup cleared'[TreeOfReq(p)]
    BY <1>3, <1>4 DEF AtOrigin
  <2>1. q \in Request /\ TreeOfReq(p) \in Tree
    BY <1>6 DEF Carried
  <2>2. CASE p = r
    BY <1>1, <2>2 DEF Pending
  <2>3. CASE p # r
    BY <1>1, <2>1, <2>3 DEF DeliveryInv, AtOrigin
  <2> QED
    BY <2>2, <2>3
<1>10. LostIsProblem'
  BY <1>1 DEF DeliveryInv, LostIsProblem
<1> QED
  BY <1>5, <1>7, <1>8, <1>9, <1>10

\* The work a pass does for itself, and the texts of those it answers for, are on
\* the disk when it is over.
LEMMA WorkDone ==
    ASSUME DeliveryInv, NEW r \in Request, stage[r] = "work",
           NEW lost \in {{}, {q \in Request : asked[q].kind = "device"}},
           disk' = [disk EXCEPT ![TreeOfReq(r)] = @ \cup (Written(r) \ lost)]
    PROVE  Carried(r) \subseteq disk'[TreeOfReq(r)] \cup cleared[TreeOfReq(r)]
<1> SUFFICES ASSUME NEW q \in Carried(r)
             PROVE  q \in disk'[TreeOfReq(r)] \cup cleared[TreeOfReq(r)]
  OBVIOUS
<1>1. q \in Request /\ TreeOfReq(r) \in Tree /\ Promise(q) /\ Cover(q) = r
  BY CarriedPlace DEF Carried
<1>2. disk'[TreeOfReq(r)] = disk[TreeOfReq(r)] \cup (Written(r) \ lost)
  BY <1>1 DEF DeliveryInv, GitInv, CycleInv, CycleTypes
<1>3. CASE asked[q].kind = "text"
  BY <1>2, <1>3 DEF DeliveryInv, OnDisk
<1>4. CASE asked[q].kind \in {"pin", "assert"} /\ into[q] = None
  <2>1. q = r
    BY <1>1, <1>4 DEF Cover
  <2>2. q \in Written(r)
    BY <2>1 DEF Written
  <2>3. q \notin lost
    BY <1>4
  <2> QED
    BY <1>2, <2>2, <2>3
<1> QED
  BY <1>1, <1>3, <1>4 DEF Promise

LEMMA PassDelivers ==
    ASSUME DeliveryInv, NEW r \in Request, Pass(r), ~Leave(r)
    PROVE  Chain' /\ Joins' /\ OnDisk' /\ Committed' /\ AtOrigin' /\ LostIsProblem'
<1> DEFINE t == TreeOfReq(r)
<1>0. CycleTypes /\ Chain /\ stage[r] \in Stages
  BY DEF DeliveryInv, GitInv, CycleInv, CycleTypes
<1>1. stage[r] \in Pending /\ UNCHANGED <<asked, into>>
  BY <1>0 DEF Pass, SkipPull, Pull, EndPull, Work, WorkThrows, Commit, EndCommit, Pushed,
              GiveUp, RaceLost, EndRepull, unlocked, Pending, Stages, Waiting, Spans
<1>2. t \in Tree
  BY <1>1, AskedTree DEF Pending, DeliveryInv, GitInv
<1>3. Pending = {"work", "leaving", "pull", "commit", "pulling", "pushing", "repulling", "settling"}
  BY DEF Pending, Stages, Waiting, Spans
<1>4. CASE SkipPull(r)
  <2>1. Move(r, "work") /\ UNCHANGED <<result, disk, head, origin, cleared>>
    BY <1>4 DEF SkipPull, text
  <2>2. Chain'
    BY <1>0, <2>1 DEF Chain
  <2> QED
    BY <1>1, <1>3, <2>1, <2>2, WithinPass
<1>5. CASE Pull(r)
  <2>1. Move(r, "pulling") /\ UNCHANGED result /\ Checkpoint(t)
    BY <1>5 DEF Pull
  <2>2. /\ disk' = disk /\ origin' = origin /\ cleared' = cleared /\ Chain'
        /\ \A u \in Tree : head[u] \subseteq head'[u]
    BY <1>0, <1>2, <2>1, CheckpointKeeps
  <2> QED
    BY <1>1, <1>3, <2>1, <2>2, WithinPass
<1>6. CASE EndPull(r)
  <2>1. /\ Move(r, "work") /\ Merge(t)
        /\ \A q \in Request \ {r} : result'[q] = result[q]
    BY <1>0, <1>6 DEF EndPull, Exit, CycleTypes
  <2>2. /\ head' = head /\ origin' = origin /\ Chain'
        /\ \A u \in Tree : /\ disk[u] \subseteq disk'[u] \cup cleared'[u]
                           /\ cleared[u] \subseteq cleared'[u]
    BY <1>0, <1>2, <2>1, MergeKeeps
  <2> QED
    BY <1>1, <1>3, <2>1, <2>2, WithinPass
<1>7. CASE Work(r)
  <2>1. PICK lost \in {{}, {q \in Request : asked[q].kind = "device"}} :
          disk' = [disk EXCEPT ![t] = @ \cup (Written(r) \ lost)]
    BY <1>7 DEF Work
  <2>2. /\ stage[r] = "work" /\ UNCHANGED <<result, head, origin, cleared>>
        /\ Move(r, IF result[r] = "conflict" THEN "leaving" ELSE "commit")
    BY <1>7 DEF Work
  <2>3. \A u \in Tree : disk[u] \subseteq disk'[u]
    BY <1>0, <2>1 DEF CycleTypes
  <2>4. Chain'
    BY <1>0, <2>2, <2>3 DEF Chain
  <2>5. Carried(r) \subseteq disk'[t] \cup cleared'[t]
    BY <2>1, <2>2, WorkDone
  <2>6. CASE result[r] = "conflict"
    BY <1>1, <1>3, <2>2, <2>3, <2>4, <2>6, WithinPass
  <2>7. CASE result[r] # "conflict"
    BY <1>1, <1>3, <2>2, <2>3, <2>4, <2>5, <2>7, WithinPass
  <2> QED
    BY <2>6, <2>7
<1>8. CASE WorkThrows(r)
  <2>1. PICK part : disk' = disk \/ disk' = [disk EXCEPT ![t] = @ \cup part]
    BY <1>8 DEF WorkThrows
  <2>2. /\ Move(r, "leaving") /\ UNCHANGED <<head, origin, cleared>>
        /\ result'[r] = "problem" /\ \A q \in Request \ {r} : result'[q] = result[q]
    BY <1>0, <1>8 DEF WorkThrows, CycleTypes
  <2>3. \A u \in Tree : disk[u] \subseteq disk'[u]
    BY <1>0, <2>1 DEF CycleTypes
  <2>4. Chain'
    BY <1>0, <2>2, <2>3 DEF Chain
  <2> QED
    BY <1>1, <1>3, <2>2, <2>3, <2>4, WithinPass
<1>9. CASE Commit(r)
  <2>1. /\ stage[r] = "commit" /\ UNCHANGED <<disk, origin, cleared>>
        /\ head' \in {head, [head EXCEPT ![t] = disk[t]]}
    BY <1>9 DEF Commit
  <2>2. Chain' /\ \A u \in Tree : head[u] \subseteq head'[u]
    <3>1. Checkpoint(t)
      BY <2>1 DEF Checkpoint
    <3> QED
      BY <1>0, <1>2, <3>1, CheckpointKeeps
  <2>3. Carried(r) \subseteq disk[t] \cup cleared[t]
    BY <2>1 DEF DeliveryInv, OnDisk, Carried
  <2>4. CASE /\ head' = [head EXCEPT ![t] = disk[t]] /\ result' = result
             /\ Move(r, "pushing") \/ (NothingToSend(t) /\ Move(r, "settling"))
    <3>1. head'[t] = disk[t]
      BY <1>0, <1>2, <2>4 DEF CycleTypes
    <3>2. CASE Move(r, "pushing")
      BY <1>1, <1>3, <2>1, <2>2, <2>3, <2>4, <3>1, <3>2, WithinPass
    <3>3. CASE NothingToSend(t) /\ Move(r, "settling")
      <4>1. Carried(r) \subseteq origin[t] \cup cleared[t]
        BY <2>3, <3>3 DEF NothingToSend
      <4> QED
        BY <1>1, <1>3, <2>1, <2>2, <2>3, <2>4, <3>3, <4>1, WithinPass
    <3> QED
      BY <2>4, <3>2, <3>3
  <2>5. CASE result' = [result EXCEPT ![r] = "problem"] /\ Move(r, "settling")
    <3>1. result'[r] = "problem" /\ \A q \in Request \ {r} : result'[q] = result[q]
      BY <1>0, <2>5 DEF CycleTypes
    <3> QED
      BY <1>1, <1>3, <2>1, <2>2, <2>3, <2>5, <3>1, WithinPass
  <2> QED
    BY <1>9, <2>4, <2>5 DEF Commit
<1>10. CASE EndCommit(r)
  <2>1. stage[r] = "settling" /\ Move(r, "leaving") /\ UNCHANGED <<result, disk, head, origin, cleared>>
    BY <1>10 DEF EndCommit, Exit, text
  <2>2. Chain'
    BY <1>0, <2>1 DEF Chain
  <2>3. result[r] = "ok" => Carried(r) \subseteq origin[t] \cup cleared[t]
    <3>1. into[r] = None
      BY <2>1 DEF DeliveryInv, Joins
    <3> QED
      BY <2>1, <3>1 DEF DeliveryInv, AtOrigin
  <2> QED
    BY <1>1, <1>3, <2>1, <2>2, <2>3, WithinPass
<1>11. CASE Pushed(r)
  <2>1. /\ stage[r] = "pushing" /\ Move(r, "leaving") /\ UNCHANGED <<disk, head, cleared>>
        /\ origin' = [origin EXCEPT ![t] = head[t]]
        /\ \A q \in Request \ {r} : result'[q] = result[q]
    BY <1>0, <1>11 DEF Pushed, Exit, CycleTypes
  <2>2. \A u \in Tree : origin'[u] = origin[u] \/ (u = t /\ origin'[u] = head[u])
    BY <1>0, <2>1 DEF CycleTypes
  <2>3. Chain' /\ \A u \in Tree : origin[u] \subseteq origin'[u]
    BY <1>0, <2>1, <2>2 DEF Chain
  <2>4. Carried(r) \subseteq origin'[t] \cup cleared'[t]
    <3>1. Carried(r) \subseteq head[t] \cup cleared[t] /\ origin'[t] = head[t]
      BY <1>0, <1>2, <2>1 DEF DeliveryInv, Committed, CycleTypes
    <3> QED
      BY <2>1, <3>1
  <2> QED
    BY <1>1, <1>3, <2>1, <2>3, <2>4, WithinPass
<1>12. CASE GiveUp(r)
  <2>1. /\ Move(r, "leaving") /\ UNCHANGED <<disk, head, origin, cleared>>
        /\ result'[r] = "problem" /\ \A q \in Request \ {r} : result'[q] = result[q]
    BY <1>0, <1>12 DEF GiveUp, Exit, text, CycleTypes
  <2>2. Chain'
    BY <1>0, <2>1 DEF Chain
  <2> QED
    BY <1>1, <1>3, <2>1, <2>2, WithinPass
<1>13. CASE RaceLost(r)
  <2>1. /\ stage[r] = "pushing" /\ Move(r, "repulling") /\ Checkpoint(t)
        /\ result'[r] = "problem" /\ \A q \in Request \ {r} : result'[q] = result[q]
    BY <1>0, <1>13 DEF RaceLost, CycleTypes
  <2>2. /\ disk' = disk /\ origin' = origin /\ cleared' = cleared /\ Chain'
        /\ \A u \in Tree : head[u] \subseteq head'[u]
    BY <1>0, <1>2, <2>1, CheckpointKeeps
  <2>3. /\ Carried(r) \subseteq head'[t] \cup cleared'[t]
        /\ Carried(r) \subseteq disk'[t] \cup cleared'[t]
    BY <1>2, <2>1, <2>2 DEF DeliveryInv, Committed, Chain
  <2> QED
    BY <1>1, <1>3, <2>1, <2>2, <2>3, WithinPass
<1>14. CASE EndRepull(r)
  <2>1. /\ stage[r] = "repulling" /\ Merge(t)
        /\ \A q \in Request \ {r} : result'[q] = result[q]
        /\ \/ Move(r, "pushing")
           \/ Move(r, "leaving") /\ (result'[r] = "conflict" \/ result' = result)
    BY <1>0, <1>14 DEF EndRepull, Exit, CycleTypes
  <2>2. /\ head' = head /\ origin' = origin /\ Chain'
        /\ \A u \in Tree : /\ disk[u] \subseteq disk'[u] \cup cleared'[u]
                           /\ cleared[u] \subseteq cleared'[u]
    BY <1>0, <1>2, <2>1, MergeKeeps
  <2>3. /\ Carried(r) \subseteq head'[t] \cup cleared'[t]
        /\ Carried(r) \subseteq disk'[t] \cup cleared'[t]
    BY <1>2, <2>1, <2>2 DEF DeliveryInv, Committed, Chain
  <2>4. CASE Move(r, "pushing")
    BY <1>1, <1>3, <2>1, <2>2, <2>3, <2>4, WithinPass
  <2>5. CASE Move(r, "leaving") /\ (result'[r] = "conflict" \/ result' = result)
    <3>1. result'[r] # "ok"
      BY <2>1, <2>5 DEF DeliveryInv, LostIsProblem
    <3> QED
      BY <1>1, <1>3, <2>1, <2>2, <2>5, <3>1, WithinPass
  <2> QED
    BY <2>1, <2>4, <2>5
<1> QED
  BY <1>4, <1>5, <1>6, <1>7, <1>8, <1>9, <1>10, <1>11, <1>12, <1>13, <1>14 DEF Pass

\* A request joins the storage's queue, or a pass that has not begun.
LEMMA AskDelivers ==
    ASSUME DeliveryInv, NEW r \in Request, NEW call \in Call, Ask(r, call)
    PROVE  Chain' /\ Joins' /\ OnDisk' /\ Committed' /\ AtOrigin' /\ LostIsProblem'
<1> DEFINE s == call.site
<1>0. /\ CycleTypes /\ QueueExact /\ s \in Storage /\ TreeOf[s] \in Tree /\ stage[r] = "new"
      /\ into[r] = None
  <2>1. CycleTypes /\ QueueExact /\ stage[r] = "new"
    BY DEF DeliveryInv, GitInv, CycleInv, Ask
  <2>2. into[r] = None
    BY <2>1 DEF DeliveryInv, Joins
  <2> QED
    BY <2>1, <2>2, PlaceAssumption DEF Call
<1>1. /\ asked' = [asked EXCEPT ![r] = call] /\ UNCHANGED <<result, head, origin, cleared>>
      /\ disk' = IF call.kind = "text" THEN [disk EXCEPT ![TreeOf[s]] = @ \cup {r}] ELSE disk
  BY DEF Ask, work
<1>2. \A q \in Request : asked'[q] = IF q = r THEN call ELSE asked[q]
  BY <1>0, <1>1 DEF CycleTypes
<1>3. \A u \in Tree : disk'[u] = IF u = TreeOf[s] /\ call.kind = "text"
                                 THEN disk[u] \cup {r} ELSE disk[u]
  BY <1>0, <1>1 DEF CycleTypes
<1>4. PICK p \in Request \cup {None} :
        /\ p # None => stage[p] = "queued" /\ asked[p].site = s
        /\ \A q \in Request : into'[q] = IF q = r THEN p ELSE into[q]
        /\ \A q \in Request \ {r} : stage'[q] = stage[q]
        /\ stage'[r] \in {"pull", "queued", "joined"}
        /\ p # None <=> stage'[r] = "joined"
  <2>1. \/ Move(r, "pull") /\ UNCHANGED into
        \/ Move(r, "queued") /\ UNCHANGED into
        \/ Move(r, "joined") /\ into' = [into EXCEPT ![r] = queued[s]] /\ queued[s] # None
    BY DEF Ask
  <2>2. CASE (Move(r, "pull") \/ Move(r, "queued")) /\ UNCHANGED into
    BY <1>0, <2>2 DEF Move, CycleTypes
  <2>3. CASE Move(r, "joined") /\ into' = [into EXCEPT ![r] = queued[s]] /\ queued[s] # None
    <3>1. queued[s] \in Request \cup {None}
      BY <1>0 DEF CycleTypes
    <3>2. stage[queued[s]] = "queued" /\ asked[queued[s]].site = s
      BY <1>0, <2>3 DEF QueueExact
    <3> QED
      BY <1>0, <2>3, <3>1, <3>2 DEF Move, CycleTypes
  <2> QED
    BY <2>1, <2>2, <2>3
<1>5. p # r /\ (p # None => p \in Request)
  BY <1>0, <1>4, NoneAssumption
<1>6. \A q \in Request \ {r} : /\ TreeOfReq(q)' = TreeOfReq(q) /\ Cover(q)' = Cover(q)
                               /\ Promise(q)' <=> Promise(q)
  BY <1>2, <1>4 DEF TreeOfReq, Cover, Promise
<1>7. /\ TreeOfReq(r)' = TreeOf[s] /\ Cover(r)' = IF p = None THEN r ELSE p
      /\ Promise(r)' => call.kind = "text" \/ p = None
  BY <1>2, <1>4 DEF TreeOfReq, Cover, Promise
\* Nobody had joined a request that was not made.
<1>8. \A q \in Request : q # r => Cover(q) # r
  BY <1>0 DEF DeliveryInv, Joins, Cover
<1>9. \A o \in Request : \A q \in Carried(o)' : q = r \/ q \in Carried(o)
  BY <1>4, <1>6 DEF Carried
<1>10. \A o \in Request : r \in Carried(o)' => o \in {r, p}
  BY <1>7 DEF Carried
<1>11. \A o \in Request : stage'[o] \in {"commit", "pushing", "repulling", "settling", "leaving", "done"}
         => /\ o # r /\ o # p /\ stage'[o] = stage[o]
            /\ Carried(o)' \subseteq Carried(o)
  BY <1>4, <1>5, <1>9, <1>10, NoneAssumption
<1>12. Chain'
  BY <1>1, <1>3 DEF DeliveryInv, Chain
<1>13. Joins'
  <2> SUFFICES ASSUME NEW q \in Request, into'[q] # None
               PROVE  /\ into'[q] \in Request /\ into'[into'[q]] = None
                      /\ asked'[into'[q]].site = asked'[q].site
                      /\ stage'[into'[q]] # "new"
                      /\ stage'[q] \in {"joined", "done"}
                      /\ stage'[q] = "done" => stage'[into'[q]] = "done"
    BY DEF Joins
  <2>1. CASE q = r
    <3>1. p \in Request /\ p # None /\ into'[q] = p
      BY <1>4, <1>5, <2>1
    <3>2. into[p] = None
      BY <1>4, <3>1 DEF DeliveryInv, Joins
    <3> QED
      BY <1>2, <1>4, <1>5, <2>1, <3>1, <3>2
  <2>2. CASE q # r
    <3>1. into'[q] = into[q] /\ into[q] # None /\ into[q] # r
      BY <1>0, <1>4, <2>2 DEF DeliveryInv, Joins
    <3> QED
      BY <1>2, <1>4, <2>2, <3>1 DEF DeliveryInv, Joins
  <2> QED
    BY <2>1, <2>2
<1>14. OnDisk'
  <2> SUFFICES ASSUME NEW o \in Request, NEW q \in Carried(o)',
                      \/ asked'[q].kind = "text"
                      \/ stage'[o] \in {"commit", "pushing", "repulling", "settling"}
               PROVE  q \in disk'[TreeOfReq(o)'] \cup cleared'[TreeOfReq(o)']
    BY DEF OnDisk
  <2>1. CASE q = r
    <3>1. o \in {r, p}
      BY <1>10, <2>1
    <3>2. call.kind = "text"
      BY <1>2, <1>11, <2>1, <3>1
    <3>3. TreeOfReq(o)' = TreeOf[s]
      BY <1>2, <1>4, <1>5, <1>7, <3>1, NoneAssumption DEF TreeOfReq
    <3> QED
      BY <1>0, <1>3, <2>1, <3>2, <3>3
  <2>2. CASE q # r
    <3>1. q \in Carried(o) /\ o # r
      BY <1>8, <1>9, <2>2 DEF Carried
    <3>2. stage'[o] = stage[o] /\ asked'[q] = asked[q] /\ TreeOfReq(o)' = TreeOfReq(o)
      BY <1>2, <1>4, <1>6, <2>2, <3>1 DEF Carried
    <3>3. q \in disk[TreeOfReq(o)] \cup cleared[TreeOfReq(o)] /\ TreeOfReq(o) \in Tree
      BY <3>1, <3>2, CarriedPlace DEF DeliveryInv, OnDisk
    <3> QED
      BY <1>1, <1>3, <3>2, <3>3
  <2> QED
    BY <2>1, <2>2
<1>15. Committed' /\ AtOrigin' /\ LostIsProblem'
  <2>1. Committed'
    BY <1>1, <1>6, <1>11 DEF DeliveryInv, Committed
  <2>2. AtOrigin'
    BY <1>1, <1>4, <1>6, <1>11 DEF DeliveryInv, AtOrigin
  <2>3. LostIsProblem'
    BY <1>1, <1>11 DEF DeliveryInv, LostIsProblem
  <2> QED
    BY <2>1, <2>2, <2>3
<1> QED
  BY <1>12, <1>13, <1>14, <1>15

\* A pass ends, and those it answers for with it.
LEMMA LeaveDelivers ==
    ASSUME DeliveryInv, NEW r \in Request, Leave(r)
    PROVE  Chain' /\ Joins' /\ OnDisk' /\ Committed' /\ AtOrigin' /\ LostIsProblem'
<1> DEFINE s == asked[r].site
<1>0. CycleTypes /\ QueueExact /\ stage[r] = "leaving" /\ s \in Storage
  <2>1. CycleTypes /\ QueueExact /\ stage[r] = "leaving" /\ CycleInv
    BY DEF DeliveryInv, GitInv, CycleInv, Leave
  <2> QED
    BY <2>1, AskedTree
<1>1. UNCHANGED <<asked, into, result, disk, head, origin, cleared>>
  BY DEF Leave, work, text
<1>2. \A q \in Request :
        stage'[q] = IF q = r \/ (stage[q] = "joined" /\ into[q] = r) THEN "done"
                    ELSE IF q = queued[s] THEN "pull" ELSE stage[q]
  BY DEF Leave
<1>3. queued[s] # None => stage[queued[s]] = "queued"
  BY <1>0 DEF QueueExact
<1>4. into[r] = None
  BY <1>0 DEF DeliveryInv, Joins
<1>5. \A q \in Request :
        /\ stage'[q] = "new" <=> stage[q] = "new"
        /\ stage'[q] = stage[q] \/ (q = queued[s] /\ stage'[q] = "pull")
             \/ (stage'[q] = "done" /\ (q = r \/ into[q] = r))
        /\ stage'[q] = "done" => stage[q] = "done" \/ q = r \/ into[q] = r
        /\ stage[q] = "done" => stage'[q] = "done"
  BY <1>0, <1>2, <1>3, NoneAssumption
<1>6. \A q \in Request : TreeOfReq(q)' = TreeOfReq(q) /\ Cover(q)' = Cover(q)
                         /\ (Promise(q)' <=> Promise(q))
  BY <1>1 DEF TreeOfReq, Cover, Promise
<1>7. \A p \in Request : Carried(p)' = Carried(p)
  BY <1>5, <1>6 DEF Carried
<1>8. Chain' /\ LostIsProblem'
  BY <1>1, <1>5 DEF DeliveryInv, Chain, LostIsProblem
<1>9. Joins'
  <2> SUFFICES ASSUME NEW q \in Request, into[q] # None
               PROVE  /\ stage'[into[q]] # "new"
                      /\ stage'[q] \in {"joined", "done"}
                      /\ stage'[q] = "done" => stage'[into[q]] = "done"
    BY <1>1 DEF DeliveryInv, Joins
  <2>1. into[q] \in Request /\ stage[q] \in {"joined", "done"} /\ stage[into[q]] # "new"
        /\ (stage[q] = "done" => stage[into[q]] = "done")
    BY DEF DeliveryInv, Joins
  <2>2. stage'[r] = "done"
    BY <1>2
  <2> QED
    BY <1>2, <1>3, <1>4, <1>5, <2>1, <2>2, NoneAssumption
<1>10. OnDisk' /\ Committed'
  <2>1. \A p \in Request : stage'[p] \in {"commit", "pushing", "repulling", "settling"}
                             => stage'[p] = stage[p]
    BY <1>5
  <2>2. OnDisk'
    <3> SUFFICES ASSUME NEW p \in Request, NEW q \in Carried(p),
                        \/ asked[q].kind = "text"
                        \/ stage'[p] \in {"commit", "pushing", "repulling", "settling"}
                 PROVE  q \in disk[TreeOfReq(p)] \cup cleared[TreeOfReq(p)]
      BY <1>1, <1>6, <1>7 DEF OnDisk
    <3> QED
      BY <2>1 DEF DeliveryInv, OnDisk
  <2>3. Committed'
    BY <1>1, <1>6, <1>7, <2>1 DEF DeliveryInv, Committed
  <2> QED
    BY <2>2, <2>3
<1>11. AtOrigin'
  <2> SUFFICES ASSUME NEW p \in Request, into[p] = None, result[p] = "ok",
                      stage'[p] \in {"settling", "leaving", "done"}
               PROVE  Carried(p) \subseteq origin[TreeOfReq(p)] \cup cleared[TreeOfReq(p)]
    BY <1>1, <1>6, <1>7 DEF AtOrigin
  <2>1. stage[p] \in {"settling", "leaving", "done"}
    BY <1>0, <1>5, NoneAssumption
  <2> QED
    BY <2>1 DEF DeliveryInv, AtOrigin
<1> QED
  BY <1>8, <1>9, <1>10, <1>11

-----------------------------------------------------------------------------
LEMMA InitDelivery == Init => DeliveryInv
<1> SUFFICES ASSUME Init PROVE DeliveryInv
  OBVIOUS
<1>1. \A r \in Request : stage[r] = "new" /\ into[r] = None /\ asked[r].kind = None
  BY DEF Init
<1>2. \A p \in Request : Carried(p) = {}
  BY <1>1 DEF Carried
<1>3. Chain /\ Joins /\ LostIsProblem
  BY <1>1 DEF Init, Chain, Joins, LostIsProblem
<1>4. OnDisk /\ Committed /\ AtOrigin
  BY <1>2 DEF OnDisk, Committed, AtOrigin
<1> QED
  BY <1>3, <1>4, InitGit DEF DeliveryInv

LEMMA NextDelivery == DeliveryInv /\ [Next]_vars => DeliveryInv'
<1> SUFFICES ASSUME DeliveryInv, [Next]_vars PROVE DeliveryInv'
  OBVIOUS
<1>1. GitInv'
  BY NextGit DEF DeliveryInv
<1>2. ASSUME UNCHANGED <<asked, stage, into, result, disk, head, origin, cleared>>
      PROVE  DeliveryInv'
  <2>1. \A q \in Request : TreeOfReq(q)' = TreeOfReq(q) /\ Cover(q)' = Cover(q)
                           /\ (Promise(q)' <=> Promise(q))
    BY <1>2 DEF TreeOfReq, Cover, Promise
  <2>2. \A p \in Request : Carried(p)' = Carried(p)
    BY <1>2, <2>1 DEF Carried
  <2>3. Chain' /\ Joins' /\ LostIsProblem'
    BY <1>2 DEF DeliveryInv, Chain, Joins, LostIsProblem
  <2>4. OnDisk'
    BY <1>2, <2>1, <2>2 DEF DeliveryInv, OnDisk
  <2>5. Committed' /\ AtOrigin'
    BY <1>2, <2>1, <2>2 DEF DeliveryInv, Committed, AtOrigin
  <2> QED
    BY <1>1, <2>3, <2>4, <2>5 DEF DeliveryInv
<1>3. CASE UNCHANGED vars
  BY <1>2, <1>3 DEF vars, lock, work, text
<1>4. ASSUME NEW r \in Request, Pass(r) PROVE DeliveryInv'
  BY <1>1, <1>4, PassDelivers, LeaveDelivers DEF DeliveryInv
<1>5. ASSUME NEW r \in Request, NEW call \in Calls[r], Ask(r, call) PROVE DeliveryInv'
  <2>1. call \in Call
    BY CallAssumption
  <2> QED
    BY <1>1, <1>5, <2>1, AskDelivers DEF DeliveryInv
<1>6. ASSUME NEW m \in Repo, Write(m) \/ Continue(m) PROVE DeliveryInv'
  BY <1>2, <1>6 DEF Write, Continue, Abandon, Finish, FinishOvertaken, Fail, Rerun,
                    lock, work, text
<1> QED
  BY <1>3, <1>4, <1>5, <1>6 DEF Next

\* Whoever's pass answers a request and whoever's commit carried its text: when the
\* answer is given and the pass reports nothing, the text has been pushed, or a pull has put it
\* aside to merge (withStorageGitLock, commitAndPush, clearBlockingOwnFiles).
THEOREM Delivers == Spec => []Delivered
<1> QED
  BY InitDelivery, NextDelivery, DeliveryGives, PTL DEF Spec

-----------------------------------------------------------------------------
(* Nobody waits in a circle: the safety half of Answered.  A caller waits for *)
(* the pass it joined, that pass for the lock of its storage, the pass that   *)
(* holds the lock for the copy, and the pass that holds the copy for nobody.  *)

\* The stages of a pass that holds the lock of its storage.
Begun == Waiting \cup Spans \cup {"work", "leaving"}

\* The lock is held by the pass that runs; a successor has somebody to succeed, and who
\* has joined has joined a pass that is not over.
LockExact ==
    /\ \A s \in Storage : running[s] # None =>
         stage[running[s]] \in Begun /\ asked[running[s]].site = s
    /\ \A s \in Storage : queued[s] # None => running[s] # None
    /\ \A r \in Request : stage[r] \in Begun => running[asked[r].site] = r
    /\ \A r \in Request : stage[r] = "joined" =>
         /\ into[r] \in Request /\ asked[into[r]].site = asked[r].site
         /\ stage[into[r]] \in Begun \cup {"queued"}

\* A pass that has a next step of its own: it works, or the copy is free.
OnTheMove(r) ==
    stage[r] \in Spans \cup {"work", "leaving"} \/ (stage[r] \in Waiting /\ MayEnter(r))

WaitsFor(r, q) ==
    \/ stage[r] = "joined" /\ q = into[r]
    \/ stage[r] = "queued" /\ q = running[asked[r].site]
    \/ stage[r] \in Waiting /\ ~MayEnter(r) /\ q = busy[TreeOfReq(r)]

\* How many others can stand between a request and the one that it waits for in the end.
Remove(r) ==
    IF stage[r] = "joined" THEN 3
    ELSE IF stage[r] = "queued" THEN 2
    ELSE IF stage[r] \in Waiting /\ ~MayEnter(r) THEN 1 ELSE 0

\* Whoever has asked and is not answered is on the move, or waits for one at fewer removes.
WaitsEnd ==
    \A r \in Request : stage[r] \notin {"new", "done"} =>
      OnTheMove(r) \/ \E q \in Request : WaitsFor(r, q) /\ Remove(q) < Remove(r)

\* A step inside a pass leaves the lock with it.
LEMMA LockStays ==
    ASSUME GitInv, LockExact, NEW r \in Request, Pass(r), ~Leave(r)
    PROVE  LockExact'
<1>1. UNCHANGED <<asked, into, running, queued>>
  BY DEF Pass, SkipPull, Pull, EndPull, Work, WorkThrows, Commit, EndCommit, Pushed,
         GiveUp, RaceLost, EndRepull, unlocked
<1>2. stage \in [Request -> Stages]
  BY DEF GitInv, CycleInv, CycleTypes
<1>3. \E s \in Begun : stage[r] \in Begun /\ stage' = [stage EXCEPT ![r] = s]
  BY <1>2 DEF Pass, SkipPull, Pull, EndPull, Work, WorkThrows, Commit, EndCommit, Pushed,
              GiveUp, RaceLost, EndRepull, Exit, Move, Begun, Waiting, Spans
<1>4. \A q \in Request : stage'[q] = stage[q] \/ (stage[q] \in Begun /\ stage'[q] \in Begun)
  BY <1>2, <1>3
<1>5. running \in [Storage -> Request \cup {None}]
  BY DEF GitInv, CycleInv, CycleTypes
<1>6. "joined" \notin Begun /\ "queued" \notin Begun
  BY DEF Begun, Waiting, Spans
<1> QED
  BY <1>1, <1>4, <1>5, <1>6 DEF LockExact

LEMMA AskLocks ==
    ASSUME GitInv, LockExact, NEW r \in Request, NEW call \in Call, Ask(r, call)
    PROVE  LockExact'
<1> PICK s \in Storage : s = call.site
  BY DEF Call
<1>0. "joined" \notin Begun /\ "queued" \notin Begun /\ "new" \notin Begun
  BY DEF Begun, Waiting, Spans
<1>1. /\ stage \in [Request -> Stages] /\ into \in [Request -> Request \cup {None}]
      /\ running \in [Storage -> Request \cup {None}]
      /\ queued \in [Storage -> Request \cup {None}]
      /\ asked \in [Request -> [kind : Kind \cup {None}, site : Storage \cup {None}]]
  BY DEF GitInv, CycleInv, CycleTypes
<1>2. /\ stage[r] = "new" /\ asked' = [asked EXCEPT ![r] = call]
  BY DEF Ask
<1>3. \A q \in Request : q # r => asked'[q] = asked[q]
  BY <1>1, <1>2
<1>4. asked'[r].site = s
  BY <1>1, <1>2
<1>5. \A q \in Request : stage[q] \in Begun \cup {"queued", "joined"} => q # r
  BY <1>0, <1>2
<1>9. \A q \in Request : stage[q] # "new" => asked[q].site \in Storage
  <2>1. CycleInv
    BY DEF GitInv
  <2> QED
    BY <2>1, AskedTree
<1>10. \A q \in Request : q # None
  BY NoneAssumption
<1>6. CASE /\ running[s] = None /\ running' = [running EXCEPT ![s] = r]
           /\ Move(r, "pull") /\ UNCHANGED <<queued, into>>
  <2>1. stage' = [stage EXCEPT ![r] = "pull"] /\ "pull" \in Begun
    BY <1>6 DEF Move, Begun, Waiting
  <2>2. \A q \in Request : q # r => stage'[q] = stage[q]
    BY <1>1, <2>1
  <2>3. stage'[r] = "pull"
    BY <1>1, <2>1
  <2>4. \A z \in Storage : running'[z] = IF z = s THEN r ELSE running[z]
    BY <1>1, <1>6
  <2>5. r # None
    BY NoneAssumption
  <2>6. \A z \in Storage : running'[z] # None =>
          stage'[running'[z]] \in Begun /\ asked'[running'[z]].site = z
    BY <1>0, <1>1, <1>3, <1>4, <1>5, <1>9, <1>10, <1>6, <2>1, <2>2, <2>3, <2>4, <2>5 DEF LockExact
  <2>7. \A z \in Storage : queued'[z] # None => running'[z] # None
    BY <1>0, <1>1, <1>3, <1>4, <1>5, <1>9, <1>10, <1>6, <2>1, <2>2, <2>3, <2>4, <2>5 DEF LockExact
  <2>8. ASSUME NEW q \in Request, stage'[q] \in Begun
        PROVE  running'[asked'[q].site] = q
    BY <1>0, <1>1, <1>3, <1>4, <1>5, <1>9, <1>10, <1>6, <2>1, <2>2, <2>3, <2>4, <2>5, <2>8 DEF LockExact
  <2>9. ASSUME NEW q \in Request, stage'[q] = "joined"
        PROVE  /\ into'[q] \in Request /\ asked'[into'[q]].site = asked'[q].site
               /\ stage'[into'[q]] \in Begun \cup {"queued"}
    BY <1>0, <1>1, <1>3, <1>4, <1>5, <1>9, <1>10, <1>6, <2>1, <2>2, <2>3, <2>4, <2>5, <2>9 DEF LockExact
  <2> QED
    BY <2>6, <2>7, <2>8, <2>9 DEF LockExact
<1>7. CASE /\ running[s] # None /\ queued[s] = None /\ queued' = [queued EXCEPT ![s] = r]
           /\ Move(r, "queued") /\ UNCHANGED <<running, into>>
  <2>1. stage' = [stage EXCEPT ![r] = "queued"]
    BY <1>7 DEF Move
  <2>2. \A q \in Request : stage'[q] = IF q = r THEN "queued" ELSE stage[q]
    BY <1>1, <2>1
  <2>3. \A z \in Storage : z # s => queued'[z] = queued[z]
    BY <1>1, <1>7
  <2>6. \A z \in Storage : running'[z] # None =>
          stage'[running'[z]] \in Begun /\ asked'[running'[z]].site = z
    BY <1>0, <1>1, <1>3, <1>4, <1>5, <1>9, <1>10, <1>7, <2>2, <2>3 DEF LockExact
  <2>7. \A z \in Storage : queued'[z] # None => running'[z] # None
    BY <1>0, <1>1, <1>3, <1>4, <1>5, <1>9, <1>10, <1>7, <2>2, <2>3 DEF LockExact
  <2>8. ASSUME NEW q \in Request, stage'[q] \in Begun
        PROVE  running'[asked'[q].site] = q
    BY <1>0, <1>1, <1>3, <1>4, <1>5, <1>9, <1>10, <1>7, <2>2, <2>3, <2>8 DEF LockExact
  <2>9. ASSUME NEW q \in Request, stage'[q] = "joined"
        PROVE  /\ into'[q] \in Request /\ asked'[into'[q]].site = asked'[q].site
               /\ stage'[into'[q]] \in Begun \cup {"queued"}
    BY <1>0, <1>1, <1>3, <1>4, <1>5, <1>9, <1>10, <1>7, <2>2, <2>3, <2>9 DEF LockExact
  <2> QED
    BY <2>6, <2>7, <2>8, <2>9 DEF LockExact
<1>8. CASE /\ running[s] # None /\ queued[s] # None /\ into' = [into EXCEPT ![r] = queued[s]]
           /\ Move(r, "joined") /\ UNCHANGED <<running, queued>>
  <2>1. stage' = [stage EXCEPT ![r] = "joined"]
    BY <1>8 DEF Move
  <2>2. \A q \in Request : stage'[q] = IF q = r THEN "joined" ELSE stage[q]
    BY <1>1, <2>1
  <2>3. \A q \in Request : into'[q] = IF q = r THEN queued[s] ELSE into[q]
    BY <1>1, <1>8
  <2>4. queued[s] \in Request /\ stage[queued[s]] = "queued" /\ asked[queued[s]].site = s
    BY <1>1, <1>8 DEF GitInv, CycleInv, QueueExact
  <2> QED
    BY <1>0, <1>1, <1>3, <1>4, <1>5, <1>8, <2>2, <2>3, <2>4 DEF LockExact
<1> QED
  BY <1>6, <1>7, <1>8 DEF Ask

LEMMA LeaveUnlocks ==
    ASSUME GitInv, LockExact, NEW r \in Request, Leave(r)
    PROVE  LockExact'
<1> PICK s \in Storage : s = asked[r].site
  <2>1. CycleInv /\ stage[r] # "new"
    BY DEF GitInv, Leave
  <2> QED
    BY <2>1, AskedTree
<1>0. "joined" \notin Begun /\ "queued" \notin Begun /\ "done" \notin Begun
      /\ "pull" \in Begun /\ "leaving" \in Begun
  BY DEF Begun, Waiting, Spans
<1>1. /\ stage \in [Request -> Stages] /\ into \in [Request -> Request \cup {None}]
      /\ running \in [Storage -> Request \cup {None}]
      /\ queued \in [Storage -> Request \cup {None}]
  BY DEF GitInv, CycleInv, CycleTypes
<1>2. /\ stage[r] = "leaving" /\ UNCHANGED <<asked, into>>
      /\ running' = [running EXCEPT ![s] = queued[s]]
      /\ queued' = [queued EXCEPT ![s] = None]
  BY DEF Leave
<1>3. \A q \in Request :
        stage'[q] = IF q = r \/ (stage[q] = "joined" /\ into[q] = r) THEN "done"
                    ELSE IF q = queued[s] THEN "pull" ELSE stage[q]
  BY DEF Leave
<1>4. running[s] = r
  BY <1>0, <1>2 DEF LockExact
<1>5. \A z \in Storage : /\ running'[z] = IF z = s THEN queued[s] ELSE running[z]
                         /\ queued'[z] = IF z = s THEN None ELSE queued[z]
  BY <1>1, <1>2
<1>6. queued[s] # None =>
        queued[s] \in Request /\ stage[queued[s]] = "queued" /\ asked[queued[s]].site = s
  BY <1>1 DEF GitInv, CycleInv, QueueExact
<1>7. \A q \in Request : stage[q] \in Begun /\ q # r => stage'[q] = stage[q] /\ asked[q].site # s
  <2> SUFFICES ASSUME NEW q \in Request, stage[q] \in Begun, q # r
               PROVE  stage'[q] = stage[q] /\ asked[q].site # s
    OBVIOUS
  <2>1. running[asked[q].site] = q
    BY DEF LockExact
  <2>2. stage[q] # "joined" /\ q # queued[s]
    BY <1>0, <1>6, NoneAssumption
  <2> QED
    BY <1>3, <1>4, <2>1, <2>2
<1>8. \A z \in Storage : running'[z] # None =>
        stage'[running'[z]] \in Begun /\ asked[running'[z]].site = z
  <2> SUFFICES ASSUME NEW z \in Storage, running'[z] # None
               PROVE  stage'[running'[z]] \in Begun /\ asked[running'[z]].site = z
    OBVIOUS
  <2>1. CASE z = s
    <3>1. running'[z] = queued[s] /\ queued[s] # None /\ queued[s] # r
      BY <1>2, <1>5, <1>6, <2>1
    <3>2. stage'[queued[s]] = "pull"
      BY <1>3, <1>6, <3>1
    <3> QED
      BY <1>0, <1>6, <2>1, <3>1, <3>2
  <2>2. CASE z # s
    <3>1. running'[z] = running[z] /\ running[z] \in Request
      BY <1>1, <1>5, <2>2
    <3>2. stage[running[z]] \in Begun /\ asked[running[z]].site = z
      BY <3>1 DEF LockExact
    <3>3. running[z] # r
      BY <2>2, <3>2
    <3> QED
      BY <1>7, <3>1, <3>2, <3>3
  <2> QED
    BY <2>1, <2>2
<1>9. \A z \in Storage : queued'[z] # None => running'[z] # None
  BY <1>5 DEF LockExact
<1>10. ASSUME NEW q \in Request, stage'[q] \in Begun
       PROVE  running'[asked[q].site] = q
  <2>1. q # r
    BY <1>0, <1>3, <1>10
  <2>2. CASE q = queued[s]
    BY <1>5, <1>6, <2>2, NoneAssumption
  <2>3. CASE q # queued[s]
    <3>1. stage[q] \in Begun
      BY <1>0, <1>3, <1>10, <2>1, <2>3
    <3>2. running[asked[q].site] = q /\ asked[q].site # s
      BY <1>7, <2>1, <3>1 DEF LockExact
    <3>3. asked[q].site \in Storage
      <4>1. CycleInv /\ stage[q] # "new"
        BY <3>1 DEF GitInv, Begun, Waiting, Spans
      <4> QED
        BY <4>1, AskedTree
    <3> QED
      BY <1>5, <3>2, <3>3
  <2> QED
    BY <2>2, <2>3
<1>11. ASSUME NEW q \in Request, stage'[q] = "joined"
       PROVE  /\ into[q] \in Request /\ asked[into[q]].site = asked[q].site
              /\ stage'[into[q]] \in Begun \cup {"queued"}
  <2>1. stage[q] = "joined" /\ into[q] # r
    BY <1>3, <1>11
  <2>2. /\ into[q] \in Request /\ asked[into[q]].site = asked[q].site
        /\ stage[into[q]] \in Begun \cup {"queued"}
    BY <2>1 DEF LockExact
  <2>3. stage'[into[q]] = "pull" \/ stage'[into[q]] = stage[into[q]]
    BY <1>0, <1>3, <2>1, <2>2
  <2> QED
    BY <1>0, <2>2, <2>3
<1> QED
  BY <1>2, <1>8, <1>9, <1>10, <1>11 DEF LockExact

LEMMA LockInvariant == Spec => [](GitInv /\ LockExact)
<1>1. Init => LockExact
  BY NoneAssumption DEF Init, LockExact, Begun, Waiting, Spans
<1>2. GitInv /\ LockExact /\ [Next]_vars => LockExact'
  <2> SUFFICES ASSUME GitInv, LockExact, [Next]_vars PROVE LockExact'
    OBVIOUS
  <2>1. CASE UNCHANGED <<asked, stage, into, running, queued>>
    BY <2>1 DEF LockExact
  <2>2. ASSUME NEW r \in Request, Pass(r)
        PROVE  LockExact'
    BY <2>2, LockStays, LeaveUnlocks
  <2>3. ASSUME NEW r \in Request, NEW call \in Calls[r], Ask(r, call)
        PROVE  LockExact'
    <3>1. call \in Call
      BY CallAssumption
    <3> QED
      BY <2>3, <3>1, AskLocks
  <2>4. ASSUME NEW m \in Repo, Write(m) \/ Continue(m)
        PROVE  UNCHANGED <<asked, stage, into, running, queued>>
    BY <2>4 DEF Write, Continue, Abandon, Finish, FinishOvertaken, Fail, Rerun, lock
  <2>5. CASE UNCHANGED vars
    BY <2>1, <2>5 DEF vars, lock
  <2> QED
    BY <2>1, <2>2, <2>3, <2>4, <2>5 DEF Next
<1> QED
  BY <1>1, <1>2, InitGit, NextGit, PTL DEF Spec

\* Every request that is not answered yet waits, through the pass it joined, the lock and
\* the gate, for one that has a next step of its own: the lock is taken before the gate and
\* never inside it, and the retry inside a span does not wait (withStorageGitLock,
\* withWorktreeBusy).
THEOREM NobodyWaitsInACircle == Spec => []WaitsEnd
<1>1. ASSUME GitInv, LockExact, NEW r \in Request, stage[r] \notin {"new", "done"}, ~OnTheMove(r)
      PROVE  \E q \in Request : WaitsFor(r, q) /\ Remove(q) < Remove(r)
  <2>0. /\ stage[r] \in Stages /\ CycleInv /\ GateExact /\ QueueExact
        /\ asked[r].site \in Storage /\ TreeOfReq(r) \in Tree
    <3>1. CycleInv
      BY <1>1 DEF GitInv
    <3> QED
      BY <1>1, <3>1, AskedTree DEF CycleInv, CycleTypes
  <2>1. CASE stage[r] = "joined"
    <3>1. into[r] \in Request /\ stage[into[r]] \in Begun \cup {"queued"}
      BY <1>1, <2>1 DEF LockExact
    <3>2. Remove(into[r]) < Remove(r)
      BY <2>1, <3>1 DEF Remove, Begun, Waiting, Spans
    <3> QED
      BY <2>1, <3>1, <3>2 DEF WaitsFor
  <2>2. CASE stage[r] = "queued"
    <3>1. queued[asked[r].site] = r
      BY <2>0, <2>2 DEF QueueExact
    <3>2. running[asked[r].site] # None
      BY <1>1, <2>0, <3>1, NoneAssumption DEF LockExact
    <3> PICK q : q = running[asked[r].site]
      OBVIOUS
    <3>3. q \in Request /\ stage[q] \in Begun
      BY <1>1, <2>0, <3>2 DEF LockExact, CycleInv, CycleTypes
    <3>4. Remove(q) < Remove(r)
      BY <2>2, <3>3 DEF Remove, Begun, Waiting, Spans
    <3> QED
      BY <2>2, <3>3, <3>4 DEF WaitsFor
  <2>3. CASE stage[r] \in Waiting /\ ~MayEnter(r)
    <3> PICK q : q = busy[TreeOfReq(r)]
      OBVIOUS
    <3>1. q \in Request /\ stage[q] \in Spans
      BY <2>0, <2>3 DEF MayEnter, GateExact, CycleInv, CycleTypes
    <3>2. Remove(q) < Remove(r)
      BY <2>3, <3>1 DEF Remove, Waiting, Spans
    <3> QED
      BY <2>3, <3>1, <3>2 DEF WaitsFor
  <2> QED
    BY <1>1, <2>0, <2>1, <2>2, <2>3 DEF OnTheMove, Stages
<1>2. GitInv /\ LockExact => WaitsEnd
  BY <1>1 DEF WaitsEnd
<1> QED
  BY <1>2, LockInvariant, PTL

=============================================================================
