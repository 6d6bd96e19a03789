----------------------------- MODULE MCJobQueue -----------------------------
(* Instances of JobQueue: describe files that share a vision provider and   *)
(* the heap budget, and one file to transcribe.                             *)
EXTENDS JobQueue, TLC

CONSTANTS d1, d2, d3, t1, describe, transcribe, vision

MCBucket     == {describe, transcribe}
MCProvider   == {vision}
MCAll        == {d1, d2, d3, t1}
MCDescribes  == {d1, d2, d3}

\* The three universes of files the runs use.
MCMixed == {d1, d2, t1}
MCHeap  == {d1, d2, d3}
MCPair  == {d1, t1}

BucketIn(files)   == [k \in files |-> IF k \in MCDescribes THEN describe ELSE transcribe]
ProviderIn(files) == [k \in files |-> IF k \in MCDescribes THEN {vision} ELSE {}]

\* d1 and d2 may change between two stats; 4 is more than the whole budget of 3.
MCEstimate   == d1 :> {1, 4} @@ d2 :> {1, 2} @@ d3 :> {1} @@ t1 :> {0}
EstimateIn(files) == [k \in files |-> MCEstimate[k]]

MixedBucketOf   == BucketIn(MCMixed)
MixedProviderOf == ProviderIn(MCMixed)
MixedEstimates  == EstimateIn(MCMixed)
HeapBucketOf    == BucketIn(MCHeap)
HeapProviderOf  == ProviderIn(MCHeap)
HeapEstimates   == EstimateIn(MCHeap)
PairBucketOf    == BucketIn(MCPair)
PairProviderOf  == ProviderIn(MCPair)
PairEstimates   == EstimateIn(MCPair)

\* The settings page may change the describe cap between two scans.
Cap(n)   == [b \in MCBucket |-> IF b = describe THEN n ELSE 1]
MCLimits == {[cap |-> Cap(n), mem |-> 3] : n \in {1, 2}}
MCWide   == {[cap |-> Cap(2), mem |-> 3]}
=============================================================================
