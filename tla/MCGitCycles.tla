----------------------------- MODULE MCGitCycles -----------------------------
(* Two storages over one working copy, and a repository mirrored into it.    *)
EXTENDS GitCycles, TLC

CONSTANTS s1, s2, tree, q1, q2, q3

MCTreeOf == s1 :> tree @@ s2 :> tree
MCHolds  == [m \in Repo |-> {tree}]

CallsOf(kinds, sites) == [kind : kinds, site : sites]

\* Enough for a holder, a successor and a caller that joins it, and for two
\* storages that meet in the copy.
MCShared == q1 :> CallsOf({"text"}, {s1})
              @@ q2 :> CallsOf({"text", "pin"}, {s1})
              @@ q3 :> CallsOf({"text"}, {s1}) \cup CallsOf({"assert"}, {s2})
MCApart  == q1 :> CallsOf({"text"}, {s1}) @@ q2 :> CallsOf({"pin"}, {s2})
=============================================================================
