----------------------------- MODULE MCDeletions -----------------------------
EXTENDS Deletions

CONSTANTS d1, d2, p, c

OneContent == [x \in Path |-> c]

\* A deletion for the fleet or for one computer, of the bytes and the pin.
FleetOrHere == {[fleet |-> f, bytes |-> TRUE, unpin |-> TRUE] : f \in BOOLEAN}
=============================================================================
