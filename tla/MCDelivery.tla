------------------------------ MODULE MCDelivery ------------------------------
EXTENDS Delivery

CONSTANTS t1

OneHome == [a \in Artifact |-> t1]
\* The one target is a storage or a working repository.
Either  == [Target -> Kinds]
JustARepo == {[t \in Target |-> "repo"]}
=============================================================================
