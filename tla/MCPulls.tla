------------------------------- MODULE MCPulls -------------------------------
EXTENDS Pulls

CONSTANTS f1, f2, r1

OneRepo == [f \in File |-> r1]
\* The second file comes with the second commit.
InTurn  == [f \in File |-> IF f = f1 THEN 1 ELSE 2]
=============================================================================
