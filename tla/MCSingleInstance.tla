-------------------------- MODULE MCSingleInstance --------------------------
\* Backends are interchangeable.
EXTENDS SingleInstance, TLC

Symmetry == Permutations(Proc)
=============================================================================
