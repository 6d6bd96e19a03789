------------------------------ MODULE MCClaims ------------------------------
EXTENDS Claims

CONSTANTS d1, d2

TwoProfiles == [d \in Device |-> IF d = d1 THEN 1 ELSE 2]
=============================================================================
