----------------------------- MODULE MCCloudSync -----------------------------
EXTENDS CloudSync, TLC

CONSTANTS d1, d2, p1, p2

OneEach == [d \in Device |-> d]

=============================================================================
