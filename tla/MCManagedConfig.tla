-------------------------- MODULE MCManagedConfig --------------------------
EXTENDS ManagedConfig

CONSTANTS p1, p2, p3

InitialConfig == [f \in Fields |-> 1]
============================================================================
