--------------------------- MODULE MCCoordination ---------------------------
\* A few replicas of the worker process; they are interchangeable.
EXTENDS Coordination, TLC

Replicas == Permutations(Proc)
=============================================================================
