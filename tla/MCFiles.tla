------------------------------ MODULE MCFiles ------------------------------
\* Small instances of the files module: two uploads of one or two accounts.
EXTENDS Files, TLC

MCUploader == [f \in File |-> IF f = 1 THEN "ann" ELSE "bob"]
MCReserve == [f \in File |-> 2]
MCSize == [f \in File |-> f]

\* Room for both uploads at a time, or for the second once the first is smaller.
MCWide == [bytes |-> 4, objects |-> 2]
MCTight == [bytes |-> 3, objects |-> 2]

Replicas == Permutations(Recoverer)
=============================================================================
