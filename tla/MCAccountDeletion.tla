-------------------------- MODULE MCAccountDeletion --------------------------
\* Two accounts, the one possibly the heir of the other, two deletions, two
\* processes.
EXTENDS AccountDeletion
=============================================================================
