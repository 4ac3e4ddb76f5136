----------------------------- MODULE MCAccounts -----------------------------
\* Two administrators, one of them a member besides, and two connections.
EXTENDS Accounts, TLC

Connections == Permutations(Tx)
=============================================================================
