--------------------------- MODULE MCDesktopData ---------------------------
\* The program started twice on one data directory.
EXTENDS DesktopData, TLC

Processes == Permutations(Host)
=============================================================================
