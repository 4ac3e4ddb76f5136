------------------------------- MODULE MCPages -------------------------------
\* Two filters and two pages of rows, one write, one failure.
EXTENDS Pages
=============================================================================
