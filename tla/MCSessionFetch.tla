--------------------------- MODULE MCSessionFetch ---------------------------
\* Two tabs of one browser.
EXTENDS SessionFetch

=============================================================================
