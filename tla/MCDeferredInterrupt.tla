------------------------ MODULE MCDeferredInterrupt ------------------------
EXTENDS DeferredInterrupt

\* B is the second pin.  Its 20 units are scaled to 2: more than any other
\* answer takes, and main waits twice in the answer of B.
CodeDelay == <<0, 2, 0>>
=============================================================================
