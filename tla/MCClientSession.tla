--------------------------- MODULE MCClientSession ---------------------------
\* The session as TLC runs it.
EXTENDS ClientSession
=============================================================================
