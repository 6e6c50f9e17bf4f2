------------------------------ MODULE MCPacing ------------------------------
\* Pacing with the small numbers of the .cfg files.
EXTENDS Pacing
=============================================================================
