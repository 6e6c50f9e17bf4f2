----------------------------- MODULE MCTcpRecv -----------------------------
\* Reading a few short packets that arrive in pieces.
EXTENDS TcpRecv
=============================================================================
