----------------------------- MODULE MCTcpSend -----------------------------
\* Sending short packets; size_t is a few bits wide.
EXTENDS TcpSend
=============================================================================
