--------------------------- MODULE MCJavaSession ---------------------------
\* Two threads of a Java program and a pool of three places, one more than
\* there is memory for.
EXTENDS JavaSession, TLC

Symmetric == Permutations(Threads) \cup Permutations(Memory)

\* Nothing is promised once two threads were in ImInit together, and nothing of the
\* sockets of a host that is untidy: TLC does not look further there.
Careful == ~overlap /\ ~untidy
=============================================================================
