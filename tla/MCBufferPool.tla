---------------------------- MODULE MCBufferPool ----------------------------
EXTENDS BufferPool, TLC

\* Threads are interchangeable.
PoolSymmetry == Permutations(Threads)

=============================================================================
