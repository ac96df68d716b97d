---------------------------- MODULE MCLogClients ----------------------------
\* LogClients with symmetric threads.
EXTENDS LogClients, TLC

ThreadSymmetry == Permutations(Clients)

=============================================================================
