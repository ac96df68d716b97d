--------------------------- MODULE MCSnapshotStore ---------------------------
\* SnapshotStore for TLC: snapshots are the subsets of Txns.
EXTENDS SnapshotStore, TLC

MCPayload   == SUBSET Txns
MCNoPayload == {}

\* The snapshot with all of them is over the limits.
MCUnloadable == {Txns}

TxnSymmetry == Permutations(Txns)

=============================================================================
