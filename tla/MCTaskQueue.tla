----------------------------- MODULE MCTaskQueue -----------------------------
EXTENDS TaskQueue, TLC

Symmetry == Permutations(Messages \ UnknownTasks) \cup Permutations(Workers)
=============================================================================
