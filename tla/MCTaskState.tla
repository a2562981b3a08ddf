---------------------------- MODULE MCTaskState ----------------------------
EXTENDS TaskState, TLC

Symmetric == Permutations(Clients) \cup Permutations(Steps) \cup Permutations(CheckpointIds)
=============================================================================
