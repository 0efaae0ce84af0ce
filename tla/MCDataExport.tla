---------------------------- MODULE MCDataExport ----------------------------
EXTENDS DataExport, TLC

Symmetry == Permutations(Exports) \cup Permutations(Builds)
              \cup Permutations(Requests) \cup Permutations(Workers)
=============================================================================
