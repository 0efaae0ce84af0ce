-------------------------- MODULE MCJobApplications --------------------------
EXTENDS JobApplications, TLC

Symmetry == Permutations(Apps) \cup Permutations(Candidates) \cup Permutations(Requests)
=============================================================================
