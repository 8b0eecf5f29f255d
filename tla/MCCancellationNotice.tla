------------------------ MODULE MCCancellationNotice ------------------------
EXTENDS CancellationNotice, TLC
Symmetry == Permutations(Workers) \cup Permutations(Targets)
=============================================================================
