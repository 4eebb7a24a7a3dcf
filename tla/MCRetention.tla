----------------------------- MODULE MCRetention -----------------------------
EXTENDS Retention, TLC

ThreadSymmetry == Permutations(Threads)

=============================================================================
