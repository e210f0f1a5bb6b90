-------------------------- MODULE MCInstanceSystem --------------------------
EXTENDS InstanceSystem, TLC

\* Goroutines are interchangeable.
ThreadSymmetry == Permutations(Threads)
=============================================================================
