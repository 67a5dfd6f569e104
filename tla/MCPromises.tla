----------------------------- MODULE MCPromises ------------------------------
\* Instances of Promises for TLC: handlers are interchangeable.
EXTENDS Promises, TLC

Symmetry == Permutations(Requests)
=============================================================================
