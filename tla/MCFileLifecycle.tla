-------------------------- MODULE MCFileLifecycle --------------------------
EXTENDS FileLifecycle, TLC

CONSTANTS f1, f2, w1, w2, h1, h2, p1

Symmetry == Permutations(File) \union Permutations(Worker) \union Permutations(Handler)
=============================================================================
