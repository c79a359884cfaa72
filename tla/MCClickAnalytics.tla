-------------------------- MODULE MCClickAnalytics --------------------------
EXTENDS ClickAnalytics, TLC

CONSTANTS e1, e2, b1, b2, w1, w2

MCBucketOf == [e \in Event |-> IF e = e1 THEN b1 ELSE b2]
MCOneBucket == [e \in Event |-> b1]
Symmetry == Permutations(Worker) \union Permutations(Event)
=============================================================================
