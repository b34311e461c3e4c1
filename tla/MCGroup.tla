----------------------------- MODULE MCGroup -----------------------------
\* Group for TLC: threads are interchangeable, and so are the blocks.
EXTENDS Group, TLC

Symmetry == Permutations(Thread) \cup Permutations(Block)
==========================================================================
