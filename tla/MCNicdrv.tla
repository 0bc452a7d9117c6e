------------------------------- MODULE MCNicdrv -------------------------------
EXTENDS Nicdrv, TLC

Symmetry == Permutations(Threads)
===============================================================================
