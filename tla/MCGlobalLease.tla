---------------------------- MODULE MCGlobalLease ----------------------------
EXTENDS GlobalLease, TLC

\* Nothing tells one runner from another.
MCSymmetry == Permutations(Runner)
=============================================================================
