---------------------------- MODULE MCCurrentRun ----------------------------
EXTENDS CurrentRun, TLC

\* Nothing tells one client, manifest or run from another.
MCSymmetry == Permutations(Client) \cup Permutations(Manifest) \cup Permutations(Run)
=============================================================================
