----------------------------- MODULE MCImports ------------------------------
EXTENDS Imports, TLC

Symmetry == Permutations(Files) \cup Permutations(Plugins)
=============================================================================
