-------------------------- MODULE MCCatalogReader ---------------------------
\* CatalogReader for TLC: threads and connections are interchangeable.
EXTENDS CatalogReader, TLC

Symmetry == Permutations(Threads) \cup Permutations(Conns)
=============================================================================
