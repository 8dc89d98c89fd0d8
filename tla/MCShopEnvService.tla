--------------------------- MODULE MCShopEnvService ---------------------------
EXTENDS ShopEnvService, TLC

\* Clients are only compared, and so are tasks when all are in the manifest.
Symmetry == Permutations(Clients) \cup Permutations(Tasks)

=============================================================================
