------------------------------ MODULE MCCatalog ------------------------------
(* Small instances of Catalog for TLC.                                     *)
EXTENDS Catalog, TLC

SomePrices == {-1, 0, 2}
CatalogSymmetry == Permutations(Providers) \cup Permutations(Routes)
=============================================================================
