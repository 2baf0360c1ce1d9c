-------------------------- MODULE MCCatalogDiscovery --------------------------
(* CatalogDiscovery for TLC: every repository was created on the first day,   *)
(* so three of them with the same stars cannot be told apart by any split.    *)
EXTENDS CatalogDiscovery

MCCreatedOn == [r \in Repos |-> StartDate]
=============================================================================
