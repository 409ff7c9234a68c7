------------------------- MODULE MCMilvusConnections ------------------------
(* Four interchangeable instances with one endpoint and token.             *)
EXTENDS MilvusConnections, TLC

CONSTANTS i1, i2, i3, i4

MCInstances == {i1, i2, i3, i4}

Alike == Permutations(MCInstances)
=============================================================================
