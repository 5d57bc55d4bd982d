------------------------- MODULE MCKairosFleetCluster -------------------------
EXTENDS KairosFleetCluster
=============================================================================
