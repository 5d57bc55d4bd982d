---------------------------- MODULE MCFleetProvider ----------------------------
EXTENDS FleetProvider
=============================================================================
