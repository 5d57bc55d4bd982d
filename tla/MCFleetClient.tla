----------------------------- MODULE MCFleetClient -----------------------------
EXTENDS FleetClient

Symmetry == Permutations(Machines) \cup Permutations(Nodes)
=============================================================================
