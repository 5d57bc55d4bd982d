------------------------ MODULE MCKairosFleetMachine ------------------------
EXTENDS FleetPool, TLC

Symmetry == Permutations(Machines) \cup Permutations(Nodes)
=============================================================================
