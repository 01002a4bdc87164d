-------------------------------- MODULE MCAsl --------------------------------
\* As many descriptors as PCBs, as in the code, and as many semaphores, so that
\* the free list runs empty and the ring of active descriptors loses its head,
\* a middle and its last element.
EXTENDS Asl, TLC
CONSTANTS p1, p2, p3, p4, k1, k2, k3, k4, none
MCPcb == {p1, p2, p3, p4}
MCKey == {k1, k2, k3, k4}
OnePriority == {1}
NoPriority == 0
MCSymmetry == Permutations(MCPcb) \cup Permutations(MCKey)
=============================================================================
