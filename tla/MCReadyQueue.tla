---------------------------- MODULE MCReadyQueue ----------------------------
\* Four PCBs, two priorities for insertions and room for two rounds of aging.
\* Past the sentinel there are words that are no priority.
EXTENDS ReadyQueue, TLC
CONSTANTS p1, p2, p3, p4
MCPcb == {p1, p2, p3, p4}
MCPrio == {1, 2}
PcbSymmetry == Permutations(MCPcb)
NoPriority == {0, 1000}
\* &ready_queue + 168 is terms[3][0], a semaphore value: 0 while nobody waits.
DevSemaphore == {0}
FirstPrio == {0, 1}
=============================================================================
