------------------------------ MODULE MCKernel ------------------------------
\* The nucleus with a few PCBs, semaphores and devices.
EXTENDS Kernel
CONSTANTS s1, clock, none

AllInterrupts == {{"timer", "device"}}
NoPriority == -1
OnePriority == {0}
TwoPriorities == {0, 1}
Sync == {0}
=============================================================================
