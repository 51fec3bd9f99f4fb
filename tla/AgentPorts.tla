----------------------------- MODULE AgentPorts -----------------------------
(***************************************************************************)
(* PortAlloc under names of its own, to stand beside the app agent, which  *)
(* allocates the ports, in its run and in its proofs.                      *)
(***************************************************************************)
CONSTANTS
    WebServices,    \* PortAlloc's Services
    MaxPortIndex,   \* bound: the highest index of a replica
    PortRange,      \* HOST_PORT_COUNT
    HashOf,         \* Natural
    MaxPortFaults   \* bound: faults of the ports

VARIABLES memory, disk, box, doing, broken, lost, leaked, clashes

portVars == <<memory, disk, box, doing, broken, lost, leaked, clashes>>

Port == INSTANCE PortAlloc WITH
    Services <- WebServices, MaxIndex <- MaxPortIndex, HOST_PORT_COUNT <- PortRange,
    Natural <- HashOf, MaxFaults <- MaxPortFaults

ASSUME PortsAssumption == Port!PortAssumption

\* A replica's port is its own, for as long as its record is not lost.
PortsAreTheirs == Port!PortsAreTheirs
=============================================================================
