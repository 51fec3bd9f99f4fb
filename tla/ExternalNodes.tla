---------------------------- MODULE ExternalNodes ----------------------------
(***************************************************************************)
(* ExternalNode under names of its own, to stand beside the nodes on EC2   *)
(* in the proofs and beside an agent in a run: it shares no state with     *)
(* either.                                                                 *)
(***************************************************************************)
CONSTANTS
    HostCLIs,       \* ExternalNode's CLIs
    MaxKeys,            \* bound: access keys ever created
    MaxHostStarts,  \* bound: commands started
    MaxHostFaults   \* bound: calls and sessions that fail, processes killed

VARIABLES registry, user, active, minted, host, status, job, forgiven, gone,
          hostStarts, hostFaults

Ext == INSTANCE ExternalNode WITH
    CLIs <- HostCLIs, MaxStarts <- MaxHostStarts, MaxFaults <- MaxHostFaults,
    excused <- forgiven, starts <- hostStarts, faults <- hostFaults

ASSUME ExternalAssumption == Ext!ExternalNodeAssumption

ExternalSpec == Ext!Spec

\* No credential of the node is out of reach.
CredentialsAreHeld == Ext!CredentialsAreHeld

\* A rotation does not revoke the key that the machine starts its agent with.
RotationKeepsTheNodeIn == Ext!RotationKeepsTheNodeIn

\* An enrolled machine whose agent lives becomes ready.
EnrolledComesUp == Ext!EnrolledComesUp
=============================================================================
