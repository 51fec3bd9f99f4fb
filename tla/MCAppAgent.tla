----------------------------- MODULE MCAppAgent -----------------------------
(***************************************************************************)
(* Instances of AppAgent for TLC: two versions whose containers become     *)
(* healthy and one whose containers never do, deployed with one or two     *)
(* replicas.  The host ports, which the agent allocates without looking at *)
(* any of this, and an external machine that is to run an agent are        *)
(* checked by the same run: each behaviour is one of the three, the other  *)
(* two staying where they start.                                           *)
(***************************************************************************)
EXTENDS AppAgent, AgentPorts, ExternalNodes

CONSTANTS v1, v2, bad, c1, c2

Svc(version, n, s) == [stamp |-> version, replicas |-> n, surge |-> s]

MCStamp     == {v1, v2, bad}
MCGoodStamp == {v1, v2}

\* rolling updates, scaling in both directions, and both at once
MCConfigs == {Svc(v1, 2, 1), Svc(v2, 1, 1), Svc(v2, 2, 2), Svc(bad, 1, 1)}

\* Every name hashes to the last port: the longest searches, all wrapping round.
LastPort == [k \in WebServices \X (0 .. MaxPortIndex) |-> PortRange - 1]

hostVars == <<registry, user, active, minted, host, status, job, forgiven, gone,
              hostStarts, hostFaults>>

VARIABLE part

InitAll == /\ part \in {"replicas", "ports", "host"}
           /\ Init /\ Port!Init /\ Ext!Init
           /\ part # "replicas" => ~sibling

ReplicaStep == part = "replicas" /\ Next /\ UNCHANGED <<part, portVars, hostVars>>
PortStep    == part = "ports" /\ Port!Next /\ UNCHANGED <<part, vars, hostVars>>
HostStep    == part = "host" /\ Ext!Next /\ UNCHANGED <<part, vars, portVars>>

\* The search for a port may have no end; and the machine is gone, or ready, when no
\* command is left to run.
Rest == part # "replicas" /\ UNCHANGED <<part, vars, portVars, hostVars>>

NextAll == ReplicaStep \/ PortStep \/ HostStep \/ Rest

\* The fairness of AppAgent and of ExternalNode, where their part moves
FairAll ==
    /\ WF_vars(part = "replicas" /\ Agent)
    /\ \A i \in Index : WF_vars(part = "replicas" /\ BecomeReady(i))
    /\ \A c \in HostCLIs : WF_hostVars(part = "host" /\ Ext!Step(c))
    /\ WF_hostVars(part = "host" /\ \E c \in HostCLIs : Ext!Resume(c))
    /\ WF_hostVars(part = "host" /\ Ext!Beat)

SpecAll == InitAll /\ [][NextAll]_<<part, vars, portVars, hostVars>> /\ FairAll
=============================================================================
