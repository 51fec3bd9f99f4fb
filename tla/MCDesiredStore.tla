--------------------------- MODULE MCDesiredStore ---------------------------
(* Two CLIs and two nodes.  Two smaller components that share nothing with    *)
(* the store, secrets and IAM policies, are checked by the same run: each     *)
(* behaviour is one of one component, the other two staying where they start. *)
EXTENDS DesiredStore, StoreSecrets, Accounts, TLC

CONSTANTS First, Shared

\* Environments and clusters take the nodes' values, so that one symmetry serves the
\* three.
ASSUME OneSymmetry == SecretEnvs = Nodes /\ SecretCLIs = CLIs /\ Clusters = Nodes

AllKinds   == {"deploy", "partial", "destroy", "undeploy"}
\* p has two services, any other footprint one of the same name.
OneSibling == [p \in Projects |-> IF p = First THEN Services ELSE {Shared}]
Symmetry   == Permutations(Nodes) \cup Permutations(CLIs)

InitAll == Init /\ Secret!Init /\ Iam!Init

StoreIsUntouched  == starts = MaxStarts /\ \A n \in Nodes : desired[n] = {}
SecretIsUntouched == commands = 0
IamIsUntouched    == setups = 0 /\ runs = 0

StoreStep  == SecretIsUntouched /\ IamIsUntouched /\ Next /\ UNCHANGED <<secretVars, iamVars>>
SecretStep == StoreIsUntouched /\ IamIsUntouched /\ Secret!Next /\ UNCHANGED <<vars, iamVars>>
IamStep    == StoreIsUntouched /\ SecretIsUntouched /\ Iam!Next /\ UNCHANGED <<vars, secretVars>>

NextAll == StoreStep \/ SecretStep \/ IamStep

SpecAll == InitAll /\ [][NextAll]_<<vars, secretVars, iamVars>>
=============================================================================
