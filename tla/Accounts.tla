------------------------------ MODULE Accounts ------------------------------
(***************************************************************************)
(* Access under names of its own, to stand beside the store: the policies  *)
(* say which of its objects a program may read and write.                  *)
(***************************************************************************)
CONSTANTS
    Clusters,      \* the named clusters
    Roles,         \* the names of CI roles
    Repositories,  \* Access's Projects
    MaxSetups,     \* bound: runs of setup ci-deploy
    MaxRuns,       \* bound: commands started
    MaxCrashes     \* bound: commands interrupted

VARIABLES have, ciRole, workflow, setup, run, refused, skipped, contested, setups, runs, crashes

iamVars == <<have, ciRole, workflow, setup, run, refused, skipped, contested, setups, runs, crashes>>

Iam == INSTANCE Access WITH Projects <- Repositories

\* Clusters and roles have names.
ASSUME NamesAssumption == Iam!None \notin Clusters \cup Roles

IamSpec == Iam!Spec

\* Neither commands nor workflows nor agents are refused what they call.
CallsAreAllowed == Iam!PoliciesAreEnough /\ Iam!AgentsAreServed
=============================================================================
