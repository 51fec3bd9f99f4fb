---------------------------- MODULE StoreSecrets ----------------------------
(***************************************************************************)
(* Secrets under names of its own, to stand beside the store: what a       *)
(* deploy publishes besides names are references to values it never reads. *)
(***************************************************************************)
CONSTANTS
    SecretEnvs,    \* Secrets' Envs
    SecretKeys,    \* Keys
    SecretCLIs,    \* CLIs
    NamesPerCall,  \* GET_PARAMETERS_MAX
    MaxPuts,       \* bound: values ever stored
    MaxCommands,   \* bound: commands started
    MaxLost        \* bound: containers lost with their node

VARIABLES ssm, toml, published, box, cmd, landed, removed, atRestart, restarts, puts, commands, lost

secretVars == <<ssm, toml, published, box, cmd, landed, removed, atRestart, restarts, puts,
                commands, lost>>

Secret == INSTANCE Secrets WITH
    Envs <- SecretEnvs, Keys <- SecretKeys, CLIs <- SecretCLIs, desired <- published

\* A deployed service has the secrets it names, and a restart has their last values.
SecretsArrive == Secret!ReferencesResolve /\ Secret!RestartRotates
=============================================================================
