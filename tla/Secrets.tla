------------------------------ MODULE Secrets ------------------------------
(***************************************************************************)
(* The secrets of a service: their values in SSM Parameter Store, one per  *)
(* environment, the keys launch-pad.toml lists, the references a deploy    *)
(* publishes, and the values a container was started with.                 *)
(*                                                                         *)
(* `secret set`, `rm` and `import`, and `deploy`, each take several steps, *)
(* run side by side and may fail or be killed between two of them.  A key  *)
(* is listed once for every environment, its value stored for each, and    *)
(* the agent reads the values when it starts a container, never later.     *)
(***************************************************************************)
EXTENDS Naturals, FiniteSets

CONSTANTS
    Keys,         \* secret keys of the service
    Envs,         \* footprints: the project and its environments
    CLIs,         \* processes that run commands
    NamesPerCall, \* GET_PARAMETERS_MAX: 10 names in one call of the API
    MaxPuts,      \* bound: values ever stored
    MaxCommands,  \* bound: commands started
    MaxLost       \* bound: containers lost with their node

VARIABLES
    ssm,       \* the value of each parameter, by version; 0 when there is none
    toml,      \* the `secrets` of the service in launch-pad.toml
    desired,   \* the published references, and restartAt (0: none)
    box,       \* the container of each environment and the values in it
    cmd,       \* the command of each process
    landed,    \* history: the keys ever stored
    removed,   \* history: keys deleted since the deploy that published began
    atRestart, \* history: the values when `deploy --restart` published
    restarts,  \* publishes of `deploy --restart`: each has a time of its own
    puts, commands, lost

vars == <<ssm, toml, desired, box, cmd, landed, removed, atRestart, restarts, puts, commands, lost>>

Idle == [op |-> "none"]

None == [up |-> FALSE]

Command(op, e, ks) ==
    [op |-> op, env |-> e, keys |-> ks, left |-> ks, state |-> "first", restart |-> FALSE,
     gone |-> {}]

Init ==
    /\ ssm = [e \in Envs |-> [k \in Keys |-> 0]]
    /\ toml = {}
    /\ desired = [e \in Envs |-> None]
    /\ box = [e \in Envs |-> None]
    /\ cmd = [c \in CLIs |-> Idle]
    /\ landed = {}
    /\ removed = [e \in Envs |-> {}]
    /\ atRestart = [e \in Envs |-> [k \in Keys |-> 0]]
    /\ restarts = 0
    /\ puts = 0
    /\ commands = 0
    /\ lost = 0

Present(e) == {k \in Keys : ssm[e][k] # 0}

Start(c, command) ==
    /\ cmd[c] = Idle
    /\ commands < MaxCommands
    /\ commands' = commands + 1
    /\ cmd' = [cmd EXCEPT ![c] = command]
    /\ UNCHANGED <<ssm, toml, desired, box, landed, removed, atRestart, restarts, puts, lost>>

(***************************************************************************)
(* secret set, import and rm                                               *)
(***************************************************************************)
RunSet(c, e, k) == Start(c, Command("set", e, {k}))

\* The whole file is validated before anything is written.
RunImport(c, e, ks) == ks # {} /\ Start(c, Command("set", e, ks))

RunRm(c, e, k) == Start(c, Command("rm", e, {k}))

\* putSecretParameter, one key after the other, overwriting.
Put(c, k) ==
    /\ cmd[c].op = "set" /\ k \in cmd[c].left
    /\ puts < MaxPuts
    /\ puts' = puts + 1
    /\ ssm' = [ssm EXCEPT ![cmd[c].env][k] = puts + 1]
    /\ landed' = landed \cup {k}
    /\ cmd' = [cmd EXCEPT ![c].left = @ \ {k}]
    /\ UNCHANGED <<toml, desired, box, removed, atRestart, restarts, commands, lost>>

\* registerServiceSecrets: one rewrite of the file, after every value is stored;
\* --no-register is parsed as `register` and changes nothing.
Register(c) ==
    /\ cmd[c].op = "set" /\ cmd[c].left = {}
    /\ toml' = toml \cup cmd[c].keys
    /\ cmd' = [cmd EXCEPT ![c] = Idle]
    /\ UNCHANGED <<ssm, desired, box, landed, removed, atRestart, restarts, puts, commands, lost>>

\* A parameter that is not there is an error: the command ends and unregisters
\* nothing.
Delete(c) ==
    /\ cmd[c].op = "rm" /\ cmd[c].state = "first"
    /\ \E k \in cmd[c].keys, e \in {cmd[c].env} :
          IF ssm[e][k] = 0
          THEN cmd' = [cmd EXCEPT ![c] = Idle] /\ UNCHANGED <<ssm, removed>>
          ELSE /\ ssm' = [ssm EXCEPT ![e][k] = 0]
               /\ removed' = [removed EXCEPT ![e] = @ \cup {k}]
               /\ cmd' = [d \in CLIs |->
                            IF d = c THEN [cmd[c] EXCEPT !.state = "unregister"]
                            ELSE IF cmd[d].op = "deploy" /\ cmd[d].env = e
                                 THEN [cmd[d] EXCEPT !.gone = @ \cup {k}] ELSE cmd[d]]
    /\ UNCHANGED <<toml, desired, box, landed, atRestart, restarts, puts, commands, lost>>

\* For every environment, although the value is gone in one.
Unregister(c) ==
    /\ cmd[c].op = "rm" /\ cmd[c].state = "unregister"
    /\ toml' = toml \ cmd[c].keys
    /\ cmd' = [cmd EXCEPT ![c] = Idle]
    /\ UNCHANGED <<ssm, desired, box, landed, removed, atRestart, restarts, puts, commands, lost>>

(***************************************************************************)
(* deploy                                                                  *)
(***************************************************************************)
\* loadConfig reads the file once, when the command starts.
RunDeploy(c, e, restart) ==
    /\ restart => desired[e].up
    /\ Start(c, [Command("deploy", e, toml) EXCEPT !.restart = restart])

Batches(ks) == {b \in SUBSET ks : b # {} /\ Cardinality(b) = NamesPerCall}
                 \cup (IF Cardinality(ks) <= NamesPerCall THEN {ks} ELSE {})

\* Looks up only the first batch.
BugAssertSecretsPresent(c) ==
    /\ cmd[c].op = "deploy" /\ cmd[c].left # {}
    /\ \E batch \in Batches(cmd[c].left) :
          cmd' = [cmd EXCEPT ![c] = IF batch \subseteq Present(cmd[c].env)
                                    THEN [@ EXCEPT !.left = {}] ELSE Idle]
    /\ UNCHANGED <<ssm, toml, desired, box, landed, removed, atRestart, restarts, puts, commands, lost>>

\* assertSecretsPresent looks the keys up a batch at a time and refuses the deploy
\* when one is missing.
AssertSecretsPresent(c) ==
    /\ cmd[c].op = "deploy" /\ cmd[c].left # {}
    /\ \E batch \in Batches(cmd[c].left) :
          cmd' = [cmd EXCEPT ![c] = IF batch \subseteq Present(cmd[c].env)
                                    THEN [cmd[c] EXCEPT !.left = @ \ batch] ELSE Idle]
    /\ UNCHANGED <<ssm, toml, desired, box, landed, removed, atRestart, restarts, puts, commands, lost>>

\* Only --restart sets restartAt, to the time; any other publish leaves it out.
ServiceConfig(c) ==
    [up |-> TRUE, refs |-> cmd[c].keys, restartAt |-> IF cmd[c].restart THEN restarts + 1 ELSE 0]

Publish(c) ==
    /\ cmd[c].op = "deploy" /\ cmd[c].left = {}
    /\ desired' = [desired EXCEPT ![cmd[c].env] = ServiceConfig(c)]
    /\ removed' = [removed EXCEPT ![cmd[c].env] = cmd[c].gone]
    /\ atRestart' = IF cmd[c].restart THEN [atRestart EXCEPT ![cmd[c].env] = ssm[cmd[c].env]]
                    ELSE atRestart
    /\ restarts' = IF cmd[c].restart THEN restarts + 1 ELSE restarts
    /\ cmd' = [cmd EXCEPT ![c] = Idle]
    /\ UNCHANGED <<ssm, toml, box, landed, puts, commands, lost>>

\* A write fails or the process is killed: what is done stays.
Fail(c) ==
    /\ cmd[c] # Idle
    /\ cmd' = [cmd EXCEPT ![c] = Idle]
    /\ UNCHANGED <<ssm, toml, desired, box, landed, removed, atRestart, restarts, puts, commands, lost>>

\* The fingerprint of the configuration that a container is labelled with: paths
\* of the secrets, not their values.
ConfigStamp(config) == <<config.refs, config.restartAt>>

\* Every reference must resolve, in one call of the API.
Resolves(e) ==
    /\ Cardinality(desired[e].refs) <= NamesPerCall
    /\ desired[e].refs \subseteq Present(e)

\* A container of another stamp is replaced, one that is missing started; while
\* a reference does not resolve the old one stays.
StartContainer(e) ==
    /\ desired[e].up
    /\ box[e].up => box[e].stamp # ConfigStamp(desired[e])
    /\ Resolves(e)
    /\ box' = [box EXCEPT ![e] = [up |-> TRUE, stamp |-> ConfigStamp(desired[e]),
                                  env |-> [k \in desired[e].refs |-> ssm[e][k]]]]
    /\ UNCHANGED <<ssm, toml, desired, cmd, landed, removed, atRestart, restarts, puts, commands, lost>>

LoseContainer(e) ==
    /\ box[e].up
    /\ lost < MaxLost
    /\ lost' = lost + 1
    /\ box' = [box EXCEPT ![e] = None]
    /\ UNCHANGED <<ssm, toml, desired, cmd, landed, removed, atRestart, restarts, puts, commands>>

Next ==
    \/ \E c \in CLIs :
          \/ \E e \in Envs, k \in Keys : RunSet(c, e, k) \/ RunRm(c, e, k)
          \/ \E e \in Envs, ks \in SUBSET Keys : RunImport(c, e, ks)
          \/ \E e \in Envs, restart \in BOOLEAN : RunDeploy(c, e, restart)
          \/ \E k \in Keys : Put(c, k)
          \/ Register(c) \/ Delete(c) \/ Unregister(c)
          \/ AssertSecretsPresent(c) \/ Publish(c) \/ Fail(c)
    \/ \E e \in Envs : StartContainer(e) \/ LoseContainer(e)

Spec == Init /\ [][Next]_vars

(***************************************************************************)
(* Properties                                                              *)
(***************************************************************************)
\* runImport registers after the writes "so the TOML never references a secret that
\* failed to land", and assertSecretsPresent refuses a deploy with a secret missing
\* in its environment: a published reference that the agent cannot resolve was
\* deleted after that deploy began.
ReferencesResolve ==
    /\ toml \subseteq landed
    /\ \A e \in Envs : desired[e].up => desired[e].refs \subseteq Present(e) \cup removed[e]

\* `deploy --restart` rotates: a container started for it never runs with values
\* older than those stored when it was published.
RestartRotates ==
    \A e \in Envs :
        /\ desired[e].up /\ box[e].up
        /\ desired[e].restartAt # 0
        /\ box[e].stamp = ConfigStamp(desired[e])
        => \A k \in desired[e].refs : box[e].env[k] >= atRestart[e][k]
=============================================================================
