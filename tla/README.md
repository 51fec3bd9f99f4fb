# A verification project for launch-pad

launch-pad deploys containers to EC2 (or other) nodes without a control plane: a CLI
(TypeScript, `packages/cli`, with shared schemas and planners in `packages/shared`)
writes the desired state to S3, and one Rust agent per node (`packages/agent-rust`)
polls it and makes docker, or Caddy, agree. All coordination is through objects in one
bucket, a wake-up queue per node, and AWS itself.

This directory holds TLA+ models of the parts with behaviour of their own, the TLC
configurations that check them on small instances, and TLAPS proofs of what matters
most for every value of the constants. `PROJECT.json` maps every definition to the
lines it was translated from, and lists the hazards the properties are for.

## 1. Inventory

| Component | State | Operations | Modelled in |
| --- | --- | --- | --- |
| App agent (`agent-app.rs`, `reconcile.rs`, `docker.rs`, `upstream.rs`) | `desired`, `last_shard_fps`, the locals of a rollout; docker's containers | tick: read desired.json, inspect, plan, start/create/scale down/remove/rollout, publish the shard | `AppAgent` |
| Scheduled work (`plan_cron_service`, `plan_backup_service`, `record_cron_fire`) | `cron_fires` in memory and in state.json, the fire label of the run container | seed the anchor, plan, pull, clear, record, run, skip, dump | `CronSchedule` |
| One-off jobs (`job.ts`, `plan_job_service`, `status.rs`) | the run's entry in desired.json, the label of its container | publish, dispatch, report, remove | `JobRuns` |
| Ports (`state.rs`) | ports per replica in memory and in state.json | allocate, release, save, load | `PortAlloc` |
| Status and wake (`runtime.rs`, `sqs.rs`, `status.rs`, `status_write.rs`, `watch.ts`) | the timer, one permit, `last_status`, status.json | poll, wake, heartbeat, debounced write, watch | `StatusFeed` |
| Edge agent (`agent-edge.rs`, `s3.rs`, `caddy.rs`, `edge.rs`, `routes.rs`) | shard cache by LIST fingerprint, `last_config_json`; Caddy's configuration | tick: LIST, GET, probe, POST /load | `EdgeRouter` |
| S3 store (`s3-state.ts`, `merge.ts`) | desired.json per node, baseline per footprint, ETags | get, conditional put, full and partial merge | `DesiredStore`, `AtomicDesired` |
| Deploy (`deploy.ts`) | what it read: the lock, the prior placement | lock check, build, plan, provision, publish node by node, clean up, write the baseline | `DesiredStore`, `Scheduler`, `Release` |
| Destroy (`destroy.ts`, `undeploy.ts`, `markers.ts`, `registry.ts`) | the removal plan, preview markers, the project index | remove a footprint, a service, an environment, expired ones, a project | `DesiredStore`, `Teardown` |
| Placement and capacity (`placement.ts`, `capacity.ts`, `candidate-nodes.ts`, `provision-plan.ts`) | none, pure | bin packing, admission, added nodes, instance types | `Placement`, `Scheduler` |
| Rebalance (`rebalance.ts`, `rebalance-plan.ts`) | what it read | plan, publish in order, drain a node | `Scheduler` |
| Autoscale (`autoscale.ts`, `cluster/store.ts`) | policy and `lastScaleAt` in cluster.json | observe, decide, claim, launch, drain, terminate | `Autoscale` |
| Images (`build.ts`, `remote-build.ts`, `ecr.ts`, `codebuild.ts`, `changed-services.ts`, `rollback.ts`, `scale.ts`) | ECR tags, build contexts in S3, running builds | tag, build, push, wait, roll back | `Release` |
| EC2 nodes (`node/index.ts`, `provision-node.ts`, `ec2.ts`) | node.json, instance, volume, address, role, security group | create, destroy, pause, resume, resize, reconcile, prune, sweep | `NodeFleet` |
| External nodes (`node/init.ts`, `node/index.ts`, `iam.ts`) | node.json, IAM user and keys, the host's agent.env and unit | enrol, rotate, upgrade, reconcile, destroy | `ExternalNode` |
| IAM (`operator-policy.ts`, `project-deploy-policy.ts`, `iam.ts`, `setup.ts`) | roles, policies, trust | setup, and every call made under a policy | `Access` |
| Secrets (`secret/index.ts`, `ssm-secrets.ts`, `secrets.rs`) | SSM parameters, keys in launch-pad.toml, references in desired.json | set, rm, import, deploy, read at container start | `Secrets` |
| Config lock, drift (`config-lock.ts`, `drift-*.ts`) | none, pure | compare configurations | the lock by names in `DesiredStore` |
| Log shipping, stats, DNS, dashboard, reports, init, config parsing, state backup | on the screen, or copies | read and print | not modelled |

**What is hard.** The agents are single threaded, but docker, the containers, S3, Caddy
and the CLI act between any two of their calls; they can die between any two calls and
come back with nothing but docker, a state file and S3; a call can fail, or report a
failure although it took effect. Several command lines write the same objects, with
conditional puts in some places and without in others, and each is a long sequence of
AWS calls that can break off anywhere and be run again. The drain of a replica rests on
time alone; a deploy's verdict, a job's verdict and a node's health rest on a status
document that may be stale. Names derived in one file must be granted in another.

**What makes each part correct.** A rollout keeps a healthy, routed replica and stays in
its surge budget; the agent converges from any mess; a fire runs at most once and no run
is killed; a job runs at most once and its verdict is true; Caddy follows the shards and
never routes to a drained replica; a port is on one record; an agent hears of every
publication and is heard; writers of desired.json lose nothing of each other; a command
that ends has done exactly what it was asked; a plan passes every check after it and no
move loses data or the last replica; autoscaling keeps its bounds and takes nothing with
the node it removes; what runs is what its tag says; what is billed is registered; no
credential is out of reach; every call is granted; a teardown removes all it is about
and nothing else.

## 2. Modules

A module models one component; where one ends, another begins. `DesiredStore` ends where
desired.json is in S3, `AppAgent`, `CronSchedule`, `JobRuns` and `StatusFeed` begin there.
`AppAgent` ends where the shard is in S3, `EdgeRouter` begins there. `Scheduler` takes
the publish of a node as one step, which is what `AtomicDesired` says and `DesiredStore`
is shown to implement; `Autoscale` takes a rebalance as one step, which `Scheduler` has
node by node, and a launch and a teardown as one, which `NodeFleet` has. `Scheduler` and
`Autoscale` plan with the operators of `Placement`. `Release` and `Teardown` publish and
remove a footprint in a step, which `DesiredStore` has per node.

`MC…` modules give constants their values. Three of them also host components that
share nothing with the one they are named for: `MCDesiredStore` runs `Secrets` and
`Access` beside the store, `MCAppAgent` runs `PortAlloc` and `ExternalNode` beside the
replicas, `MCCronSchedule` runs `Scheduler` beside the fires (when a service runs, and where).
Each behaviour of such a run is one of one component (where `part` says which), the others
staying at their initial state, so the run checks each of them as a run of its own would. Fairness is
that of the component that moves, action by action; the liveness properties of the others hold in
their initial states, in which nothing is yet asked for.

`AgentPorts`, `StoreSecrets`, `Accounts`, `ExternalNodes`, `PoolScaling`, `Shipping` and `NodePlans` are
`PortAlloc`, `Secrets`, `Access`, `ExternalNode`, `Autoscale`, `Release` and `Scheduler` under names of their own (an INSTANCE whose constants and variables are
renamed, the constants' assumption, and the properties), so that a run or a proof module can
have them beside another component. They define no behaviour.

An operator named `Bug…`, marked "mutant", is a plausible bug of the definition after it.
It is part of no specification; it shows that the property it is paired with in
`PROJECT.json` would notice.

**AppAgent.** A step is one call with a side effect (a docker command, a PUT of the
shard) with all the code does until the next. `pc` is where the agent is: `idle`; `turn`
(the plan is made, other services act first), `apply`, the stages of `rollout_service`
(`pull`, `rollout`, `health`, `route`, `abort`, `unroute`, `drain`, `settle`), `publish`.
`oldQueue`, `newCount`, `nextIndex` are the locals of the rollout; `lastShard` is the
remembered fingerprint. `docker rm -f` takes a container away or leaves it as it is;
`stop_container` may also stop it and fail to remove it. The world deploys, kills containers, brings them back, and kills
the agent; a fault of each kind can hit each call. `faults` remembers which kinds have
misled the agent, so that a property can say from when on it promises nothing, rather
than be checked without those faults.

**EdgeRouter.** Time is discrete. An app node starts replicas, publishes a shard without
the one it drains, waits `Floor` and stops it; or stops one abruptly, as scale down and
remove do. The edge lists the shards, gets the bodies one at a time unless the
fingerprint is the cached one, probes Caddy, loads a configuration if it must, and ends
its tick, within `MaxTick`; the next starts within `Poll`, or earlier by a wake-up. Reads
and loads fail, loads fail although applied, Caddy and the agents restart; `missed`
counts the ticks that the edge lost.

**CronSchedule.** A minute clock, the schedule's fires, the anchor in memory and in
state.json, and the run container with its fire label. The tick seeds the anchor of a
schedule it sees for the first time, plans from the anchor or the label (`LastFire`), and
then pulls, clears, records and runs, or skips. A backup dumps first and records after.

**JobRuns.** Each run of the job is one `job run` command: it reads desired.json, refuses
if another run's request is there (`Taken`), puts the request, polls status.json
(`Verdict`), gives up or ends, and takes its own request out (`Mine`), with the retries of
both puts. The agent's tick plans from the entry and the labels of containers
(`Dispatched`, `Busy`), pulls, clears and runs. `excused` are the runs on whose way a
container was lost behind the agent's back.

**StatusFeed.** Publications are numbered, containers named by the publication they were
started for. The deploy publishes, sends the wake-up, and watches; the agent waits for
its timer or a permit, acts, and writes status.json if it differs from what it last wrote or a
heartbeat is due, which it sees on a tick only. `Silence` is how old that lets status.json
grow. Reads, puts, messages and actions fail or are lost; the agent restarts.

**PortAlloc.** The agent's map and state.json, and docker's containers with the ports
they were created with. Create, surge, gate, retire, stop, release, remove and start are
the uses `reconcile.rs` makes of ports, in any order the replicas allow; the file may be
unwritable or lost, docker's rm may fail unnoticed, the agent dies between any two calls.
Histories: whose record was lost, whose release was skipped, who was refused a port.

**DesiredStore, AtomicDesired.** A CLI runs one command at a time: a full deploy, a
partial one (`--service`, `--changed`, `scale`, `config set`), a destroy, an undeploy.
One S3 call is one step. `fresh` says whether the object still has the ETag that was read,
which is exactly when nobody has put it since, because each put stamps `updatedAt`. A put
whose answer is lost is repeated by the SDK and finds its own object: a conflict after
success. The planner is a choice. `AtomicDesired` is what a user may assume: each change
of a desired.json is one command's request applied to what is there at that moment.

**Placement, Scheduler.** `Placement` is arithmetic on loads and demands: the score of a
node, the best node, packing replicas one by one, sticky volumes, added nodes, the
smallest instance type. `Scheduler` runs deploy, partial deploy, rebalance and drain on a
pool: read the pool, plan, provision, pre-flight, publish in the code's order, clean up.
Meanwhile another project publishes, empty nodes are destroyed, an external host falls
silent, the command fails.

**Autoscale.** A pass reads cluster.json, observes one set of samples, decides with
`decideScale`'s rules, claims with a conditional put, and launches and rebalances, or
drains, waits, looks again and terminates. Passes overlap and break off; the policy is set
anew or switched off, other commands write cluster.json without a condition, another
project deploys, agents take their time. `met` is a history: who has come between a pass's
observation and now, other passes that acted (while it observes: that claimed), the operator's
changes of policy or pool, and moves of replicas after the pass has drained.

**Release.** Each command line has a checkout, maybe with edits; it chooses services, tags
them (`computeImageTag`), looks whether ECR has the tag, builds locally or on CodeBuild
from an uploaded context, and publishes. Restart and rollback publish an image that
is there; scale and config edit launch-pad.toml first. Commands fail, die or time out while
the remote build goes on.

**Teardown.** What says that a footprint exists: services, baseline, marker with its time
to live, entry in the project's index, secrets. Deploys write them one after the other,
the four teardowns remove them one after the other from what they read at their
beginning; `--prune-expired` is scheduled, as the documentation's cron line has it.

**NodeFleet.** Commands are processes that read node.json, call EC2 and IAM, wait, and
write node.json back. Create, destroy, pause, resume, resize, reconcile and the sweep of
leftovers are their sequences of calls with the roll-backs the code has; the console
stops, starts and terminates the instance; deploys place services, some with volumes.

**ExternalNode.** node.json, the IAM user and its keys, the host (agent.env, the unit, the
running process) and status.json. node init, rotate-creds, upgrade-agent, reconcile and
destroy change them over SSH sessions that break after they have begun to write.

**Access.** A policy is a set of statements, a command a list of steps, a step the calls
one helper makes; it goes through if the identity is granted all of them. The operator's
commands, CI's, the agents and the build container run under what `setup iam-policy`,
`setup ci-deploy`, `ensureNodeIam` and `ensureRemoteBuildInfra` have written, while
`setup ci-deploy` runs again for other projects and clusters, or is interrupted. The operator may
also enrol an external node, rotate its keys and destroy it; an administrator, whom no such policy
binds, may have enrolled it, so that there is something to rotate and destroy. A refusal ends a
command, or, of a best-effort step, goes to the history `skipped`.

**Secrets.** Values in SSM per environment, the keys in launch-pad.toml, the references a
deploy publishes and what a container was started with; set, import, rm and deploy step
by step, side by side. A `restartAt` is the time at which a `--restart` deploy built what it
publishes (`deploy.ts:326`), counted by `restarts`; the agent replaces a container whose
own differs.


## 3. Runs

Ten runs pass; every one is exhaustive for its constants. With two workers they take from
under a minute to a little over three. All actions of all next-state relations fire in them. Two
more runs end in a counterexample to what the documentation says; they are described at the end
of this section. State counts are of distinct states.

**app_agent** (`MCAppAgent`, `AppAgent_heals.cfg`, 0.9 million states; three components). Four
configurations that combine rolling updates, scaling in both directions and a version
that never becomes healthy; two deploys, two faults of any kind (crash, failing pull, run,
stop, rm, an rm after a stop that succeeded, inspect, PUT, a PUT applied although it reports an error), indices to 5, with and
without another web service on the node. `BeliefsHold`: what the agent believes of docker
and of the shard between two calls is true. `RolloutKeepsServing`: a rollout that begins
healthy never loses its last routed healthy replica. `GateHolds`: the shard gains only
replicas that passed the health check. `SurgeIsBounded`: the counters, which are never
refreshed from docker, keep the budget. `Converges`: the node reaches its desired state
from any mess. Two versions and an update in mid-flight of another are what the recovery
code distinguishes; two faults allow one to hit the recovery from the other.
Beside it `PortAlloc`, two web services whose names hash to the last of three ports,
surge to index 1, two faults. `PortsAreTheirs`: no two records hold one port, records
without a container are those whose release was skipped, and docker refuses no port to
a replica whose record was not lost.
And `ExternalNode`: two processes, three commands besides
the resumes, four key ids, two faults. `CredentialsAreHeld`: a machine with a good key
stays listed, keys do not pile up, a destroy is final. `RotationKeepsTheNodeIn`: no
rotation that ends revokes the key that agent.env has, unless its SSH session was cut between the
write and the restart (the file then has a key that may be given up), a rotation found no
key at all to replace, or an enrolment ran beside it. `EnrolledComesUp`: an enrolment ends ready.

**cron** (`MCCronSchedule`, 0.5 million; two components). One schedule over four minutes; deployed,
dropped, deployed again; a cron service or a backup; two faults among crashes, a lost or
unwritable state.json, failing docker calls and a prune of the run container. `AtMostOnce`: a fire
starts at most one run, a skipped one none. `RunsAreDue`: none is killed by the next and
none comes from before the schedule was first seen. `BackupsAreTaken`: no backup fire is lost.
Beside it `Scheduler`: three services, one with a
volume, on an EC2 node, an external one and one that deploys may add; three commands,
two publishes of another project, one fault. The capacities fit everything on the two
nodes only when it is spread well. `PlansAreAdmitted`: no plan fails a check after it.
`MovesAreSafe`: data stays, no move leaves a service without a replica.
`CommandsSettle`: what was declared is placed and a second rebalance has nothing to do.

**jobs_once** (`MCJobRuns`, 0.6 million). Two runs, one deploy or other write, two
faults. `AtMostOnce`: a run's container is started at most once. `VerdictIsTrue`: success
is reported only of a run that was started and ended with 0. `RequestsAreServed`: a
request is taken out only by its own command or a deploy, and one that stays is run.

**status_feed** (`StatusFeed`, 0.9 million). The agent's defaults in units of 15 s: a poll and a
stale limit of 4 (60 s), a heartbeat of 2 (30 s), ticks up to 1; two publications, three
faults. `StaysInTouch`: the agent sleeps on no publication whose message it received, and as
long as its puts succeed it is silent no longer than the heartbeat, a poll and a tick together.
That is more than the stale limit: see `status_feed_stale`.
`ConvergedMeansRan`: a deploy that reports convergence has had its container started.
`StatusCatchesUp`: the node runs the last publication and status.json comes to say so.

**node_fleet** (`NodeFleet`, 1.3 million). Two commands at a time besides the reconciles,
one fault or one change in the console, five instance ids (ids that nothing names are used
again). `FleetIsAccountedFor`: what is billed and what is registered agree.
`DataIsKept`: the data gate of a destroy. `NodesComeBack`: reconciles repair what is left.

**autoscale** (`MCAutoscale`, 1.4 million). Two passes over a pool of two and one to add,
one event among a broken-off pass, another project's publish, a destroyed node, a policy
edit, an unconditional put; policies of one to two and two to three nodes. `PolicyIsKept`: from
observation to action a pass leaves the bounds by one node at most for each pass that acted meanwhile,
and not at all if none did, though others overlap (as none can when their claims collide); what
utilisation asks for comes a cooldown after the last claim, unless another claim came during the
observation. Excepted are commands that change the policy or the pool in between. What overlapping
passes can do to each other is `autoscale_overlap`. `NothingGoesWithIt`: neither what is scheduled on the victim nor what
was moved off it is lost. `FloorRestored`: a pool below the floor gets there again.

**release** (`MCRelease`, 0.3 million). Two command lines, the second building on
CodeBuild, two commits of which each touches services, one edit, one fault, two
commands. `ImagesAreSound`: what is published was pushed, tags name what they were built
from. `DeploysArrive`: `--changed` builds enough, rollback goes back. `NothingLingers`:
tarballs are removed and commands end, whatever CodeBuild does.

**teardown** (`MCTeardown`, 0.6 million). A base footprint, its environment, and a base
footprint of another project with the same owner name; two processes, three commands
besides the prune, one fault. `LiveIsAccountedFor`: what runs is listed, locked and has its
secrets. `TeardownsAreExact`: they spare others, and gone means gone. `Reaped`: an
expired environment goes.

**edge** (`MCEdgeRouter`, 1.7 million). Two app nodes with a replica each, three shard
puts, two faults; poll 1, ticks up to 1, a floor of 4 (the smallest above a poll and two
ticks). `RoutedIsAlive`: Caddy never routes to a replica that a rollout stopped, unless the
edge lost a tick. `RoutesInTime`: a shard change is loaded within a poll and two ticks and
the LIST fingerprint pins no stale body. `CaddyFollows`: Caddy ends up with what the
shards list.

**store_races** (`MCDesiredStore`, 2.3 million; three components). Two nodes, two
footprints, two services, two commands of any kind at a time, one fault.
`WritesAreAtomic`: the store implements `AtomicDesired`. `PublishedAsPlanned`: a deploy
removes after it has added, what reports success is there and nothing else of it is, and
the lock's baseline covers what lives. Beside it `Secrets` (two environments, four
commands, three puts, one call takes one name where SSM takes ten; a lost read):
`SecretsArrive`, every reference a deploy published resolves and a restart has the last
values. And `Access` (two clusters, one repository and role, two setups, two commands, one
interruption): `CallsAreAllowed`. Agents and builds are refused nothing; a workflow is stopped only
for a role that was set up for two targets, for remote builds, databases and the secrets of
components; no command of the operator's is stopped but node init, node rotate-creds and
a deploy of a database with backups, and what one goes on without is the result of a script it ran and
the deletion of an external node's user.

**status_feed_stale** (violation of `FreshWhileAlive`). With the agent's defaults and no fault, a live
node is taken for dead: the first status is a tick old when the agent goes to sleep for as long as
the limit. A status that is younger than the heartbeat on a tick is not renewed until the next.

**autoscale_overlap** (violation of `OneOfTwoActs`). Two passes, one node, a policy of one to two. Both
observe; one claims and launches; the other claims, since its claim reads cluster.json anew and does
not look at `lastScaleAt`, and launches too: three nodes.

**Bounds.** Every bound is a constant of its module or a definition of its MC module:
`MaxStarts`, `MaxDeploys`, `MaxRuns`, `MaxCommands`, `MaxSetups`, `MaxPuts`, `MaxWrites`, `MaxGen`, `MaxEdits`
count what users do; `MaxFaults`, `MaxCrashes`, `MaxLost`, `MaxEvents`, `MaxForeign`, `MaxPortFaults`, `MaxPlanFaults`, `MaxHostFaults` what
goes wrong; `MaxIndex`, `MaxKeys`, `MaxNow`, `MaxTick`, `MaxSpread` sizes. Two of the
actors that race, one fault in the middle of each and one more command to find what they
left is what the code's own recovery paths distinguish; where two faults or three commands fit in
a run, they are there. Symmetry is used in `store_races`, whose properties are safety
properties, over the nodes and the command lines, which the model does not tell apart.

**Deadlock** is checked except where the system may really stop: `store_races`,
`node_fleet`, `release` and `teardown` when all commands have
been run, `edge` when all replicas are stopped and time is up. For the same reason the hosted
components of `app_agent` and `cron` may rest, and the two runs with a counterexample may stop.

**Fairness.**

- Agents: weak fairness of the tick. The loop has no exit, and systemd restarts the process
  (`Restart=always`). In `AppAgent` a good container becomes healthy; in `JobRuns` a job's
  container ends; in `StatusFeed` time passes.
- Commands: a command that was not killed goes on (no wait in the CLI is unbounded:
  `Release` gives a remote build a deadline and does not rely on CodeBuild).
- Repetition that the documentation asks of operators: `autoscale run` by cron in `Autoscale`,
  `destroy --prune-expired` by cron in `Teardown`, `node reconcile` in `NodeFleet`, and in
  `ExternalNode` the hint that node init prints, to run it again while the node is
  provisioning. EC2 settles an instance that was asked to start, stop or terminate.
- Nothing is assumed of users, faults, CodeBuild or the console.

## 4. Proofs

Eight modules, each about one component for all values of its constants, under the named
assumption in its module (bounds are naturals, the special values are no members). Each
inductive invariant was an invariant of the component's run before it was proved. Of the
properties that the runs check, the theorems state these:

| Module | Theorems | Properties they state |
| --- | --- | --- |
| `AppAgentProofs` | `BeliefsAlwaysHold`, `RolloutAlwaysServes`, `SurgeAlwaysBounded`, `GateAlwaysHolds` | `BeliefsHold`, `RolloutKeepsServing`, `SurgeIsBounded`, `GateHolds` |
| | `PortsAlwaysTheirs` | `PortsAreTheirs` |
| `EdgeRouterProofs` | `RoutesAlwaysInTime`, `DrainedNeverRouted` | `RoutesInTime`, `RoutedIsAlive` |
| `DesiredStoreProofs` | `CommandsAreAtomic`, `PlansAreKept` | `WritesAreAtomic`, `PublishedAsPlanned` |
| | `SecretsAlwaysArrive` | `SecretsArrive` |
| | `CallsAlwaysAllowed` | `CallsAreAllowed` |
| `NodeFleetProofs` | `FleetAlwaysAccountedFor`, `DataAlwaysKept` | `FleetIsAccountedFor`, `DataIsKept` |
| | `CredentialsAlwaysHeld`, `RotationAlwaysKeepsTheNodeIn` | `CredentialsAreHeld`, `RotationKeepsTheNodeIn` |
| `CronScheduleProofs` | `FiresStartOnce`, `RunsAlwaysDue` | `AtMostOnce`, `RunsAreDue` |
| | `PolicyAlwaysKept`, `NeverOrphaned` | `PolicyIsKept`, the `NothingOrphaned` half of `NothingGoesWithIt` |
| `JobRunsProofs` | `JobsAtMostOnce`, `VerdictAlwaysTrue`, `RequestsAlwaysKept` | `AtMostOnce`, `VerdictIsTrue`, the safety half of `RequestsAreServed` |
| `StatusFeedProofs` | `AlwaysInTouch`, `ConvergedAlwaysRan`, `WakesAreKept` | `StaysInTouch`, `ConvergedMeansRan` |
| | `ImagesAlwaysSound`, `DeploysAlwaysArrive`, `UploadsAlwaysCleaned` | `ImagesAreSound`, `DeploysArrive`, the safety half of `NothingLingers` |
| `TeardownProofs` | `LiveAlwaysAccountedFor`, `TeardownsAlwaysExact` | `LiveIsAccountedFor`, `TeardownsAreExact` |

**AppAgentProofs.** The invariant is `BeliefsHold`: `TypeOK`; `PlanOK` (the plan of a tick is
spent before the next, and what is left has a configuration to work from), `ViewOK` (the
agent's view of docker, planned from one inspect and never refreshed, stays right),
`CountOK` (the counters bound the containers from both sides), `RoutingOK` (what the
shard lists at each stage, and which of it is healthy). `RolloutKeepsServing` alone is not
inductive: that the last routed replica is not stopped rests on the counters, those on the
view, and that on the plan. The clauses on routing and counting yield once a fault that misleads
the agent has happened: a PUT that reports an error and is applied, an rm that docker does not
carry out; `GatedOK` counts on replicas that are ready, whatever else docker has kept: the old ones
of the queue, and one beside them if the counter says that there is a new one. `RolloutAlwaysServes` follows from the invariant, `SurgeAlwaysBounded`,
`GateAlwaysHolds` and `DrainedAlwaysUnrouted` from it and the step at hand.

**EdgeRouterProofs.** `RoutesInTime` is inductive: `BodiesOK` (etags only grow, and a
body kept under the etag that its shard still has is that shard's body), `TimesOK` (how long
ago a drain can have begun whose replica the edge still knows, by the stage of its tick),
`AliveOK` (what the edge still knows, runs). From it,
`DrainedNeverRouted`: with `Poll + 2 * MaxTick < Floor`, until a tick is lost.

**DesiredStoreProofs.** `FreshOK` says that a command whose ETag matches holds exactly the
node's content; without it a put could not be shown to apply to the present content.
`CommandsAreAtomic` is the refinement of `AtomicDesired`: initial states map to initial
states and every step to a request or a stutter, with `RequestOf` naming the request.
`PlansAreKept` needs more, because what a command publishes on one node it has decided from
what it read on all of them, many steps earlier. `PlanInv` says, stage by stage, what is left to
do (`ShapeOK`) and that each node has either what the command read there or what it leaves there
(`PlanOK`, with `Result`); that the lock check has made the baseline cover what lives
(`LockedOK`, `CoveredOK`); and that a baseline with a matching ETag is the one that was read
(`BaselineOK`). All of it holds until a second command of the footprint overlaps, and the
invariant has it that two commands at once have set `overlap`. The frame of a step (`Frame`)
is the reason that commands of other footprints do not disturb it, though they put the same objects.

*Ports* (last part of AppAgentProofs). `PortInv` joins `PortsAreTheirs` with `RunOK`: what the run of
a container in progress was given is on record. The hash enters only as a function into the ports.

*Secrets* (last part of DesiredStoreProofs). `SecretInv` has `ReferencesResolve` with `CommandOK` (what a
`set` has done has landed; what a deploy has looked up is there, or was removed since it began)
and `RestartRotates` by way of `RotatedOK` (no value is older than at the last restart, and a container
started for it read one of them). It rests on two `--restart` deploys having different times,
which is how the attempt to prove it found that the model had taken them from too coarse a clock.

*Account* (last part of DesiredStoreProofs). `CallsAreAllowed` compares what the policies grant with what the
helpers call, so most of the proof is static: a lemma per helper says what it calls, makes and takes
away (of calls scoped to a document, an instance or a user, on which of them: `ScriptIs`, `DeleteUserIs`,
`RotateIs`); those on commands say that each of their steps passes the policy it runs under, or is
best effort and lacks only what `OperatorGoesWithout` names, and `ProgramIs` joins them. The gaps are where
these lemmas have a hypothesis. The rest is `AccessInvariant`.
`CiInvariant`: of a role that was never set up for two targets, the trust, the inline policy, the
workflow, the setup in progress and the CI deploy that runs all name the same target, whatever was interrupted.
`RunTypes`: a CI deploy that runs still has the state bucket. `NodesHold`: an instance has
its role, as a launch follows the step that makes the role and the role is deleted after the step that
ends the instance; without it the agent's call would be refused for want of an identity. The assumption
`NamesAssumption` says that no cluster or role goes by the placeholder for none.

**NodeFleetProofs.** `FleetIsAccountedFor` needs to know of each command at each stage what it has found
and what is still so. In `FleetInv`, `CommandsOK` is the shape of a command by kind and stage; `ClashOK`
says that only creates overlap until commands are mixed; `OwnOK` and `HeldOK` that what a command has
launched is nobody else's and what it read in node.json is still there; `NoStray` is the property's own.
`RegistryIsTrue` is about the end of unharmed commands, so `CalmOK` has, until the first fault,
what each of them has done and has left to do between what AWS has and what node.json says. The proof goes
by turns: commands that work alone (`WorkTurn`) and creates that race (`CreateTurn`); where other commands
overlap the property promises nothing but types. `DataAlwaysKept` follows from `DataOK`: what the gate read
of desired.json is still so when it terminates.

*External nodes* (last part of NodeFleetProofs). `ExternalInv` has `Met`: commands that run at the same time know
of each other; `KeysOK`: a key has one creator, and two are good at most; `ListedOK`: as long as no entry was removed
under a command that had read it, the entry is the one each command enrolled or read; `GoneOK`: a destroy that
has run alone leaves nothing; `SettledOK`: keys that no command is going to delete are one at most, and none
before an agent was first started, as an enrolment of a machine whose agent runs is not resumed.
`RotationOK` is what makes rotations that run side by side safe although they know nothing of each
other: IAM allows two keys, so a rotation whose key is good has beside it one that no rotation
created; hence no second rotation has a good key too, and the machine's is its own or void.

**CronScheduleProofs.** The last fire is on record in three places, the anchor in memory, the one in
state.json and the label of the run container, any of which can be lost. `RecordOK`: no record is
older than a run that was started, each taken alone; so whichever survives keeps a fire
from being started again. `SkipOK` says the same of skipped fires, while nothing was lost. `ReplayOK`:
no record of the schedule in force is from before it was seen. `KillOK`: the tick that is about to run has
seen that nothing is running. `FlowOK` ties the stage of the tick to the schedule it works for. Minutes
are any numbers; the latest fire that is due exists because a tick sees finitely many.

*Autoscale* (last part of CronScheduleProofs, as cron starts its passes). `ScalingInv` has `SinceOK` (the
`lastScaleAt` on record is the last claim's or a later one, so it ages no faster), `RoomOK` (the shape of a
pass) and `EmptyOK` (what is on a victim after its last look came late). `Course` sums a step up: one pass
moves at a time, and what a pass has read ages with the last claim. On it rests `MetInv`, about what passes
do to each other. `KnowsOK`: what a pass that observes has read is in force unless it has met somebody
who changes it. `FitsOK`: what a pass has decided fits, but for one node for each pass it has met.
`NestedOK`: a pass that another has met and that runs on has met nobody since whom the other has not;
so when it acts, the other's allowance grows by the one node it takes, as its own cannot have been larger. That the planner's victim is a node
of the pool rests on there being a least utilised one among finitely many (`LeastUsedExists`). The
assumption `StandingAssumption` says that the project's service has a place on the pool it starts with, as in the run.

**JobRunsProofs.** A container's count alone is not inductive: after a container is gone only the
request says whether its run may start again. `OnceOK`: a run that was started has its container or its
request no more, also while a tick that read an older entry is about to remove or start something.
`StaysOK`: a request the agent has read stays until its command will not publish it again. `CliOK`: an ETag
that matches vouches for what was read. `ResultOK` carries docker's exit code to status.json and on to the
verdict.

**StatusFeedProofs.** `WakeOK`: a message that came is in the queue, in the permit or in the read to
come. The listener deletes the message before it sets the permit, so none of the three alone is kept.
`BeatOK` bounds the age of status.json along the loop, from which `AlwaysInTouch`: an
agent whose puts succeed is silent for `Silence` at most, what a heartbeat lets pass with a poll and
the longest tick. No order between these and the stale limit is assumed, as the code has none. `BoxOK` and `DeployOK` say whose container each report can be about, for `ConvergedAlwaysRan`.

*Release* (last part of StatusFeedProofs, as the deploy that waits has shipped before). What a publish brings about was
decided when the command began, so `ShipInv` says of each command what still holds of that. `TagsOK`: as long as its
checkout has not changed, a service under a commit's tag is what that commit has; a dirty checkout's tag carries
the command's own number, and `OwnOK` has that everything such a tag is given to, in ECR, in a tarball and in a build
on CodeBuild, is what the checkout has. `ReadyOK`: the services it is done with are in ECR, which rests on `MineOK`, that
the one build under its number is the one it started, and on repositories that only grow (`Extends`, of which
`StaysPushed` draws what a lookup finds later). `RefOK` and `BackOK` carry what `--changed` and `rollback` have read,
until another command runs. The images that `--changed` leaves alone are right because a service that no
commit between two changes has the same last change at both (`SourceKept`). The assumption says that the first
commit has every service.

**TeardownProofs.** A footprint is live when a deploy that met no other command has put it up and nobody
has removed it. `AccountedOK` (`LiveIsAccountedFor`) is not inductive: nothing is locked,
and a teardown acts on lists it made earlier. The invariant adds `AloneOK` (a deploy that has met
nobody has nobody in its way now), `DeployOK` (so what it has written is still there), `ClearOK` (whoever
has published or removed a footprint does not find it live until it is through), `CheckedOK` and `PruneOK`
(what a teardown has checked of a live footprint still holds), and `CoversOK` (as long as none of its
teardowns failed, a project's destroy has every live footprint of the project ahead of it, which is why
it may delete the index). Each step is shown to spare what is live under other
names (`Spares`); one lemma draws from it what the other commands rely on (`OthersKeep`). The
assumption says that an environment is of its component's project, and that there is a component.

**Only model-checked.** All liveness is out of the prover's reach: `Converges`, `BackupsAreTaken`,
the other half of `RequestsAreServed`, `StatusCatchesUp`, `CaddyFollows`, `Reaped`,
`NodesComeBack`, `FloorRestored`, `NothingLingers`, `EnrolledComesUp`. `Placement` packs by folding over
replicas, so what it computes for every input would need induction over data, and
`Scheduler`'s `PlansAreAdmitted`, `MovesAreSafe` and `CommandsSettle` rest on that. So does
`MovedAreConfirmed`, the other half of `NothingGoesWithIt`: it compares a sum over the pool with what the packing
has placed.

## 5. Abstractions

Names, images, ports, domains and values are model values or small sets; wording, logging
and layout are left out. Beyond that:

- **AppAgent, EdgeRouter.** Faults are not excluded from the properties: histories (`faults.seen`,
  `missed`) say which have misled the agent and from when on nothing is promised. Time counts in
  EdgeRouter only, where a property needs it.
- **PortAlloc.** Which use of a port a tick makes is any that the replicas allow; three
  ports stand for ten thousand, and every name hashes to the last, so that the search wraps.
- **DesiredStore.** The planner is a choice; the lock compares names of services, not
  fields. edge.json is left out, and so are documents that do not parse: a desired.json that is unreadable or of
  another version counts as empty and is overwritten (`deploy.ts:595`), and a corrupt baseline is
  deleted by a destroy (`destroy.ts:218`).
- **Scheduler.** Node names are numbers, in their order; scores are exact fractions where the code
  has floats; one command of a footprint at a time (`DesiredStore` has them racing); node states,
  edges, drift repair and edits of cpu and memory are left out, and so is the removal of a service.
- **Autoscale.** One service that moves and one of another project; a rebalance, a launch
  and a teardown are one step each (`Scheduler` and `NodeFleet` have them in full); the
  prompt is an interleaving; one set of samples a pass; one budget of events of all kinds. A pass counts
  another that it met once, which is all that a pass may do in one go.
- **Release.** A footprint is published in one step; commits are linear; an edited
  launch-pad.toml is not committed; ensureRemoteBuildInfra is part of uploading; the delete of
  a context succeeds when it is reached; managed databases and dry runs are left out.
- **Teardown.** The services of a footprint are one object; the wait for the drain is a delay;
  markers are listed in one step; a marker is read and put in one; the index upsert's surrender
  after five lost races is left out, and so is `destroy --service` (it is `DesiredStore`'s).
- **NodeFleet.** An AWS call is one step, as is the search for an address and its allocation;
  the adoption of other nodes' default edge and the capacity check of a resize are left out.
- **ExternalNode.** One name and one machine; the check for existing keys and the creation
  of one are one step; an entry is told from its successor by `createdAt`; inactive keys, the
  default edge, a lost answer of CreateAccessKey, the reachability probe and the SSH
  preflight are left out. The machine is rebooted by systemd or whoever owns it.
- **Access.** The calls of a helper are one step, and calls that only read are part of the next;
  one command of the operator or of CI at a time; a branch per cluster; CI runs in clusters
  that the operator has deployed to; an agent's heartbeats are calls, not objects. The agent of an
  external node and the upload of its bundle are left out. That `ssm:GetCommandInvocation` is an action without a
  resource, which a grant on documents and instances does not cover, is knowledge of AWS, as are the resources
  of other calls.
- **Secrets.** One service; the rewrite of launch-pad.toml is one step.
- **CronSchedule.** A backup pass (databases, uploads, retention) is one dump.

## 6. Worth knowing

Read from the code while it was modelled. The models contain these behaviours; the properties
hold because they name them as exceptions, or do not promise what the code does not do.

*App agent.* A PUT of the shard that reports an error and was applied lets a rollout count a
replica as unrouted that is routed, or the reverse (`agent-app.rs:207`, `reconcile.rs:608`). A crash inside
the health gate leaves a replica that the next rollout counts as new without asking its health (`reconcile.rs:551`). The
last web service of a node is removed without its routes being retracted (`agent-app.rs:373`).

*Cron.* The anchor is seeded only where `cron_fires` has no entry (`agent-app.rs:320`), so a changed
schedule inherits the last fire of the old one, and its latest past fire is run at once;
`docs/configuration.md:158` says a freshly deployed schedule waits for its next fire. A service removed
and put back between two ticks inherits it too (`Outlived`, an exception that `RunsAreDue` names).

*Jobs.* An agent killed inside `docker run`, between create and start, leaves a container with exit
code 0, which is reported as a success. A run with `--no-wait`, or one that timed
out, leaves its request, and later runs are refused (`job.ts:142`). A full deploy drops the request of
a running job, whose container is then removed.

*Status and watch.* The agent's poll was raised to 60 s (`types.rs:33`), which is the limit after which
the CLI takes a node for dead, while `docs/agent.md:111` has the heartbeat of 30 s keep that check
reliable and `constants.ts:129` orders poll, heartbeat and half the limit. Run `status_feed_stale`;
the agent logs a warning of it at each start (`status_write.rs:318`). An external node that looks dead is
left out of placement (`candidate-nodes.ts:86`), and autoscale refuses to scale in (`autoscale.ts:212`). A restart watched from a status that was written before the last deploy ran is
taken for converged at once (`watch.ts:18`). An `error` status left by the
last deploy fails the one that fixes it. A heartbeat in the middle of a tick lists no
services, which `destroy`'s wait takes for drained.

*Edge.* The drain floor is a constant of 90 s while `LAUNCHPAD_POLL_MS` can raise the
edge's poll above it; `docs/configuration.md:125` speaks of a floor at the edge's cadence.

*Ports.* Undeploy and failed runs release no record, and indices grow with each rollout, so records
leak; with every port on record the search for one does not end. After state.json is lost a
replica may be given a port that an older container holds, and its docker run fails in each
tick. Placement does not count ports.

*Store.* The publish loop replaces a footprint node by node (`deploy.ts:1812`), so a service that moves
off a node that remains a target is nowhere for a moment, and stays so if the command
fails there; the comment at `deploy.ts:1831` has additions first (and `AdditionsFirst` says it of vacated
nodes). A subset deploy plans its service as if it had no replicas and skips the cleanup
(`deploy.ts:1690`): after `scale` to fewer replicas, a node the plan left keeps the old entry.

*Scheduler.* A subset deploy plans without the siblings it keeps and can be refused for capacity that
a full one finds. A service with volumes is placed afresh when its node is not a candidate
(`placement.ts:266`), which an external node with a stale heartbeat is not either, though its data
exists. The check that a rebalance's target
still exists (`rebalance.ts:433`) asks the snapshot, which has it. When two services swap nodes, the first publish
takes one of them from its node before the second has put it on the other (`rebalance.ts:424`
says a moved replica exists somewhere at all times).

*Autoscale.* `claimScaleAction` conditions the put on the read just before it and looks neither at the
`lastScaleAt` it reads nor at the etag of the plan (`autoscale.ts:531`): overlapping passes can both act, against
`docs/cli.md:779`, and together they leave `maxNodes` or the cooldown (run `autoscale_overlap`). A drain that timed out leaves nothing to move, so the next pass does not wait
for convergence (`rebalance.ts:266`) and terminates the node while the replicas may not be up elsewhere; likewise
`node destroy --evacuate`.

*Fleet.* The sweep deletes a node's prefix without looking at node.json again (`node/index.ts:1005`), which it
read before a confirmation: a create that registers meanwhile loses its entry, and its instance runs on
unregistered. The prefix of a create in progress is on prune's list. A teardown that removed the group or
the profile and not node.json is beyond reconcile; so is an edge that has lost its address.
`cluster destroy` has no data gate (`cluster/index.ts:779`).

*External nodes.* The loser of two enrolments of one name deletes the IAM user of the winner. SSH
that breaks after agent.env is rewritten leaves the machine with a key that is then deleted. A cleanup that fails
blocks later rotations at IAM's limit of two keys. `upgrade-agent` over SSH rewrites the unit without its
EnvironmentFile. A process killed between the creation of a key and the registration leaves a user.

*Release.* A tag is the commit, with a timestamp if the checkout is dirty (`build.ts:54`), not a hash of
the content, although `scale.ts:105` says so: after `scale` or `config set` has written launch-pad.toml the
image is built anew from the working tree. The tag ignores the platform. A second pusher of one tag fails,
as tags are immutable. A rollback may choose an image that was never deployed in the footprint. Two remote builds of one
commit share a context. `--restart` takes the image of the first node it finds.

*Access.* The operator policy lacks the IAM user calls that external nodes need (node init, rotate-creds,
their destroy), and the backups bucket; it grants the result of a script on documents and instances
(`operator-policy.ts:274`), so `upgrade-agent` cannot see what became of its own;
the CI role lacks remote builds and backups, and the secrets of components, as the
grant is for the project and the path has the footprint's owner. The default role name has no cluster, so
`setup ci-deploy` for a second cluster takes the role from the first; a shared `--role-name` collects policies
while its trust is switched. Queues and topics are not deleted by anything.

*Secrets.* `--no-register` has no effect: commander sets `register`, the code reads `noRegister` (`secret/index.ts:165`). `rm` in one environment
unregisters the key for all. A deploy without `--restart` after one with it drops `restartAt`
and rolls every container again.

*Teardown.* A purge removes secrets although the drain timed out. The index entry of a base
footprint stays if its destroy is killed before the end, and a deploy killed before its marker is put
leaves an environment that nothing expires. The check that an environment is still expired
and the destroy are apart, so a deploy between them is destroyed (`destroy.ts:980`).

*Backup of the state.* `launchpad backup` reads a cluster's objects one after the other as text, the uploaded agent binary
among them, and `restore` puts them back unconditionally, in no order.

## 7. Not modelled

- **State backup and restore:** copies; a restore overrides by design what was written since.
- **Networking and DNS, doctor, cost, alerts, history, logs, dashboard, completions, list and show
  commands:** they read and print.
- **Config parsing, `init`, the field by field comparison of the lock and of drift:** pure
  functions of one input; tests reach them.
- **Log shipping, stats, image pruning, uploads of dumps:** I/O of the agent whose failures
  do not change what it does next. Disk-pressure pruning removes only what docker
  calls unused.
- **What docker, Caddy, CodeBuild and AWS do inside:** environment, with the outcomes the code
  distinguishes.
- **Load balancing and health checks in Caddy:** by configuration, not by this code.

## 8. Plan

The model covers what section 1 lists, and theorems state the safety properties of all its modules but
`Placement` and `Scheduler` (and `MovedAreConfirmed` of `Autoscale`). A finer `Scheduler` would have
cpu and memory edits, and a finer `Release` several footprints per project.
