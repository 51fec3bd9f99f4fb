------------------------------ MODULE AppAgent ------------------------------
(***************************************************************************)
(* The app-node agent (packages/agent-rust/src/bin/agent-app.rs) and the   *)
(* long-running part of its reconcile engine (src/reconcile.rs), for one   *)
(* web service of one node: every tick reads desired.json, diffs it with   *)
(* the containers docker reports, applies the difference (start, create,   *)
(* scale down, remove, or a health-gated rolling update), and publishes    *)
(* the upstream shard its edge node routes by.                             *)
(*                                                                         *)
(* The agent is single-threaded, so a step of it is one call with a side   *)
(* effect (a docker command, an S3 PUT); the CLI, docker and the           *)
(* containers act between any two of them, and the agent can crash         *)
(* between any two of them.  A container is known by its replica index:    *)
(* container names are unique per (project, service, index) and only the   *)
(* agent creates them.                                                     *)
(***************************************************************************)
EXTENDS Naturals, FiniteSets

CONSTANTS
    Stamp,        \* what a replica must match: image, cpu, memory, config stamp
    GoodStamp,    \* the stamps whose containers can pass the health check
    Configs,      \* the service configurations the CLI deploys to this node
    NoService,    \* desired.json does not list the service
    NoStamp,      \* the stamp of an index that has no container
    Unknown,      \* no shard fingerprint: the agent has not published yet
    SiblingWeb,   \* may the node host another web service?  (set of BOOLEAN)
    MaxIndex,     \* bound: the highest replica index
    MaxDeploys,   \* bound: how often the CLI rewrites desired.json
    MaxFaults,    \* bound: how many faults happen in a behaviour
    FaultKinds    \* the faults that may happen

Index == 0 .. MaxIndex

\* crash: the agent dies; exit: a container dies; run / start: the docker
\* command fails; pull: docker pull fails; slow: a good container misses the
\* health deadline; put: a shard PUT fails; ambiguous: a shard PUT reports an
\* error but was applied; rm: docker stop / rm fails (its error is ignored).
Fault == {"crash", "exit", "run", "start", "pull", "slow", "put",
          "ambiguous", "rm"}

ASSUME ConfigsAssumption ==
    /\ GoodStamp \subseteq Stamp
    /\ NoStamp \notin Stamp
    /\ Configs \subseteq [stamp    : Stamp,
                          replicas : Nat \ {0},
                          surge    : Nat \ {0}]
    /\ NoService \notin Configs
    /\ SiblingWeb \subseteq BOOLEAN
    /\ \A S \in SUBSET Index : S # Unknown
ASSUME BoundsAssumption ==
    /\ MaxIndex \in Nat
    /\ MaxDeploys \in Nat
    /\ MaxFaults \in Nat
    /\ FaultKinds \subseteq Fault

VARIABLES
    (* shared through S3 *)
    desired,     \* this service's entry of desired.json
    shard,       \* indices listed by the upstream shard object
    (* docker *)
    state,       \* docker state of each index's container
    stamp,       \* stamp each container was run with
    ready,       \* indices that answer the health check
    (* the agent process *)
    pc,          \* what the agent is about to do
    cfg,         \* self.desired: the entry this tick works from
    starts,      \* planned Start actions not yet applied
    creates,     \* planned Create actions not yet applied
    removes,     \* replicas of the ScaleDown / Remove action not yet removed
    oldQueue,    \* rollout_service: drifted replicas still to be replaced
    newCount,    \* rollout_service: replicas counted as new
    nextIndex,   \* rollout_service: index of the next surged replica
    cur,         \* rollout_service: replica being surged or drained
    lastShard,   \* last_shard_fps: what the agent believes it published
    (* bookkeeping *)
    sibling,     \* the node hosts another web service as well
    gated,       \* history: this rollout began with every replica ready
    deploys,     \* desired.json writes left
    faults       \* faults left, and history: which misleading ones happened

s3Vars     == <<desired, shard>>
dockerVars == <<state, stamp, ready>>
planVars   == <<starts, creates, removes>>
cliVars    == <<deploys, sibling>>
rollVars   == <<oldQueue, newCount, nextIndex, cur>>
vars == <<desired, shard, state, stamp, ready, pc, cfg, starts, creates,
          removes, oldQueue, newCount, nextIndex, cur, lastShard, sibling,
          gated, deploys, faults>>

DockerState == {"none", "created", "running", "exited"}
RolloutPc   == {"pull", "rollout", "health", "route", "abort", "unroute",
                "drain", "settle"}
Pc          == {"idle", "turn", "apply", "publish"} \cup RolloutPc

\* a PUT that was applied but failed, and a container docker did not remove:
\* the agent takes the opposite for granted
Misleading == {"ambiguous", "rm"}
Budget == [left : 0 .. MaxFaults, seen : SUBSET Misleading]

\* a misleading fault of this kind has happened
Misled(kind) == kind \in faults.seen

TypeOK ==
    /\ desired \in Configs \cup {NoService}
    /\ shard \in SUBSET Index
    /\ state \in [Index -> DockerState]
    /\ stamp \in [Index -> Stamp \cup {NoStamp}]
    /\ ready \in SUBSET Index
    /\ pc \in Pc
    /\ cfg \in Configs \cup {NoService}
    /\ starts \in SUBSET Index
    /\ creates \in SUBSET Index
    /\ removes \in SUBSET Index
    /\ oldQueue \in SUBSET Index
    /\ newCount \in Nat
    /\ nextIndex \in Nat
    /\ cur \in Index
    /\ lastShard \in (SUBSET Index) \cup {Unknown}
    /\ sibling \in BOOLEAN
    /\ gated \in BOOLEAN
    /\ deploys \in 0 .. MaxDeploys
    /\ faults \in Budget

-----------------------------------------------------------------------------
(* What docker reports (docker ps -a, so stopped containers count).         *)

Have    == {i \in Index : state[i] # "none"}
Running == {i \in Index : state[i] = "running"}

Least(S) == CHOOSE i \in S : \A j \in S : i <= j
Greatest(S) == CHOOSE i \in S : \A j \in S : j <= i

\* replica_needs_replace
NeedsReplace(i, c) == stamp[i] # c.stamp

Drifted(c) == {i \in Have : NeedsReplace(i, c)}

\* the n lowest indices that no container uses
LowestFree(n) == {i \in Index \ Have :
                    Cardinality({j \in Index \ Have : j < i}) < n}

\* the n highest indices in use
HighestUsed(n) == {i \in Have : Cardinality({j \in Have : j > i}) < n}

\* The replicas that answer requests: routed to, running and healthy.
Serving == shard \cap Running \cap ready

\* a fault happens; those that leave the agent with a false belief are kept
UseFault(kind) ==
    /\ kind \in FaultKinds
    /\ faults.left > 0
    /\ faults' = [left |-> faults.left - 1,
                  seen |-> faults.seen \cup ({kind} \cap Misleading)]

Init ==
    /\ desired = NoService
    /\ shard = {}
    /\ state = [i \in Index |-> "none"]
    /\ stamp = [i \in Index |-> NoStamp]
    /\ ready = {}
    /\ pc = "idle"
    /\ cfg = NoService
    /\ starts = {} /\ creates = {} /\ removes = {}
    /\ oldQueue = {} /\ newCount = 0 /\ nextIndex = 0 /\ cur = 0
    /\ lastShard = Unknown
    /\ sibling \in SiblingWeb
    /\ gated = FALSE
    /\ deploys = MaxDeploys
    /\ faults = [left |-> MaxFaults, seen |-> {}]

-----------------------------------------------------------------------------
(* The rest of the world.                                                   *)

\* The CLI rewrites the service's entry, or drops it (undeploy).
Deploy ==
    /\ deploys > 0
    /\ \E d \in (Configs \cup {NoService}) \ {desired} : desired' = d
    /\ deploys' = deploys - 1
    /\ UNCHANGED <<shard, dockerVars, pc, cfg, planVars, rollVars, lastShard,
                   sibling, gated, faults>>

\* A container finishes starting up and answers its health check.
BecomeReady(i) ==
    /\ i \in Running \ ready
    /\ stamp[i] \in GoodStamp
    /\ ready' = ready \cup {i}
    /\ UNCHANGED <<s3Vars, state, stamp, pc, cfg, planVars, rollVars,
                   lastShard, gated, cliVars, faults>>

ContainerExit(i) ==
    /\ UseFault("exit")
    /\ i \in Running
    /\ state' = [state EXCEPT ![i] = "exited"]
    /\ ready' = ready \ {i}
    /\ gated' = FALSE
    /\ UNCHANGED <<s3Vars, stamp, pc, cfg, planVars, rollVars, lastShard,
                   cliVars>>

\* The unless-stopped restart policy of a long-running container.
DockerRestart(i) ==
    /\ state[i] = "exited"
    /\ state' = [state EXCEPT ![i] = "running"]
    /\ UNCHANGED <<s3Vars, stamp, ready, pc, cfg, planVars, rollVars,
                   lastShard, gated, cliVars, faults>>

\* Everything the process held in memory is lost, the shard fingerprints too.
AgentCrash ==
    /\ UseFault("crash")
    /\ pc' = "idle"
    /\ cfg' = NoService
    /\ starts' = {} /\ creates' = {} /\ removes' = {}
    /\ oldQueue' = {} /\ newCount' = 0 /\ nextIndex' = 0 /\ cur' = 0
    /\ lastShard' = Unknown
    /\ gated' = FALSE
    /\ UNCHANGED <<s3Vars, dockerVars, cliVars>>

-----------------------------------------------------------------------------
(* docker commands.                                                         *)

RunContainer(i) ==
    /\ state' = [state EXCEPT ![i] = "running"]
    /\ stamp' = [stamp EXCEPT ![i] = cfg.stamp]
    /\ UNCHANGED ready

\* docker run fails before it creates the container (secrets, network, name)
\* or after: a container that could not be started stays behind as "created".
RunFails(i) ==
    /\ UseFault("run")
    /\ \/ UNCHANGED <<state, stamp>>
       \/ /\ state' = [state EXCEPT ![i] = "created"]
          /\ stamp' = [stamp EXCEPT ![i] = cfg.stamp]
    /\ UNCHANGED ready

DropContainer(i) ==
    /\ state' = [state EXCEPT ![i] = "none"]
    /\ stamp' = [stamp EXCEPT ![i] = NoStamp]
    /\ ready' = ready \ {i}

\* remove_container ignores the exit status of docker rm: the caller goes on
\* whether or not the container is gone.
RemoveContainer(i) ==
    \/ DropContainer(i) /\ UNCHANGED faults
    \/ UseFault("rm") /\ UNCHANGED dockerVars

\* So does stop_container, of docker stop and of docker rm after it: if only the
\* second fails, the container stays behind stopped.
StopContainer(i) ==
    \/ RemoveContainer(i)
    \/ /\ UseFault("rm")
       /\ state' = [state EXCEPT ![i] = IF i \in Running THEN "exited" ELSE @]
       /\ ready' = ready \ {i}
       /\ UNCHANGED stamp

-----------------------------------------------------------------------------
(* publish_upstream: inspect, build the shard, PUT it unless its            *)
(* fingerprint is the one last published.                                   *)

\* build_upstream_shards: the running replicas of a service this tick's
\* desired state lists, without those that are draining
Content(exclude) == IF cfg = NoService THEN {} ELSE Running \ exclude

\* has_web: without a web service of its own the agent publishes nothing
HasWeb == cfg # NoService \/ sibling

\* The fingerprint covers the whole shard object, the sibling's entry included:
\* with a sibling a PUT may be needed whatever this service's part says.
MaySkip(exclude) == lastShard = Content(exclude)
MayPut(exclude)  == lastShard # Content(exclude) \/ sibling

PublishOk(exclude) ==
    /\ \/ /\ MaySkip(exclude)
          /\ UNCHANGED <<shard, lastShard>>
       \/ /\ MayPut(exclude)
          /\ shard' = Content(exclude)
          /\ lastShard' = Content(exclude)
    /\ UNCHANGED <<desired, faults>>

\* The PUT fails and the fingerprint is not advanced.  An ambiguous failure
\* (a timeout, a lost response) was applied all the same.
PublishFails(exclude) ==
    /\ MayPut(exclude)
    /\ \/ UseFault("put") /\ UNCHANGED shard
       \/ UseFault("ambiguous") /\ shard' = Content(exclude)
    /\ UNCHANGED <<desired, lastShard>>

-----------------------------------------------------------------------------
(* tick_inner, up to and including plan_reconcile.                          *)

PlanRemove ==
    /\ cfg' = NoService
    /\ removes' = Have
    /\ pc' = "turn"
    /\ gated' = FALSE
    /\ UNCHANGED <<starts, creates, rollVars>>

PlanRollout(c) ==
    /\ c # NoService
    /\ Drifted(c) # {}
    /\ cfg' = c
    /\ oldQueue' = Drifted(c)
    /\ newCount' = Cardinality(Have \ Drifted(c))
    /\ nextIndex' = Greatest(Have) + 1
    /\ pc' = "turn"
    /\ gated' = (Serving # {} /\ Have \subseteq ready)
    /\ UNCHANGED <<planVars, cur>>

\* mutant: restarts exited containers only, not those that never started
BugPlanScale(c) ==
    /\ c # NoService
    /\ Drifted(c) = {}
    /\ cfg' = c
    /\ starts' = {i \in Have : state[i] = "exited"}
    /\ LET have == Cardinality(Have) IN
       /\ creates' = IF have < c.replicas THEN LowestFree(c.replicas - have)
                                         ELSE {}
       /\ removes' = IF have > c.replicas THEN HighestUsed(have - c.replicas)
                                         ELSE {}
    /\ pc' = "turn"
    /\ gated' = FALSE
    /\ UNCHANGED rollVars

\* Counts replicas, whatever their indices: start the stopped ones, then
\* create at the lowest free indices or scale down from the highest.
PlanScale(c) ==
    /\ c # NoService
    /\ Drifted(c) = {}
    /\ cfg' = c
    /\ starts' = Have \ Running
    /\ LET have == Cardinality(Have) IN
       /\ creates' = IF have < c.replicas THEN LowestFree(c.replicas - have)
                                         ELSE {}
       /\ removes' = IF have > c.replicas THEN HighestUsed(have - c.replicas)
                                         ELSE {}
    /\ pc' = "turn"
    /\ gated' = FALSE
    /\ UNCHANGED rollVars

BeginTick ==
    /\ pc = "idle"
    /\ \/ desired = NoService /\ PlanRemove
       \/ PlanRollout(desired)
       \/ PlanScale(desired)
    /\ UNCHANGED <<s3Vars, dockerVars, lastShard, cliVars, faults>>

\* The actions of the other services come first ...
TakeTurn ==
    /\ pc = "turn"
    /\ pc' = IF oldQueue # {} THEN "pull" ELSE "apply"
    /\ UNCHANGED <<s3Vars, dockerVars, cfg, planVars, rollVars, lastShard,
                   gated, cliVars, faults>>

\* ... or last (Remove actions are always last): a rollout of one of them
\* publishes the node's whole shard.
SiblingPublish ==
    /\ sibling
    /\ pc = "turn" \/ (pc = "publish" /\ cfg # NoService)
    /\ PublishOk({}) \/ PublishFails({})
    /\ UNCHANGED <<dockerVars, pc, cfg, planVars, rollVars, gated, cliVars>>

-----------------------------------------------------------------------------
(* apply_actions without a rollout.  An action that fails is recorded as an *)
(* error of the service and the next action is applied all the same.        *)

ApplyStart ==
    /\ pc = "apply" /\ starts # {}
    /\ LET i == Least(starts) IN
       /\ starts' = starts \ {i}
       /\ \/ state' = [state EXCEPT ![i] = "running"] /\ UNCHANGED faults
          \/ UseFault("start") /\ UNCHANGED state
    /\ UNCHANGED <<s3Vars, stamp, ready, pc, cfg, creates, removes, rollVars,
                   lastShard, gated, cliVars>>

ApplyCreate ==
    /\ pc = "apply" /\ starts = {} /\ creates # {}
    /\ LET i == Least(creates) IN
       /\ creates' = creates \ {i}
       /\ \/ RunContainer(i) /\ UNCHANGED faults
          \/ RunFails(i)
          \/ UseFault("pull") /\ UNCHANGED dockerVars
    /\ UNCHANGED <<s3Vars, pc, cfg, starts, removes, rollVars, lastShard,
                   gated, cliVars>>

\* Remove goes through the replicas in index order, ScaleDown in the opposite.
ApplyRemove ==
    /\ pc = "apply" /\ starts = {} /\ creates = {} /\ removes # {}
    /\ LET i == IF cfg = NoService THEN Least(removes) ELSE Greatest(removes) IN
       /\ removes' = removes \ {i}
       /\ RemoveContainer(i)
    /\ UNCHANGED <<s3Vars, pc, cfg, starts, creates, rollVars, lastShard,
                   gated, cliVars>>

\* Every action is applied.
EndApply ==
    /\ pc = "apply" /\ starts = {} /\ creates = {} /\ removes = {}
    /\ pc' = IF HasWeb THEN "publish" ELSE "idle"
    /\ UNCHANGED <<s3Vars, dockerVars, cfg, planVars, rollVars, lastShard,
                   gated, cliVars, faults>>

\* The tick-end refresh; an error here ends the tick with an error status.
TickPublish ==
    /\ pc = "publish"
    /\ PublishOk({}) \/ PublishFails({})
    /\ pc' = "idle"
    /\ gated' = FALSE
    /\ UNCHANGED <<dockerVars, cfg, planVars, rollVars, cliVars>>

-----------------------------------------------------------------------------
(* rollout_service.                                                         *)

rolloutFrame == <<desired, cfg, planVars, gated, cliVars>>

\* The function returns: its locals are gone and the tick goes on.
LeaveRollout ==
    /\ pc' = "publish"
    /\ oldQueue' = {} /\ newCount' = 0 /\ nextIndex' = 0 /\ cur' = 0

Pull ==
    /\ pc = "pull"
    /\ \/ pc' = "rollout" /\ UNCHANGED <<rollVars, faults>>
       \/ UseFault("pull") /\ LeaveRollout
    /\ UNCHANGED <<rolloutFrame, shard, dockerVars, lastShard>>

Total == Cardinality(oldQueue) + newCount

\* mutants: drain before surging; one replica above the surge budget
BugDrainFirst == newCount < cfg.replicas /\ Total < cfg.replicas
BugSurgeByOne == newCount < cfg.replicas /\ Total <= cfg.replicas + cfg.surge

MaySurge == newCount < cfg.replicas /\ Total < cfg.replicas + cfg.surge

\* Branch 1: run one more replica of the new configuration.
Surge ==
    /\ pc = "rollout"
    /\ MaySurge
    /\ nextIndex \in Index                \* bound
    /\ nextIndex' = nextIndex + 1
    /\ cur' = nextIndex
    /\ RunContainer(nextIndex)
    /\ pc' = "health"
    /\ UNCHANGED <<rolloutFrame, shard, oldQueue, newCount, lastShard, faults>>

SurgeFails ==
    /\ pc = "rollout"
    /\ MaySurge
    /\ nextIndex \in Index                \* bound
    /\ RunFails(nextIndex)
    /\ LeaveRollout
    /\ UNCHANGED <<rolloutFrame, shard, lastShard>>

\* wait_healthy
HealthPass ==
    /\ pc = "health"
    /\ cur \in ready
    /\ newCount' = newCount + 1
    /\ pc' = "route"
    /\ UNCHANGED <<rolloutFrame, shard, dockerVars, oldQueue, nextIndex, cur,
                   lastShard, faults>>

\* mutant: the replica that failed the health check is left running
BugHealthTimeout ==
    /\ pc = "health"
    /\ cur \notin ready
    /\ \/ /\ stamp[cur] \notin GoodStamp \/ state[cur] # "running"
          /\ UNCHANGED faults
       \/ UseFault("slow")
    /\ pc' = "abort"
    /\ UNCHANGED <<rolloutFrame, shard, dockerVars, rollVars, lastShard>>

\* The ceiling elapses: the new replica is stopped and the rollout aborted.
\* A good container that runs misses the ceiling only by a fault.
HealthTimeout ==
    /\ pc = "health"
    /\ cur \notin ready
    /\ \/ /\ stamp[cur] \notin GoodStamp \/ state[cur] # "running"
          /\ StopContainer(cur)
       \/ UseFault("slow") /\ DropContainer(cur)
    /\ pc' = "abort"
    /\ UNCHANGED <<rolloutFrame, shard, rollVars, lastShard>>

AbortPublish ==
    /\ pc = "abort"
    /\ PublishOk({}) \/ PublishFails({})
    /\ LeaveRollout
    /\ UNCHANGED <<cfg, planVars, gated, cliVars, dockerVars>>

\* Add the healthy replica to the routing.
RoutePublish ==
    /\ pc = "route"
    /\ \/ /\ PublishOk({})
          /\ pc' = "rollout"
          /\ UNCHANGED rollVars
       \/ /\ PublishFails({})
          /\ LeaveRollout
    /\ UNCHANGED <<cfg, planVars, gated, cliVars, dockerVars>>

\* Branch 2: retire the first of the old replicas.
TakeOld ==
    /\ pc = "rollout"
    /\ ~MaySurge
    /\ oldQueue # {}
    /\ cur' = Least(oldQueue)
    /\ oldQueue' = oldQueue \ {cur'}
    /\ pc' = "unroute"
    /\ UNCHANGED <<rolloutFrame, shard, dockerVars, newCount, nextIndex,
                   lastShard, faults>>

\* mutant: the publish before the drain still lists the draining replica
BugUnroutePublish ==
    /\ pc = "unroute"
    /\ \/ /\ PublishOk({})
          /\ pc' = "drain"
          /\ UNCHANGED rollVars
       \/ /\ PublishFails({})
          /\ LeaveRollout
    /\ UNCHANGED <<cfg, planVars, gated, cliVars, dockerVars>>

\* Stop routing to it before it is stopped; a failed publish aborts.
UnroutePublish ==
    /\ pc = "unroute"
    /\ \/ /\ PublishOk({cur})
          /\ pc' = "drain"
          /\ UNCHANGED rollVars
       \/ /\ PublishFails({cur})
          /\ LeaveRollout
    /\ UNCHANGED <<cfg, planVars, gated, cliVars, dockerVars>>

\* After the drain wait: SIGTERM, grace, remove.
StopOld ==
    /\ pc = "drain"
    /\ StopContainer(cur)
    /\ pc' = "rollout"
    /\ UNCHANGED <<rolloutFrame, shard, rollVars, lastShard>>

\* Branch 3: converged.
Converged ==
    /\ pc = "rollout"
    /\ ~MaySurge
    /\ oldQueue = {}
    /\ pc' = "settle"
    /\ UNCHANGED <<rolloutFrame, shard, dockerVars, rollVars, lastShard, faults>>

SettlePublish ==
    /\ pc = "settle"
    /\ PublishOk({}) \/ PublishFails({})
    /\ LeaveRollout
    /\ UNCHANGED <<cfg, planVars, gated, cliVars, dockerVars>>

-----------------------------------------------------------------------------

Rollout ==
    \/ Pull \/ Surge \/ SurgeFails \/ HealthPass \/ HealthTimeout
    \/ AbortPublish \/ RoutePublish \/ TakeOld \/ UnroutePublish
    \/ StopOld \/ Converged \/ SettlePublish

Apply == ApplyStart \/ ApplyCreate \/ ApplyRemove \/ EndApply

Agent == BeginTick \/ TakeTurn \/ Apply \/ Rollout \/ TickPublish

World ==
    \/ Deploy
    \/ AgentCrash
    \/ \E i \in Index : BecomeReady(i) \/ ContainerExit(i) \/ DockerRestart(i)

Next == Agent \/ SiblingPublish \/ World

Spec == Init /\ [][Next]_vars

(* The agent process is restarted by systemd and its poll loop never stops;  *)
(* a good container comes up.  The CLI and the faults owe nothing.           *)
Fairness ==
    /\ WF_vars(Agent)
    /\ \A i \in Index : WF_vars(BecomeReady(i))

FairSpec == Spec /\ Fairness

-----------------------------------------------------------------------------
(* Properties.                                                              *)

(* A rollout stops an old replica only once the shard in S3 no longer lists  *)
(* it: the order publish, drain, stop of rollout_service (branch 2), with a  *)
(* failed publish aborting the step.  Holds until a PUT that reports an      *)
(* error is applied all the same.                                            *)
DrainedIsUnrouted == pc = "drain" /\ ~Misled("ambiguous") => cur \notin shard

(* A rollout that begins with every replica of the service ready and at      *)
(* least one of them routed to keeps a healthy replica routed to until the   *)
(* tick ends, whatever docker or S3 call fails on the way and whether or not *)
(* the new version ever becomes healthy: the zero-downtime promise of        *)
(* rollout_service, for the rollouts that start from a healthy service.      *)
RolloutKeepsServing == gated /\ ~Misled("ambiguous") => Serving # {}

(* In such a rollout the health gate works: the shard gains only replicas    *)
(* that have passed the health check, unless docker kept a replica that      *)
(* failed it.                                                                *)
GateHolds ==
    [][gated /\ gated' /\ faults'.seen = {} => shard' \ shard \subseteq ready']_vars

(* The counters of rollout_service (old_queue and new_count, which are not   *)
(* refreshed from docker) keep the real number of containers within          *)
(* replicas + max_surge at every surge.                                      *)
SurgeIsBounded ==
    [][pc = "rollout" /\ pc' = "health" /\ ~Misled("rm") =>
         Cardinality(Have') <= cfg.replicas + cfg.surge]_vars

-----------------------------------------------------------------------------
(* The inductive invariant behind the safety properties, in three layers.    *)

\* a rollout is planned or under way
Rolling == pc \in RolloutPc \/ (pc = "turn" /\ oldQueue # {})

\* the replica in hand is counted neither as old nor as new
InHand == pc \in {"health", "unroute", "drain"}

(* The plan of a tick is spent before the next tick, and creates and         *)
(* rollouts have a configuration to work from.                               *)
PlanOK ==
    /\ pc \notin {"turn", "apply"} => starts = {} /\ creates = {}
    /\ creates # {} => cfg \in Configs
    /\ pc \in {"idle", "apply", "publish"} => oldQueue = {}
    /\ Rolling => cfg \in Configs /\ starts = {} /\ creates = {}

(* The agent's view of docker, planned from one inspect and never refreshed, *)
(* stays right: free indices stay free, the queue holds existing replicas,   *)
(* the replica in hand exists.                                               *)
ViewOK ==
    /\ ready \subseteq Running
    /\ starts \subseteq Have
    /\ creates \cap Have = {}
    /\ Rolling => \A i \in Have : i < nextIndex
    /\ oldQueue \subseteq Have
    /\ InHand => cur \in Have \ oldQueue

(* The counters bound the containers from both sides.                        *)
CountOK ==
    Rolling =>
        /\ newCount > 0 => \E i \in Have \ oldQueue : InHand => i # cur
        /\ ~Misled("rm") =>
             Cardinality(Have) <= Cardinality(oldQueue) + newCount
                                  + (IF InHand THEN 1 ELSE 0)

(* The shard fingerprint the agent keeps is that of the shard in S3.  A PUT  *)
(* that reports an error although it was applied breaks this.                *)
Remembers == lastShard # Unknown => lastShard = shard

(* Where a rollout that began healthy may have a replica that is not ready   *)
(* before docker has kept one: the surged one before its gate, or one that   *)
(* docker could not start.                                                   *)
MayBeUnready(i) ==
    \/ pc = "health" /\ i = cur
    \/ pc = "publish" /\ state[i] = "created"

(* Such a rollout counts on replicas that are ready, whatever docker has     *)
(* kept beside them: the old ones of the queue, and a new one if it has      *)
(* counted any; it drains a replica when another is ready.                   *)
GatedOK ==
    gated =>
        /\ Rolling \/ pc = "publish"
        /\ cfg \in Configs
        /\ Rolling => /\ oldQueue \subseteq ready
                      /\ newCount > 0 => \E i \in ready \ oldQueue : InHand => i # cur
        /\ pc = "unroute" => ready \ {cur} # {}
        /\ ~Misled("rm") => \A i \in Have : i \in ready \/ MayBeUnready(i)

RoutingOK ==
    /\ GatedOK
    /\ ~Misled("ambiguous") =>
           Remembers /\ DrainedIsUnrouted /\ RolloutKeepsServing

(* Everything above: what the agent believes of docker and S3 between two of *)
(* its calls is true, whatever crashed, failed or was deployed before.       *)
BeliefsHold == TypeOK /\ PlanOK /\ ViewOK /\ CountOK /\ RoutingOK

-----------------------------------------------------------------------------
(* Liveness.                                                                *)

AsDesired ==
    /\ desired # NoService
    /\ Have = Running
    /\ \A i \in Have : stamp[i] = desired.stamp
    /\ Cardinality(Have) = desired.replicas
    /\ Remembers => shard = Have

(* When the CLI leaves the service alone, the agent converges: exactly the   *)
(* desired replicas run and the shard lists exactly them, from any mess that *)
(* crashes, failed docker commands, failed PUTs and earlier rollouts left.   *)
(* An undeployed service is stopped, and its routes are retracted as long as *)
(* the node hosts another web service.                                       *)
Converges ==
    /\ \A d \in Configs :
           d.stamp \in GoodStamp /\ <>[](desired = d) => <>[]AsDesired
    /\ <>[](desired = NoService) =>
           <>[](Have = {} /\ (sibling /\ Remembers => shard = {}))

=============================================================================
